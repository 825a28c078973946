---------------------------- MODULE PayoutProofs ----------------------------
(***************************************************************************)
(* That the ring buffer is a queue, for every size of it, every set of     *)
(* users and every amount: PayoutQueue implements PayoutFifo under the     *)
(* mapping Waiting.  The invariant is that the tail is the head plus the   *)
(* count, around the ring.                                                 *)
(***************************************************************************)
EXTENDS PayoutQueue, SequenceTheorems, WellFoundedInduction, TLAPS

Ring == tail = (head + count) % Size

QueueInv == QueueTypeOK /\ Ring

(* A position less than twice round the ring.                              *)
LEMMA Around ==
    ASSUME NEW a \in Nat, a < 2 * Size
    PROVE  a % Size = IF a < Size THEN a ELSE a - Size
<1>1. Size \in Nat \ {0}
    BY QueueAssumption
<1>2. CASE a < Size
    BY <1>1, <1>2
<1>3. CASE a >= Size
    <2>1. a - Size \in 0 .. Size - 1
        BY <1>1, <1>3
    <2>2. a = Size * 1 + (a - Size)
        BY <1>1
    <2>3. QED
        BY <1>1, <1>3, <2>1, <2>2
<1>4. QED
    BY <1>1, <1>2, <1>3

(* The cell behind the last, and what the ring is without its first cell.  *)
LEMMA RingGrows ==
    ASSUME NEW h \in Cells, NEW c \in Nat, c < Size
    PROVE  (((h + c) % Size) + 1) % Size = (h + (c + 1)) % Size
<1>. USE QueueAssumption DEF Cells
<1>1. (h + c) % Size = IF h + c < Size THEN h + c ELSE h + c - Size
    BY Around
<1>2. (h + (c + 1)) % Size = IF h + (c + 1) < Size THEN h + (c + 1) ELSE h + (c + 1) - Size
    BY Around
<1>. DEFINE t == (h + c) % Size
<1>3. t \in Nat /\ t + 1 < 2 * Size
    BY <1>1
<1>4. (t + 1) % Size = IF t + 1 < Size THEN t + 1 ELSE t + 1 - Size
    <2>. HIDE DEF t
    <2>. QED
        BY <1>3, Around
<1>5. CASE h + c < Size
    BY <1>1, <1>2, <1>4, <1>5
<1>6. CASE h + c >= Size
    BY <1>1, <1>2, <1>4, <1>6
<1>7. QED
    BY <1>5, <1>6

LEMMA RingShrinks ==
    ASSUME NEW h \in Cells, NEW c \in 1 .. Size
    PROVE  /\ (h + 1) % Size \in Cells
           /\ (h + c) % Size = (((h + 1) % Size) + (c - 1)) % Size
<1>. USE QueueAssumption DEF Cells
<1>1. (h + c) % Size = IF h + c < Size THEN h + c ELSE h + c - Size
    BY Around
<1>2. (h + 1) % Size = IF h + 1 < Size THEN h + 1 ELSE h + 1 - Size
    BY Around
<1>. DEFINE t == (h + 1) % Size
<1>3. t \in Cells /\ t + (c - 1) \in Nat /\ t + (c - 1) < 2 * Size
    BY <1>2
<1>4. (t + (c - 1)) % Size = IF t + (c - 1) < Size THEN t + (c - 1) ELSE t + (c - 1) - Size
    <2>. HIDE DEF t
    <2>. QED
        BY <1>3, Around
<1>5. CASE h + 1 < Size
    BY <1>1, <1>2, <1>3, <1>4, <1>5
<1>6. CASE h + 1 >= Size
    BY <1>1, <1>2, <1>3, <1>4, <1>6
<1>7. QED
    BY <1>3, <1>5, <1>6

(* The cells of a queue that is not longer than the ring are different.    *)
LEMMA OwnCells ==
    ASSUME NEW h \in Cells, NEW i \in Nat, NEW j \in Nat, i < j, j < Size
    PROVE  /\ (h + i) % Size \in Cells /\ (h + j) % Size \in Cells
           /\ (h + i) % Size # (h + j) % Size
<1>. USE QueueAssumption DEF Cells
<1>1. (h + i) % Size = IF h + i < Size THEN h + i ELSE h + i - Size
    BY Around
<1>2. (h + j) % Size = IF h + j < Size THEN h + j ELSE h + j - Size
    BY Around
<1>3. QED
    BY <1>1, <1>2

LEMMA HeadCell ==
    ASSUME NEW h \in Cells
    PROVE  (h + 0) % Size = h
<1>1. (h + 0) % Size = IF h + 0 < Size THEN h + 0 ELSE h + 0 - Size
    BY QueueAssumption, Around DEF Cells
<1>2. QED
    BY <1>1, QueueAssumption DEF Cells

LEMMA InitInv == QueueInit => QueueInv
BY QueueAssumption, Around DEF QueueInit, QueueInv, QueueTypeOK, Ring, Entry, DefaultEntry, Cells

LEMMA EntryFields ==
    ASSUME NEW e \in Entry
    PROVE  e.user \in Users \cup {Nobody} /\ e.amount \in Nat
BY DEF Entry

(* What is left of a debt that is paid in part.                            *)
LEMMA PartlyPaid ==
    ASSUME NEW e \in Entry, NEW pay \in Nat, pay <= e.amount
    PROVE  [e EXCEPT !.amount = @ - pay] \in Entry
BY DEF Entry

LEMMA KeptCells ==
    ASSUME QueueTypeOK, NEW pay \in Nat, pay <= entries[head].amount, Keep(pay)
    PROVE  /\ entries' \in [Cells -> Entry]
           /\ entries' = [entries EXCEPT ![head] = [entries[head] EXCEPT !.amount = @ - pay]]
<1>. DEFINE rest == [entries[head] EXCEPT !.amount = @ - pay]
<1>1. entries[head] \in Entry
    BY DEF QueueTypeOK
<1>2. rest \in Entry
    BY <1>1, PartlyPaid
<1>3. entries' = [entries EXCEPT ![head] = rest]
    BY DEF Keep
<1>4. entries' \in [Cells -> Entry]
    <2>. HIDE DEF rest
    <2>. QED
        BY <1>2, <1>3 DEF QueueTypeOK
<1>5. QED
    BY <1>3, <1>4

LEMMA PushInv ==
    ASSUME QueueInv, NEW u \in Users, NEW amount \in QueueAmounts, Push(u, amount)
    PROVE  QueueInv'
<1>. USE QueueAssumption DEF QueueInv, QueueTypeOK, Push, pool
<1>1. [user |-> u, amount |-> amount] \in Entry
    BY DEF Entry
<1>2. entries' \in [Cells -> Entry]
    BY <1>1
<1>3. granted' \in [Users -> Nat]
    BY SMT
<1>4. tail' \in Cells /\ count' \in 0 .. Size
    BY Around DEF Cells
<1>5. Ring'
    BY RingGrows DEF Ring, Cells
<1>6. QED
    BY <1>2, <1>3, <1>4, <1>5

LEMMA ProcessInv ==
    ASSUME QueueInv, NEW u \in Users, ProcessPayouts(u)
    PROVE  QueueInv'
<1>. DEFINE owedNow == entries[head].amount
            pay     == IF owedNow <= lp_vault THEN owedNow ELSE lp_vault
<1>1. owedNow \in Nat /\ lp_vault \in Nat /\ total_usdc \in Nat
    BY EntryFields DEF QueueInv, QueueTypeOK
<1>2. pay \in Nat /\ pay <= owedNow /\ pay <= lp_vault
    BY <1>1
<1>3. /\ lp_vault' = lp_vault - pay
      /\ total_usdc' = IF pay <= total_usdc THEN total_usdc - pay ELSE 0
      /\ received' = [received EXCEPT ![u] = @ + pay]
      /\ IF pay >= owedNow THEN Pop ELSE Keep(pay)
      /\ count > 0 /\ granted' = granted
    BY DEF ProcessPayouts
<1>. HIDE DEF owedNow, pay
<1>4. lp_vault' \in Nat /\ total_usdc' \in Nat
    BY <1>1, <1>2, <1>3
<1>5. received' \in [Users -> Nat] /\ granted' \in [Users -> Nat]
    BY <1>2, <1>3 DEF QueueInv, QueueTypeOK
<1>6. /\ entries' \in [Cells -> Entry] /\ head' \in Cells /\ tail' \in Cells
      /\ count' \in 0 .. Size /\ Ring'
    <2>1. CASE Pop
        <3>1. DefaultEntry \in Entry
            BY DEF DefaultEntry, Entry
        <3>2. entries' \in [Cells -> Entry]
            BY <2>1, <3>1 DEF Pop, QueueInv, QueueTypeOK
        <3>3. head \in Cells /\ count \in 1 .. Size /\ tail = (head + count) % Size
            BY <1>3, QueueAssumption DEF QueueInv, QueueTypeOK, Ring
        <3>4. /\ head' = (head + 1) % Size /\ count' = count - 1 /\ tail' = tail
              /\ tail' \in Cells
            BY <2>1 DEF Pop, QueueInv, QueueTypeOK
        <3>5. head' \in Cells /\ tail' = (head' + count') % Size
            BY <3>3, <3>4, RingShrinks
        <3>6. count' \in 0 .. Size
            BY <3>3, <3>4, QueueAssumption
        <3>7. QED
            BY <3>2, <3>4, <3>5, <3>6 DEF Ring
    <2>2. CASE Keep(pay)
        <3>1. entries' \in [Cells -> Entry]
            BY <1>2, <2>2, KeptCells DEF owedNow, QueueInv
        <3>2. QED
            BY <2>2, <3>1 DEF Keep, QueueInv, QueueTypeOK, Ring
    <2>3. QED
        BY <1>3, <2>1, <2>2
<1>7. QED
    BY <1>4, <1>5, <1>6 DEF QueueInv, QueueTypeOK

LEMMA FillInv ==
    ASSUME QueueInv, NEW amount \in QueueAmounts, Fill(amount)
    PROVE  QueueInv'
BY QueueAssumption DEF QueueInv, QueueTypeOK, Ring, Fill, queue

LEMMA StepInv == QueueInv /\ [QueueNext]_queueVars => QueueInv'
<1>. SUFFICES ASSUME QueueInv, [QueueNext]_queueVars PROVE QueueInv'
    OBVIOUS
<1>1. CASE \E u \in Users, amount \in QueueAmounts : Push(u, amount)
    BY <1>1, PushInv
<1>2. CASE \E u \in Users : ProcessPayouts(u)
    BY <1>2, ProcessInv
<1>3. CASE \E amount \in QueueAmounts : Fill(amount)
    BY <1>3, FillInv
<1>4. CASE UNCHANGED queueVars
    BY <1>4 DEF QueueInv, QueueTypeOK, Ring, queueVars, queue, pool
<1>5. QED
    BY <1>1, <1>2, <1>3, <1>4 DEF QueueNext, ProcessNothing

(* The queue's state is well typed and its tail is where head and count    *)
(* say, whatever has been pushed and paid.                                 *)
THEOREM QueueIsRing == QueueSpec => []QueueInv
BY InitInv, StepInv, PTL DEF QueueSpec

-----------------------------------------------------------------------------
(* The refinement: Waiting, the cells from the head on, is the queue.      *)
Unrolled(e, h, n) == [i \in 1 .. n |-> e[(h + i - 1) % Size]]

LEMMA UnrolledSeq ==
    ASSUME NEW e \in [Cells -> Entry], NEW h \in Cells, NEW n \in 0 .. Size
    PROVE  /\ Unrolled(e, h, n) \in Seq(Entry)
           /\ Len(Unrolled(e, h, n)) = n
           /\ \A i \in 1 .. n : Unrolled(e, h, n)[i] = e[(h + i - 1) % Size]
<1>1. ASSUME NEW i \in 1 .. n
      PROVE  (h + i - 1) % Size \in Cells
    BY <1>1, QueueAssumption, Around DEF Cells
<1>2. ASSUME NEW i \in 1 .. n
      PROVE  e[(h + i - 1) % Size] \in Entry
    BY <1>1, <1>2
<1>3. n \in Nat
    BY QueueAssumption
<1>4. QED
    BY <1>2, <1>3 DEF Unrolled

LEMMA WaitingUnrolled ==
    /\ Waiting = Unrolled(entries, head, count)
    /\ Waiting' = Unrolled(entries', head', count')
BY DEF Waiting, Unrolled

LEMMA InitRefines == QueueInit => Fifo!Init
<1>. SUFFICES ASSUME QueueInit PROVE Fifo!Init
    OBVIOUS
<1>1. Waiting \in Seq(Entry) /\ Len(Waiting) = 0
    BY InitInv, UnrolledSeq, WaitingUnrolled DEF QueueInv, QueueTypeOK, QueueInit
<1>2. Waiting = << >>
    BY <1>1, EmptySeq
<1>3. QED
    BY <1>2 DEF Fifo!Init, QueueInit

LEMMA PushRefines ==
    ASSUME QueueInv, QueueInv', NEW u \in Users, NEW amount \in QueueAmounts, Push(u, amount)
    PROVE  Fifo!Owe(u, amount)
<1>. DEFINE debt == [user |-> u, amount |-> amount]
<1>1. debt \in Entry
    BY QueueAssumption DEF Entry
<1>2. /\ entries' = [entries EXCEPT ![tail] = debt] /\ head' = head /\ count' = count + 1
      /\ count < Size /\ lp_vault' = lp_vault /\ received' = received
    BY DEF Push, pool
<1>. HIDE DEF debt
<1>3. /\ Waiting \in Seq(Entry) /\ Len(Waiting) = count
      /\ \A i \in 1 .. count : Waiting[i] = entries[(head + i - 1) % Size]
    BY UnrolledSeq, WaitingUnrolled DEF QueueInv, QueueTypeOK
<1>4. /\ Waiting' \in Seq(Entry) /\ Len(Waiting') = count'
      /\ \A i \in 1 .. count' : Waiting'[i] = entries'[(head' + i - 1) % Size]
    BY UnrolledSeq, WaitingUnrolled DEF QueueInv, QueueTypeOK
<1>5. /\ Append(Waiting, debt) \in Seq(Entry)
      /\ Len(Append(Waiting, debt)) = count + 1
      /\ \A i \in 1 .. count : Append(Waiting, debt)[i] = Waiting[i]
      /\ Append(Waiting, debt)[count + 1] = debt
    BY <1>1, <1>3, AppendProperties
<1>6. head \in Cells /\ count \in Nat /\ tail = (head + count) % Size /\ tail \in Cells
    BY QueueAssumption DEF QueueInv, QueueTypeOK, Ring
<1>7. ASSUME NEW i \in 1 .. count
      PROVE  (head + i - 1) % Size \in Cells /\ (head + i - 1) % Size # tail
    <2>1. i - 1 \in Nat /\ i - 1 < count /\ head + i - 1 = head + (i - 1)
        BY <1>6, <1>7, QueueAssumption DEF Cells
    <2>2. QED
        BY <1>2, <1>6, <2>1, OwnCells
<1>8. ASSUME NEW i \in 1 .. count + 1
      PROVE  Waiting'[i] = Append(Waiting, debt)[i]
    <2>1. CASE i = count + 1
        <3>1. Waiting'[i] = entries'[tail]
            BY <1>2, <1>4, <1>6, <2>1
        <3>2. entries'[tail] = debt
            BY <1>2, <1>6 DEF QueueInv, QueueTypeOK
        <3>3. QED
            BY <1>5, <2>1, <3>1, <3>2
    <2>2. CASE i # count + 1
        <3>1. i \in 1 .. count /\ i \in 1 .. count'
            BY <1>2, <1>6, <1>8, <2>2
        <3>2. Waiting'[i] = entries'[(head + i - 1) % Size]
            BY <1>2, <1>4, <3>1
        <3>3. entries'[(head + i - 1) % Size] = entries[(head + i - 1) % Size]
            BY <1>2, <1>7, <3>1 DEF QueueInv, QueueTypeOK
        <3>4. QED
            BY <1>3, <1>5, <3>1, <3>2, <3>3
    <2>3. QED
        BY <2>1, <2>2
<1>9. Waiting' = Append(Waiting, debt)
    BY <1>2, <1>4, <1>5, <1>8, SeqEqual
<1>10. QED
    BY <1>2, <1>3, <1>9 DEF Fifo!Owe, debt

LEMMA ProcessRefines ==
    ASSUME QueueInv, QueueInv', NEW u \in Users, ProcessPayouts(u)
    PROVE  Fifo!Pay
<1>. DEFINE debt == entries[head]
            pay  == IF debt.amount <= lp_vault THEN debt.amount ELSE lp_vault
<1>1. /\ Waiting \in Seq(Entry) /\ Len(Waiting) = count
      /\ \A i \in 1 .. count : Waiting[i] = entries[(head + i - 1) % Size]
    BY UnrolledSeq, WaitingUnrolled DEF QueueInv, QueueTypeOK
<1>2. /\ Waiting' \in Seq(Entry) /\ Len(Waiting') = count'
      /\ \A i \in 1 .. count' : Waiting'[i] = entries'[(head' + i - 1) % Size]
    BY UnrolledSeq, WaitingUnrolled DEF QueueInv, QueueTypeOK
<1>3. /\ count > 0 /\ u = debt.user /\ lp_vault > 0 /\ lp_vault' = lp_vault - pay
      /\ received' = [received EXCEPT ![u] = @ + pay]
      /\ IF pay >= debt.amount THEN Pop ELSE Keep(pay)
    BY DEF ProcessPayouts
<1>4. /\ head \in Cells /\ count \in 1 .. Size /\ entries \in [Cells -> Entry]
      /\ lp_vault \in Nat
    BY <1>3, QueueAssumption DEF QueueInv, QueueTypeOK
<1>5. debt \in Entry /\ debt.amount \in Nat
    BY <1>4, EntryFields
<1>6. pay \in Nat /\ pay <= debt.amount
    BY <1>4, <1>5
<1>7. (head + 1 - 1) % Size = head
    BY <1>4, QueueAssumption, Around DEF Cells
<1>8. Waiting # << >> /\ Waiting[1] = debt /\ Head(Waiting) = debt
    BY <1>1, <1>4, <1>7
<1>. DEFINE rest == [debt EXCEPT !.amount = @ - pay]
<1>9. CASE pay = debt.amount
    <2>1. Pop
        BY <1>3, <1>6, <1>9
    <2>2. /\ entries' = [entries EXCEPT ![head] = DefaultEntry]
          /\ head' = (head + 1) % Size /\ count' = count - 1
        BY <2>1 DEF Pop
    <2>3. /\ Tail(Waiting) \in Seq(Entry) /\ Len(Tail(Waiting)) = count - 1
          /\ \A i \in 1 .. count - 1 : Tail(Waiting)[i] = Waiting[i + 1]
        BY <1>1, <1>8, HeadTailProperties
    <2>4. ASSUME NEW i \in 1 .. count - 1
          PROVE  Waiting'[i] = Tail(Waiting)[i]
        <3>1. (head' + i - 1) % Size = (head + (i + 1) - 1) % Size
            <4>1. i \in 1 .. Size /\ (head + 1) % Size \in Cells
                BY <1>4, <2>4, QueueAssumption, RingShrinks
            <4>2. (head + i) % Size = (((head + 1) % Size) + (i - 1)) % Size
                BY <1>4, <4>1, RingShrinks
            <4>3. head' + i - 1 = ((head + 1) % Size) + (i - 1) /\ head + (i + 1) - 1 = head + i
                BY <1>4, <2>2, <4>1, QueueAssumption DEF Cells
            <4>4. QED
                BY <4>2, <4>3
        <3>2. (head + (i + 1) - 1) % Size \in Cells /\ (head + (i + 1) - 1) % Size # head
            <4>1. i \in Nat /\ 0 < i /\ i < Size /\ head + (i + 1) - 1 = head + i
                BY <1>4, <2>4, QueueAssumption DEF Cells
            <4>2. (head + i) % Size \in Cells /\ (head + i) % Size # (head + 0) % Size
                BY <1>4, <4>1, OwnCells
            <4>3. QED
                BY <1>4, <4>1, <4>2, HeadCell
        <3>3. Waiting'[i] = entries'[(head + (i + 1) - 1) % Size]
            BY <1>2, <2>2, <2>4, <3>1
        <3>4. entries'[(head + (i + 1) - 1) % Size] = entries[(head + (i + 1) - 1) % Size]
            BY <1>4, <2>2, <3>2
        <3>5. i + 1 \in 1 .. count
            BY <1>4, <2>4
        <3>6. QED
            BY <1>1, <2>3, <2>4, <3>3, <3>4, <3>5
    <2>5. Waiting' = Tail(Waiting)
        BY <1>2, <2>2, <2>3, <2>4, SeqEqual
    <2>6. QED
        BY <1>3, <1>8, <1>9, <2>5 DEF Fifo!Pay
<1>10. CASE pay # debt.amount
    <2>1. Keep(pay) /\ pay = lp_vault
        BY <1>3, <1>4, <1>5, <1>6, <1>10
    <2>2. /\ entries' = [entries EXCEPT ![head] = rest]
          /\ head' = head /\ count' = count
        BY <1>6, <2>1, KeptCells DEF QueueInv, Keep
    <2>3. rest \in Entry
        BY <1>5, <1>6, PartlyPaid
    <2>. HIDE DEF rest
    <2>4. /\ [Waiting EXCEPT ![1] = rest] \in Seq(Entry)
          /\ Len([Waiting EXCEPT ![1] = rest]) = count
          /\ \A i \in 1 .. count :
                [Waiting EXCEPT ![1] = rest][i] = IF i = 1 THEN rest ELSE Waiting[i]
        BY <1>1, <1>4, <2>3, ExceptSeq
    <2>5. ASSUME NEW i \in 1 .. count
          PROVE  Waiting'[i] = [Waiting EXCEPT ![1] = rest][i]
        <3>1. (head + i - 1) % Size \in Cells /\ ((head + i - 1) % Size = head <=> i = 1)
            <4>1. i - 1 \in Nat /\ i - 1 < Size /\ head + i - 1 = head + (i - 1)
                BY <1>4, <2>5, QueueAssumption DEF Cells
            <4>2. CASE i = 1
                BY <1>4, <1>7, <4>2
            <4>3. CASE i # 1
                <5>1. 0 < i - 1
                    BY <2>5, <4>3
                <5>2. (head + (i - 1)) % Size \in Cells /\ (head + (i - 1)) % Size # (head + 0) % Size
                    BY <1>4, <4>1, <5>1, OwnCells
                <5>3. QED
                    BY <1>4, <4>1, <4>3, <5>2, HeadCell
            <4>4. QED
                BY <4>2, <4>3
        <3>2. Waiting'[i] = entries'[(head + i - 1) % Size]
            BY <1>2, <2>2, <2>5
        <3>3. entries'[(head + i - 1) % Size] =
                  IF i = 1 THEN rest ELSE entries[(head + i - 1) % Size]
            BY <1>4, <2>2, <3>1
        <3>4. QED
            BY <1>1, <2>4, <2>5, <3>2, <3>3
    <2>6. Waiting' = [Waiting EXCEPT ![1] = rest]
        BY <1>2, <2>2, <2>4, <2>5, SeqEqual
    <2>7. rest = Fifo!Less(debt, pay)
        BY DEF rest, Fifo!Less
    <2>8. QED
        BY <1>3, <1>8, <1>10, <2>1, <2>6, <2>7 DEF Fifo!Pay
<1>11. QED
    BY <1>9, <1>10

LEMMA FillRefines ==
    ASSUME QueueInv, NEW amount \in QueueAmounts, Fill(amount)
    PROVE  Fifo!Fund
<1>1. Waiting' = Waiting
    BY DEF Waiting, Fill, queue
<1>2. lp_vault' \in Nat /\ lp_vault' > lp_vault /\ received' = received
    BY QueueAssumption DEF Fill, QueueInv, QueueTypeOK
<1>3. QED
    BY <1>1, <1>2 DEF Fifo!Fund

LEMMA StepRefines ==
    QueueInv /\ QueueInv' /\ [QueueNext]_queueVars => [Fifo!Next]_(Fifo!vars)
<1>. SUFFICES ASSUME QueueInv, QueueInv', [QueueNext]_queueVars
              PROVE  [Fifo!Next]_(Fifo!vars)
    OBVIOUS
<1>1. CASE \E u \in Users, amount \in QueueAmounts : Push(u, amount)
    BY <1>1, PushRefines DEF Fifo!Next
<1>2. CASE \E u \in Users : ProcessPayouts(u)
    BY <1>2, ProcessRefines DEF Fifo!Next
<1>3. CASE \E amount \in QueueAmounts : Fill(amount)
    BY <1>3, FillRefines DEF Fifo!Next
<1>4. CASE UNCHANGED queueVars
    BY <1>4 DEF Fifo!vars, queueVars, queue, pool, Waiting
<1>5. QED
    BY <1>1, <1>2, <1>3, <1>4 DEF QueueNext, ProcessNothing

(* The ring buffer implements the queue: debts are paid oldest first, in   *)
(* part when the vault runs short, and no entry is overwritten, skipped or *)
(* paid twice, wherever head and tail are and however often they have gone *)
(* round.                                                                  *)
THEOREM RingIsFifo == QueueSpec => IsFifo
<1>1. QueueInv /\ QueueInv' /\ [QueueNext]_queueVars => [Fifo!Next]_(Fifo!vars)
    BY StepRefines
<1>2. QED
    BY <1>1, InitRefines, QueueIsRing, PTL DEF QueueSpec, IsFifo, Fifo!Spec

-----------------------------------------------------------------------------
(* Nothing is lost.                                                        *)

(* Induction in the form of a set that holds zero and is closed under      *)
(* successor.                                                              *)
LEMMA SetInduction ==
    ASSUME NEW S, 0 \in S, \A n \in Nat : n \in S => n + 1 \in S
    PROVE  Nat \subseteq S
<1>. DEFINE Less == {p \in Nat \X Nat : p[1] < p[2]}
<1>0. IsWellFoundedOn(Less, Nat)
    BY NatLessThanWellFounded, Zenon DEF OpToRel
<1>. HIDE DEF Less
<1>1. SUFFICES ASSUME Nat \ S # {} PROVE FALSE
    OBVIOUS
<1>2. PICK x \in Nat \ S : \A y \in Nat \ S : <<y, x>> \notin Less
    BY <1>0, <1>1, WFMin, Zenon
<1>3. \A y \in Nat \ S : ~(y < x)
    BY <1>2 DEF Less
<1>4. x # 0 /\ x - 1 \in Nat /\ x - 1 < x
    OBVIOUS
<1>5. x - 1 \in S
    BY <1>3, <1>4
<1>6. (x - 1) + 1 \in S
    BY <1>4, <1>5
<1>7. QED
    BY <1>6

(* The recursive function in the definition of Total exists.               *)
AddsUp(s, f, n) == s = [i \in 0 .. n |-> IF i = 0 THEN 0 ELSE s[i - 1] + f[i - 1]]

LEMMA AddingUp ==
    ASSUME NEW f, NEW n \in Nat
    PROVE  \E s : AddsUp(s, f, n)
<1>. DEFINE Body(s, i) == IF i = 0 THEN 0 ELSE s[i - 1] + f[i - 1]
            Has == {k \in Nat : \E s : s = [i \in 0 .. k |-> Body(s, i)]}
<1>1. 0 \in Has
    <2>1. [i \in 0 .. 0 |-> 0] = [i \in 0 .. 0 |-> Body([j \in 0 .. 0 |-> 0], i)]
        OBVIOUS
    <2>2. QED
        BY <2>1
<1>2. ASSUME NEW k \in Nat, k \in Has PROVE k + 1 \in Has
    <2>1. PICK s : s = [i \in 0 .. k |-> Body(s, i)]
        BY <1>2
    <2>. DEFINE t == [i \in 0 .. (k + 1) |-> IF i = k + 1 THEN s[k] + f[k] ELSE s[i]]
    <2>2. ASSUME NEW i \in 0 .. (k + 1) PROVE t[i] = Body(t, i)
        <3>1. CASE i = k + 1
            BY <3>1
        <3>2. CASE i \in 0 .. k /\ i # 0
            <4>1. s[i] = s[i - 1] + f[i - 1]
                BY <2>1, <3>2
            <4>2. t[i] = s[i] /\ t[i - 1] = s[i - 1]
                BY <3>2
            <4>3. QED
                BY <4>1, <4>2, <3>2
        <3>3. CASE i = 0
            BY <3>3, <2>1
        <3>4. QED
            BY <3>1, <3>2, <3>3
    <2>3. t = [i \in 0 .. (k + 1) |-> Body(t, i)]
        BY <2>2
    <2>4. \E z : z = [i \in 0 .. (k + 1) |-> Body(z, i)]
        <3>. WITNESS t
        <3>. QED
            BY <2>3
    <2>5. QED
        BY <2>4
<1>3. Nat \subseteq Has
    <2>. HIDE DEF Has
    <2>1. QED
        BY <1>1, <1>2, SetInduction
<1>4. PICK s : s = [i \in 0 .. n |-> Body(s, i)]
    BY <1>3
<1>5. AddsUp(s, f, n)
    BY <1>4 DEF AddsUp
<1>6. QED
    BY <1>5

LEMMA TotalAddsUp ==
    ASSUME NEW f
    PROVE  \E s : AddsUp(s, f, Size) /\ Total(f) = s[Size]
<1>. DEFINE S == CHOOSE s : AddsUp(s, f, Size)
<1>1. AddsUp(S, f, Size)
    <2>1. \E s : AddsUp(s, f, Size)
        BY AddingUp, QueueAssumption
    <2>2. QED
        BY <2>1, Zenon
<1>2. Total(f) = S[Size]
    BY Zenon DEF Total, AddsUp
<1>. HIDE DEF S
<1>3. QED
    BY <1>1, <1>2

(* Changing what one cell holds changes the total by as much.              *)
LEMMA TotalChanges ==
    ASSUME NEW f \in [Cells -> Nat], NEW g \in [Cells -> Nat], NEW c \in Cells,
           \A i \in Cells : i # c => g[i] = f[i]
    PROVE  Total(f) \in Nat /\ Total(g) = Total(f) - f[c] + g[c]
<1>1. PICK s : AddsUp(s, f, Size) /\ Total(f) = s[Size]
    BY TotalAddsUp
<1>2. PICK r : AddsUp(r, g, Size) /\ Total(g) = r[Size]
    BY TotalAddsUp
<1>. PICK n \in Nat : n = Size /\ n > 0
    BY QueueAssumption
<1>3. c \in Nat /\ c < n /\ f[c] \in Nat /\ g[c] \in Nat
    BY DEF Cells
<1>. DEFINE Good == {k \in Nat : k <= n =>
                        /\ s[k] \in Nat /\ r[k] \in Nat
                        /\ k <= c => r[k] = s[k]
                        /\ k > c => r[k] = s[k] - f[c] + g[c]}
<1>4. 0 \in Good
    <2>1. s[0] = 0 /\ r[0] = 0
        BY <1>1, <1>2 DEF AddsUp
    <2>2. QED
        BY <1>3, <2>1
<1>5. ASSUME NEW k \in Nat, k \in Good PROVE k + 1 \in Good
    <2>1. CASE k + 1 <= n
        <3>1. k + 1 \in 0 .. n /\ k + 1 # 0 /\ (k + 1) - 1 = k /\ k \in Cells
            BY <2>1 DEF Cells
        <3>2. s[k + 1] = s[k] + f[k] /\ r[k + 1] = r[k] + g[k]
            BY <1>1, <1>2, <3>1 DEF AddsUp
        <3>3. f[k] \in Nat /\ g[k] \in Nat /\ (k # c => g[k] = f[k])
            BY <3>1
        <3>4. QED
            BY <1>3, <1>5, <2>1, <3>2, <3>3
    <2>2. CASE ~(k + 1 <= n)
        BY <2>2
    <2>3. QED
        BY <2>1, <2>2
<1>6. Nat \subseteq Good
    <2>. HIDE DEF Good
    <2>1. QED
        BY <1>4, <1>5, SetInduction
<1>7. n \in Good
    BY <1>6
<1>8. QED
    BY <1>1, <1>2, <1>3, <1>7

LEMMA TotalOfNothing ==
    ASSUME NEW f, \A i \in Cells : f[i] = 0
    PROVE  Total(f) = 0
<1>1. PICK s : AddsUp(s, f, Size) /\ Total(f) = s[Size]
    BY TotalAddsUp
<1>. PICK n \in Nat : n = Size
    BY QueueAssumption
<1>. DEFINE Good == {k \in Nat : k <= n => s[k] = 0}
<1>2. 0 \in Good
    BY <1>1 DEF AddsUp
<1>3. ASSUME NEW k \in Nat, k \in Good PROVE k + 1 \in Good
    <2>1. CASE k + 1 <= n
        <3>1. k + 1 \in 0 .. n /\ k + 1 # 0 /\ (k + 1) - 1 = k /\ k \in Cells
            BY <2>1 DEF Cells
        <3>2. s[k + 1] = s[k] + f[k]
            BY <1>1, <3>1 DEF AddsUp
        <3>3. QED
            BY <1>3, <2>1, <3>1, <3>2
    <2>2. CASE ~(k + 1 <= n)
        BY <2>2
    <2>3. QED
        BY <2>1, <2>2
<1>4. Nat \subseteq Good
    <2>. HIDE DEF Good
    <2>1. QED
        BY <1>2, <1>3, SetInduction
<1>5. n \in Good
    BY <1>4
<1>6. QED
    BY <1>1, <1>5

(* The cells that do not wait are empty, so that a debt overwrites none.   *)
FreeCells ==
    \A k \in Nat : count <= k /\ k < Size => entries[(head + k) % Size] = DefaultEntry

LEMMA DebtsTyped ==
    ASSUME NEW ring \in [Cells -> Entry], NEW u
    PROVE  /\ DebtsIn(ring, u) \in [Cells -> Nat]
           /\ \A i \in Cells :
                 DebtsIn(ring, u)[i] = IF ring[i].user = u THEN ring[i].amount ELSE 0
<1>1. \A i \in Cells : ring[i].amount \in Nat
    BY EntryFields
<1>2. QED
    BY <1>1 DEF DebtsIn

OwedTo(u, e) == IF e.user = u THEN e.amount ELSE 0

(* One cell that changes changes what each user has waiting.               *)
LEMMA DebtsChange ==
    ASSUME NEW ring \in [Cells -> Entry], NEW other \in [Cells -> Entry], NEW c \in Cells,
           \A i \in Cells : i # c => other[i] = ring[i], NEW u
    PROVE  /\ Total(DebtsIn(ring, u)) \in Nat
           /\ Total(DebtsIn(other, u)) =
                 Total(DebtsIn(ring, u)) - OwedTo(u, ring[c]) + OwedTo(u, other[c])
<1>. PICK f : f = DebtsIn(ring, u)
    OBVIOUS
<1>. PICK g : g = DebtsIn(other, u)
    OBVIOUS
<1>1. f \in [Cells -> Nat] /\ \A i \in Cells : f[i] = OwedTo(u, ring[i])
    BY DebtsTyped DEF OwedTo
<1>2. g \in [Cells -> Nat] /\ \A i \in Cells : g[i] = OwedTo(u, other[i])
    BY DebtsTyped DEF OwedTo
<1>3. \A i \in Cells : i # c => g[i] = f[i]
    BY <1>1, <1>2
<1>4. Total(f) \in Nat /\ Total(g) = Total(f) - f[c] + g[c]
    BY <1>1, <1>2, <1>3, TotalChanges
<1>5. QED
    BY <1>1, <1>2, <1>4

NothingInv == QueueInv /\ FreeCells /\ NothingLost

LEMMA NothingStart == QueueInit => NothingInv
<1>. SUFFICES ASSUME QueueInit PROVE NothingInv
    OBVIOUS
<1>1. QueueInv
    BY InitInv
<1>2. FreeCells
    <2>1. ASSUME NEW k \in Nat, k < Size PROVE (head + k) % Size \in Cells
        BY <1>1, <2>1, QueueAssumption, Around DEF QueueInv, QueueTypeOK, Cells
    <2>2. QED
        BY <2>1 DEF FreeCells, QueueInit
<1>3. ASSUME NEW u \in Users PROVE Total(DebtsIn(entries, u)) = 0
    <2>1. \A i \in Cells : DebtsIn(entries, u)[i] = 0
        BY DEF DebtsIn, QueueInit, DefaultEntry
    <2>2. QED
        BY <2>1, TotalOfNothing
<1>4. NothingLost
    BY <1>3 DEF NothingLost, QueueInit
<1>5. QED
    BY <1>1, <1>2, <1>4 DEF NothingInv

LEMMA PushLosesNothing ==
    ASSUME NothingInv, NEW u \in Users, NEW amount \in QueueAmounts, Push(u, amount)
    PROVE  FreeCells' /\ NothingLost'
<1>. PICK debt : debt = [user |-> u, amount |-> amount]
    OBVIOUS
<1>1. debt \in Entry /\ debt.user = u /\ debt.amount = amount /\ amount \in Nat
    BY QueueAssumption DEF Entry
<1>2. /\ entries' = [entries EXCEPT ![tail] = debt] /\ head' = head /\ count' = count + 1
      /\ count < Size /\ received' = received
      /\ granted' = [granted EXCEPT ![u] = @ + amount]
    BY DEF Push, pool
<1>3. /\ head \in Cells /\ tail \in Cells /\ count \in Nat /\ entries \in [Cells -> Entry]
      /\ tail = (head + count) % Size
      /\ granted \in [Users -> Nat] /\ received \in [Users -> Nat]
    BY QueueAssumption DEF NothingInv, QueueInv, QueueTypeOK, Ring
<1>4. entries[tail] = DefaultEntry
    BY <1>2, <1>3 DEF NothingInv, FreeCells
<1>5. FreeCells'
    <2>1. ASSUME NEW k \in Nat, count + 1 <= k, k < Size
          PROVE  entries'[(head + k) % Size] = DefaultEntry
        <3>1. (head + k) % Size \in Cells /\ (head + k) % Size # tail
            BY <1>3, <2>1, OwnCells
        <3>2. entries[(head + k) % Size] = DefaultEntry
            BY <1>3, <2>1 DEF NothingInv, FreeCells
        <3>3. QED
            BY <1>2, <1>3, <3>1, <3>2
    <2>2. QED
        BY <1>2, <2>1 DEF FreeCells
<1>6. ASSUME NEW v \in Users
      PROVE  granted'[v] = received'[v] + Total(DebtsIn(entries', v))
    <2>. PICK ring : ring = entries'
        OBVIOUS
    <2>0. /\ ring \in [Cells -> Entry] /\ ring[tail] = debt
          /\ \A i \in Cells : i # tail => ring[i] = entries[i]
        BY <1>1, <1>2, <1>3
    <2>1. /\ Total(DebtsIn(entries, v)) \in Nat
          /\ Total(DebtsIn(ring, v)) =
                Total(DebtsIn(entries, v)) - OwedTo(v, entries[tail]) + OwedTo(v, ring[tail])
        BY <1>3, <2>0, DebtsChange
    <2>2. OwedTo(v, entries[tail]) = 0
        BY <1>4, QueueAssumption DEF DefaultEntry, OwedTo
    <2>20. OwedTo(v, ring[tail]) = IF v = u THEN amount ELSE 0
        BY <1>1, <2>0 DEF OwedTo
    <2>3. Total(DebtsIn(ring, v)) = Total(DebtsIn(entries, v)) + (IF v = u THEN amount ELSE 0)
        BY <1>1, <2>1, <2>2, <2>20
    <2>4. granted'[v] = granted[v] + (IF v = u THEN amount ELSE 0)
        BY <1>1, <1>2, <1>3
    <2>5. granted[v] = received[v] + Total(DebtsIn(entries, v))
        BY DEF NothingInv, NothingLost
    <2>6. granted[v] \in Nat /\ received[v] \in Nat
        BY <1>3
    <2>7. QED
        BY <1>1, <1>2, <2>1, <2>3, <2>4, <2>5, <2>6
<1>7. QED
    BY <1>5, <1>6 DEF NothingLost

LEMMA ProcessLosesNothing ==
    ASSUME NothingInv, NEW u \in Users, ProcessPayouts(u)
    PROVE  FreeCells' /\ NothingLost'
<1>. PICK debt : debt = entries[head]
    OBVIOUS
<1>. PICK pay : pay = IF debt.amount <= lp_vault THEN debt.amount ELSE lp_vault
    OBVIOUS
<1>1. /\ count > 0 /\ u = debt.user /\ granted' = granted
      /\ received' = [received EXCEPT ![u] = @ + pay]
      /\ IF pay >= debt.amount THEN Pop ELSE Keep(pay)
    BY DEF ProcessPayouts
<1>2. /\ head \in Cells /\ count \in 1 .. Size /\ entries \in [Cells -> Entry]
      /\ lp_vault \in Nat /\ granted \in [Users -> Nat] /\ received \in [Users -> Nat]
    BY <1>1, QueueAssumption DEF NothingInv, QueueInv, QueueTypeOK
<1>3. debt \in Entry /\ debt.amount \in Nat
    BY <1>2, EntryFields
<1>4. pay \in Nat /\ pay <= debt.amount
    BY <1>2, <1>3
<1>. DEFINE Rest(e) == \A v \in Users :
                OwedTo(v, e) = IF debt.user = v THEN debt.amount - pay ELSE 0
<1>5. \E e \in Entry : entries' = [entries EXCEPT ![head] = e] /\ Rest(e)
    <2>1. CASE pay = debt.amount
        <3>1. DefaultEntry \in Entry /\ DefaultEntry.amount = 0
            BY DEF DefaultEntry, Entry
        <3>2. entries' = [entries EXCEPT ![head] = DefaultEntry]
            BY <1>1, <1>3, <1>4, <2>1 DEF Pop
        <3>3. Rest(DefaultEntry)
            BY <1>3, <2>1, <3>1 DEF OwedTo
        <3>. HIDE DEF Rest
        <3>4. QED
            BY <3>1, <3>2, <3>3
    <2>2. CASE pay # debt.amount
        <3>. PICK rest : rest = [debt EXCEPT !.amount = @ - pay]
            OBVIOUS
        <3>1. rest \in Entry
            BY <1>3, <1>4, PartlyPaid
        <3>2. rest.user = debt.user /\ rest.amount = debt.amount - pay
            BY <1>3 DEF Entry
        <3>3. Keep(pay)
            BY <1>1, <1>3, <1>4, <2>2
        <3>4. entries' = [entries EXCEPT ![head] = rest]
            BY <1>4, <3>3, KeptCells DEF NothingInv, QueueInv
        <3>5. Rest(rest)
            BY <3>2 DEF OwedTo
        <3>. HIDE DEF Rest
        <3>6. QED
            BY <3>1, <3>4, <3>5
    <2>3. QED
        BY <2>1, <2>2
<1>6. PICK e \in Entry : entries' = [entries EXCEPT ![head] = e] /\ Rest(e)
    <2>. HIDE DEF Rest
    <2>1. QED
        BY <1>5
<1>7. ASSUME NEW v \in Users
      PROVE  granted'[v] = received'[v] + Total(DebtsIn(entries', v))
    <2>. PICK ring : ring = entries'
        OBVIOUS
    <2>0. /\ ring \in [Cells -> Entry] /\ ring[head] = e
          /\ \A i \in Cells : i # head => ring[i] = entries[i]
        BY <1>2, <1>6
    <2>1. /\ Total(DebtsIn(entries, v)) \in Nat
          /\ Total(DebtsIn(ring, v)) =
                Total(DebtsIn(entries, v)) - OwedTo(v, entries[head]) + OwedTo(v, ring[head])
        BY <1>2, <2>0, DebtsChange
    <2>11. /\ OwedTo(v, entries[head]) = IF v = u THEN debt.amount ELSE 0
           /\ OwedTo(v, ring[head]) = IF v = u THEN debt.amount - pay ELSE 0
        BY <1>1, <1>6, <2>0 DEF OwedTo
    <2>2. Total(DebtsIn(ring, v)) = Total(DebtsIn(entries, v)) - (IF v = u THEN pay ELSE 0)
        BY <1>3, <1>4, <2>1, <2>11
    <2>3. received'[v] = received[v] + (IF v = u THEN pay ELSE 0)
        BY <1>1, <1>2, <1>4
    <2>4. granted[v] = received[v] + Total(DebtsIn(entries, v)) /\ granted'[v] = granted[v]
        BY <1>1 DEF NothingInv, NothingLost
    <2>5. granted[v] \in Nat /\ received[v] \in Nat
        BY <1>2
    <2>6. QED
        BY <1>4, <2>1, <2>2, <2>3, <2>4, <2>5
<1>8. FreeCells'
    <2>1. CASE Pop
        <3>1. /\ entries' = [entries EXCEPT ![head] = DefaultEntry]
              /\ head' = (head + 1) % Size /\ count' = count - 1
            BY <2>1 DEF Pop
        <3>2. ASSUME NEW k \in Nat, count - 1 <= k, k < Size
              PROVE  entries'[(head' + k) % Size] = DefaultEntry
            <4>1. k + 1 \in 1 .. Size /\ (k + 1) - 1 = k /\ count <= k + 1 /\ k + 1 \in Nat
                BY <1>2, <3>2, QueueAssumption
            <4>2. (head' + k) % Size = (head + (k + 1)) % Size
                BY <1>2, <3>1, <4>1, RingShrinks
            <4>3. CASE k + 1 = Size
                <5>1. (head + Size) % Size = head
                    <6>. PICK a \in Nat : a = head + Size
                        BY <1>2, QueueAssumption DEF Cells
                    <6>1. a < 2 * Size /\ ~(a < Size) /\ a - Size = head
                        BY <1>2, QueueAssumption DEF Cells
                    <6>2. a % Size = head
                        BY <6>1, Around
                    <6>3. QED
                        BY <6>2
                <5>2. QED
                    BY <1>2, <3>1, <4>2, <4>3, <5>1
            <4>4. CASE k + 1 < Size
                <5>1. entries[(head + (k + 1)) % Size] = DefaultEntry
                    BY <4>1, <4>4 DEF NothingInv, FreeCells
                <5>2. (head + (k + 1)) % Size \in Cells
                    BY <1>2, <4>1, <4>4, QueueAssumption, Around DEF Cells
                <5>3. QED
                    BY <1>2, <3>1, <4>2, <5>1, <5>2
            <4>5. QED
                BY <4>1, <4>3, <4>4, QueueAssumption
        <3>3. QED
            BY <3>1, <3>2 DEF FreeCells
    <2>2. CASE Keep(pay)
        <3>1. head' = head /\ count' = count
            BY <2>2 DEF Keep
        <3>2. ASSUME NEW k \in Nat, count <= k, k < Size
              PROVE  entries'[(head + k) % Size] = DefaultEntry
            <4>1. 0 < k /\ (head + 0) % Size = head
                BY <1>2, <3>2, HeadCell
            <4>2. (head + k) % Size \in Cells /\ (head + k) % Size # head
                BY <1>2, <3>2, <4>1, OwnCells
            <4>3. entries[(head + k) % Size] = DefaultEntry
                BY <3>2 DEF NothingInv, FreeCells
            <4>4. QED
                BY <1>2, <1>6, <4>2, <4>3
        <3>3. QED
            BY <3>1, <3>2 DEF FreeCells
    <2>3. QED
        BY <1>1, <2>1, <2>2
<1>9. QED
    BY <1>7, <1>8 DEF NothingLost

LEMMA NothingStep == NothingInv /\ [QueueNext]_queueVars => NothingInv'
<1>. SUFFICES ASSUME NothingInv, [QueueNext]_queueVars PROVE NothingInv'
    OBVIOUS
<1>0. QueueInv'
    BY StepInv DEF NothingInv
<1>1. ASSUME NEW u \in Users, NEW amount \in QueueAmounts, Push(u, amount)
      PROVE  FreeCells' /\ NothingLost'
    BY <1>1, PushLosesNothing
<1>2. ASSUME NEW u \in Users, ProcessPayouts(u) PROVE FreeCells' /\ NothingLost'
    BY <1>2, ProcessLosesNothing
<1>. DEFINE Same == UNCHANGED <<queue, received, granted>>
<1>3. ASSUME Same PROVE FreeCells' /\ NothingLost'
    BY <1>3 DEF queue, NothingInv, FreeCells, NothingLost
<1>4. /\ \A amount \in QueueAmounts : Fill(amount) => Same
      /\ ProcessNothing => Same
      /\ UNCHANGED queueVars => Same
    BY DEF Fill, ProcessNothing, queueVars
<1>. HIDE DEF Same
<1>5. FreeCells' /\ NothingLost'
    BY <1>1, <1>2, <1>3, <1>4, Zenon DEF QueueNext
<1>6. QED
    BY <1>0, <1>5 DEF NothingInv

(* For any size of the ring, any users and amounts: what a user was        *)
(* promised is what they got and what still waits for them, so that no     *)
(* debt is overwritten, dropped or paid twice (PayoutQueue::push and pop,  *)
(* process_payouts).                                                       *)
THEOREM NothingIsLost == QueueSpec => []NothingLost
<1>1. NothingInv => NothingLost
    BY DEF NothingInv
<1>2. QED
    BY <1>1, NothingStart, NothingStep, PTL DEF QueueSpec

=============================================================================
