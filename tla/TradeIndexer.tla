---------------------------- MODULE TradeIndexer ----------------------------
(***************************************************************************)
(* trade-indexer.js: a poller that follows the signatures of the program's *)
(* transactions, turns the events in their logs into rows, and keeps rows  *)
(* and cursor in two files.  The timer starts a poll whether or not the    *)
(* last has ended.  Signatures are numbered in the order of the chain; 0   *)
(* is the null cursor.                                                     *)
(*                                                                         *)
(* missed is a history variable: the signatures some of whose events the   *)
(* indexer has given up, for one of the reasons the code accepts: a page   *)
(* that is full, a transaction that could not be fetched, two events of    *)
(* one transaction that look the same, the cap on the rows, a file torn by *)
(* a crash.                                                                *)
(***************************************************************************)
EXTENDS Integers, Sequences, FiniteSets, Functions, FiniteSetsExt, SequencesExt

CONSTANTS
    Users,
    Contents,   \* what the log of a transaction may hold: sequences of events
    Limit,      \* signatures per page, 50 in the code
    Backfill,   \* BACKFILL_SIGS, 300 in the code
    Cap,        \* rows kept, 10 000 in the code
    Polls,      \* polls that may be under way at once
    MaxLog,     \* bound on the length of the chain
    MaxFaults   \* bound on failed calls, failed writes, restarts and crashes

ASSUME IndexerAssumption ==
    /\ Limit \in Nat \ {0} /\ Backfill \in Nat \ {0} /\ Cap \in Nat \ {0}
    /\ MaxLog \in Nat /\ MaxFaults \in Nat
    /\ \A c \in Contents : c \in Seq(ToSet(c)) /\ Len(c) <= Cap /\ \A i \in DOMAIN c :
          /\ c[i].user \in Users /\ c[i].action \in {"open", "close", "sl", "tp", "liquidate"}
          /\ c[i].pnl \in Int /\ c[i].notional \in Nat
          /\ c[i].action # "open" => c[i].notional = 0

VARIABLES
    log,        \* the transactions of the program
    trades, nextId, cursor,
    disk,       \* trades.json and indexer-cursor.json
    poll,       \* the polls under way
    missed, lapses

memory  == <<trades, nextId, cursor>>
indexer == <<memory, disk, poll, missed>>
indexerVars == <<log, indexer, lapses>>

Idle == [pc |-> "idle", until |-> 0, page |-> << >>, newest |-> 0, added |-> FALSE]
NoFile == [trades |-> << >>, nextId |-> 1, cursor |-> 0]
Events == UNION {ToSet(c) : c \in Contents}
Rows == [id: Nat, sig: Nat, ev: Events]

IndexerTypeOK ==
    /\ log \in Seq(Contents) /\ Len(log) <= MaxLog
    /\ trades \in Seq(Rows) /\ Len(trades) <= Cap
    /\ nextId \in Nat \ {0} /\ cursor \in 0 .. Len(log)
    /\ disk.trades \in Seq(Rows) /\ disk.nextId \in Nat \ {0} /\ disk.cursor \in 0 .. Len(log)
    /\ \A p \in Polls :
        /\ poll[p].pc \in {"idle", "asking", "working"}
        /\ poll[p].page \in Seq(1 .. Len(log)) /\ Len(poll[p].page) <= Limit
    /\ missed \subseteq 1 .. Len(log) /\ lapses \in 0 .. MaxFaults

IndexerInit ==
    /\ log = << >>
    /\ trades = << >> /\ nextId = 1 /\ cursor = 0
    /\ disk = NoFile
    /\ poll = [p \in Polls |-> Idle]
    /\ missed = {} /\ lapses = 0

-----------------------------------------------------------------------------
Lapse == lapses < MaxFaults /\ lapses' = lapses + 1

Executed(c) ==
    /\ Len(log) < MaxLog
    /\ log' = Append(log, c)
    /\ UNCHANGED <<indexer, lapses>>

(* Mutant: no row is taken for a duplicate.                                *)
NeverSame(r, s) == FALSE

(* The row of an event has a time that is that of its transaction: rows    *)
(* agree on signature, action, user and time as follows.                   *)
Same(r, s) == r.sig = s.sig /\ r.ev.action = s.ev.action /\ r.ev.user = s.ev.user

Duplicate(row, rows) == \E n \in DOMAIN rows : Same(row, rows[n])

Newest(rows) == SubSeq(rows, Len(rows) - Cap + 1, Len(rows))

(* pushTrade, for the event ev of signature s.                             *)
PushTrade(st, s, ev) ==
    LET row  == [id |-> st.nextId, sig |-> s, ev |-> ev]
        rows == Append(st.trades, row)
    IN  IF Duplicate(row, st.trades) THEN st
        ELSE [trades |-> IF Len(rows) > Cap THEN Newest(rows) ELSE rows,
              nextId |-> st.nextId + 1]

(* processSignature, once the transaction has been fetched: its events in  *)
(* their order, c, one after the other.                                    *)
PushTrades(st, s, c) ==
    LET after[i \in 0 .. Len(c)] == IF i = 0 THEN st ELSE PushTrade(after[i - 1], s, c[i])
    IN  after[Len(c)]

Processed(s) == PushTrades([trades |-> trades, nextId |-> nextId], s, log[s])

-----------------------------------------------------------------------------
(* pollOnce asks for the signatures after the cursor, newest first, at     *)
(* most Limit of them; the cursor it names is that of the question.        *)
AskSignatures(p) ==
    /\ poll[p].pc = "idle"
    /\ poll' = [poll EXCEPT ![p] = [Idle EXCEPT !.pc = "asking", !.until = cursor]]
    /\ UNCHANGED <<log, memory, disk, missed, lapses>>

AnswerFails(p) ==
    /\ poll[p].pc = "asking" /\ Lapse
    /\ poll' = [poll EXCEPT ![p] = Idle]
    /\ UNCHANGED <<log, memory, disk, missed>>

(* The page, oldest first.  A first poll works on the newest of it only.   *)
PageAfter(until) ==
    LET last  == Len(log)
        size  == Min({last - until, Limit})
        taken == IF cursor = 0 THEN Min({size, Backfill}) ELSE size
    IN  [n \in 1 .. taken |-> last - taken + n]

AnswerPage(p) ==
    LET until == poll[p].until
        page  == PageAfter(until)
    IN  /\ poll[p].pc = "asking"
        /\ IF page = << >>
           THEN poll' = [poll EXCEPT ![p] = Idle] /\ UNCHANGED missed
           ELSE /\ poll' = [poll EXCEPT ![p] = [Idle EXCEPT !.pc = "working", !.page = page,
                                                            !.newest = Last(page)]]
                /\ missed' = missed \cup {s \in until + 1 .. Len(log) : s < Head(page)}
        /\ UNCHANGED <<log, memory, disk, lapses>>

NextOf(p, added) ==
    [poll EXCEPT ![p].page = Tail(@), ![p].added = @ \/ added]

(* The signature at the cursor is left out; the others are fetched one     *)
(* after another.                                                          *)
SkipCursor(p) ==
    /\ poll[p].pc = "working" /\ poll[p].page # << >>
    /\ Head(poll[p].page) = cursor
    /\ poll' = NextOf(p, FALSE)
    /\ UNCHANGED <<log, memory, disk, missed, lapses>>

ProcessSignature(p) ==
    LET s  == Head(poll[p].page)
        st == Processed(s)
        twins == \E i, j \in DOMAIN log[s] :
                    i < j /\ log[s][i].action = log[s][j].action /\ log[s][i].user = log[s][j].user
    IN  /\ poll[p].pc = "working" /\ poll[p].page # << >> /\ s # cursor
        /\ trades' = st.trades /\ nextId' = st.nextId
        /\ poll' = NextOf(p, st.nextId # nextId)
        /\ missed' = missed \cup (IF twins THEN {s} ELSE {})
                            \cup {row.sig : row \in ToSet(trades) \ ToSet(st.trades)}
        /\ UNCHANGED <<log, cursor, disk, lapses>>

(* A transaction that cannot be fetched, or not yet, is passed over.       *)
FetchFails(p) ==
    /\ poll[p].pc = "working" /\ poll[p].page # << >> /\ Head(poll[p].page) # cursor
    /\ Lapse
    /\ poll' = NextOf(p, FALSE)
    /\ missed' = missed \cup {Head(poll[p].page)}
    /\ UNCHANGED <<log, memory, disk>>

(* persistStore writes the rows, then the cursor if there is one.          *)
RowsSaved(rows, id) == [disk EXCEPT !.trades = rows, !.nextId = id]
CursorSaved(f, c) == IF c = 0 THEN f ELSE [f EXCEPT !.cursor = c]

(* Mutant: the cursor is written first.                                    *)
CursorFirst(f, rows, id, c) == CursorSaved(f, c)

(* What the files hold when persistStore stops after its first write.      *)
HalfSaved(f, rows, id, c) == [f EXCEPT !.trades = rows, !.nextId = id]

EndPoll(p) ==
    /\ poll[p].pc = "working" /\ poll[p].page = << >>
    /\ cursor' = poll[p].newest
    /\ \/ /\ disk' = IF poll[p].added THEN CursorSaved(RowsSaved(trades, nextId), cursor') ELSE disk
          /\ UNCHANGED lapses
       \/ /\ poll[p].added /\ Lapse
          /\ disk' = HalfSaved(disk, trades, nextId, cursor')
    /\ poll' = [poll EXCEPT ![p] = Idle]
    /\ UNCHANGED <<log, trades, nextId, missed>>

(* Mutant: the numbering goes on from the number of rows.                  *)
LoadCounting(f) == /\ trades' = f.trades /\ nextId' = Len(f.trades) + 1 /\ cursor' = f.cursor
                   /\ poll' = [p \in Polls |-> Idle]

(* loadStore after a restart; polls under way are gone.                    *)
Load(f) == /\ trades' = f.trades /\ nextId' = f.nextId /\ cursor' = f.cursor
           /\ poll' = [p \in Polls |-> Idle]

(* stop, on SIGTERM, and the start that follows.                           *)
StopAndStart ==
    /\ Lapse
    /\ disk' = CursorSaved(RowsSaved(trades, nextId), cursor)
    /\ Load(disk')
    /\ UNCHANGED <<log, missed>>

CrashAndStart ==
    /\ Lapse
    /\ Load(disk)
    /\ UNCHANGED <<log, disk, missed>>

(* A crash in the middle of writing the rows: the file does not parse, and *)
(* the store starts empty with the cursor of the other file.               *)
TornAndStart ==
    /\ Lapse
    /\ \E p \in Polls : poll[p].pc = "working" /\ poll[p].page = << >> /\ poll[p].added
    /\ disk' = [NoFile EXCEPT !.cursor = disk.cursor]
    /\ Load(disk')
    /\ missed' = missed \cup 1 .. disk.cursor
    /\ UNCHANGED log

Poll(p) ==
    \/ AskSignatures(p) \/ AnswerPage(p)
    \/ SkipCursor(p) \/ ProcessSignature(p) \/ EndPoll(p)

IndexerNext ==
    \/ \E c \in Contents : Executed(c)
    \/ \E p \in Polls : Poll(p) \/ AnswerFails(p) \/ FetchFails(p)
    \/ StopAndStart \/ CrashAndStart \/ TornAndStart

IndexerSpec == IndexerInit /\ [][IndexerNext]_indexerVars

-----------------------------------------------------------------------------
(* What the API serves.  A row of an open adds volume, the others add pnl. *)
VolumeOf(e) == IF e.action = "open" THEN e.notional ELSE 0
PnlOf(e)    == IF e.action = "open" THEN 0 ELSE e.pnl

(* computeLeaderboard: the figures of u in the events f.                   *)
ReportOf(f, u) ==
    LET own == {n \in DOMAIN f : f[n].user = u}
    IN  [trades    |-> Cardinality({n \in own : f[n].action = "open"}),
         volume    |-> SumFunction([n \in own |-> VolumeOf(f[n])]),
         total_pnl |-> SumFunction([n \in own |-> PnlOf(f[n])]),
         wins      |-> Cardinality({n \in own : PnlOf(f[n]) > 0})]

LeaderboardRow(u) == ReportOf([n \in DOMAIN trades |-> trades[n].ev], u)

(* computeStats, over the rows since a time.                               *)
TotalVolume(since) ==
    SumFunction([n \in {k \in DOMAIN trades : trades[k].sig >= since} |-> VolumeOf(trades[n].ev)])

(* /daily-volume of watch-keeper.js, which reads the file itself and adds  *)
(* up the notional of every row, whatever its action, over all days.       *)
DailyVolume == SumFunction([n \in DOMAIN disk.trades |-> disk.trades[n].ev.notional])

-----------------------------------------------------------------------------
(* The rows of memory and of the file are numbered upwards and none stands *)
(* twice, however often a signature is read again: by polls that overlap,  *)
(* by a poll that sets the cursor back, after a restart.                   *)
RowsOnce ==
    \A rows \in {trades, disk.trades} : \A i, j \in DOMAIN rows :
        i < j => /\ rows[i].id < rows[j].id
                 /\ rows[j].id < nextId
                 /\ ~(rows[i].sig = rows[j].sig /\ rows[i].ev = rows[j].ev)

Holds(rows, s) == \A i \in DOMAIN log[s] : \E n \in DOMAIN rows :
                      rows[n].sig = s /\ rows[n].ev = log[s][i]

(* Whatever the cursor has passed is among the rows, in memory and on      *)
(* disk, or was given up: a crash between the two writes of persistStore   *)
(* and polls that finish out of order lose nothing.                        *)
PassedIsStored ==
    /\ \A s \in 1 .. cursor : s \in missed \/ Holds(trades, s)
    /\ \A s \in 1 .. disk.cursor : s \in missed \/ Holds(disk.trades, s)

(* The events the indexer has passed since a time, as the chain has them.  *)
Passed(since) ==
    [x \in UNION {{s} \X DOMAIN log[s] : s \in since .. cursor} |-> log[x[1]][x[2]]]

(* Each event is a row once, and while nothing has been given up the       *)
(* leaderboard and the volumes are those of the events up to the newest    *)
(* signature that was read: nothing is counted twice, whatever was read    *)
(* again.                                                                  *)
ReportsAgree ==
    /\ RowsOnce
    /\ missed = {} /\ (\A n \in DOMAIN trades : trades[n].sig <= cursor) =>
           /\ \A u \in Users : LeaderboardRow(u) = ReportOf(Passed(1), u)
           /\ \A s \in 1 .. cursor :
                  TotalVolume(s) = SumFunction([x \in DOMAIN Passed(s) |-> VolumeOf(Passed(s)[x])])
           /\ disk.trades = trades => DailyVolume = TotalVolume(1)
=============================================================================
