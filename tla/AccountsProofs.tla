--------------------------- MODULE AccountsProofs ---------------------------
(***************************************************************************)
(* That the account routes keep their promises whatever calls interleave   *)
(* between their queries and wherever they are cut short, for every set of *)
(* e-mails, passwords and callers.                                         *)
(*                                                                         *)
(* What a call has read stays true of the tables while it waits because    *)
(* the tables only grow: a row is never taken away nor its wallet changed, *)
(* a link keeps its e-mail and, once used, stays used.  That is TablesGrow;*)
(* CallsSound is what each call may rely on.                               *)
(*                                                                         *)
(* And that a browser with one tab keeps the key of its session wallet:    *)
(* WalletSound says what the tab relies on between two accesses, and that  *)
(* whatever is in the secure store was put above all other keys.           *)
(***************************************************************************)
EXTENDS Accounts, Wallet, FiniteSetTheorems, SequenceTheorems, TLAPS

Tokens == [email: Emails, expires: Nat, used: BOOLEAN]

(* The local variables of a call, by where it is.                          *)
Waiting ==
    [at: {"idle", "fund"}]
        \cup [at: {"limit"}, transfer: Nat]
        \cup [at: {"insert", "answer", "rehash"}, email: Emails,
              password: Passwords, wallet: Wallets]
        \cup [at: {"answer"}, email: Emails, wallet: Wallets]
        \cup [at: {"replace"}, email: Emails, password: Passwords]
        \cup [at: {"mail"}, token: Nat]
        \cup [at: {"account", "write", "mark"}, token: Nat, password: Passwords]

AccountsTyped ==
    /\ rows \in [Emails -> Row \cup {NoRow}]
    /\ tokens \in Seq(Tokens)
    /\ mailed \subseteq DOMAIN tokens
    /\ calls \in [Callers -> Waiting]
    /\ told \subseteq Emails \X Wallets

ClockTyped ==
    /\ present \in 0 .. LastTime
    /\ cuts \in 0 .. MaxCuts
    /\ funded \in Seq(Nat)

LEMMA ClockStep == ClockTyped /\ [AccountsNext]_accountVars => ClockTyped'
<1>. SUFFICES ASSUME ClockTyped, [AccountsNext]_accountVars PROVE ClockTyped'
    OBVIOUS
<1>1. CASE UNCHANGED <<present, cuts, funded>>
    BY <1>1 DEF ClockTyped
<1>2. CASE TimePasses
    BY <1>2, AccountsAssumption DEF TimePasses, ClockTyped, memo, paid
<1>3. CASE Cut /\ UNCHANGED present /\ (UNCHANGED funded \/ funded' = << >>)
    <2>1. funded' \in Seq(Nat)
        <3>1. << >> \in Seq(Nat) /\ funded \in Seq(Nat)
            BY DEF ClockTyped
        <3>2. QED
            BY <1>3, <3>1, Zenon
    <2>2. present' \in 0 .. LastTime /\ cuts' \in 0 .. MaxCuts
        BY <1>3, AccountsAssumption DEF Cut, ClockTyped
    <2>3. QED
        BY <2>1, <2>2 DEF ClockTyped
<1>4. ASSUME NEW c \in Callers, SendTransfer(c) PROVE ClockTyped'
    <2>1. UNCHANGED <<present, cuts>> /\ (UNCHANGED funded \/ funded' = Append(funded, present))
        BY <1>4 DEF SendTransfer
    <2>2. present \in Nat
        BY AccountsAssumption DEF ClockTyped
    <2>3. QED
        BY <2>1, <2>2 DEF ClockTyped
<1>5. QED
    BY <1>1, <1>2, <1>3, <1>4, ZenonT(60) DEF AccountsNext, accountVars, Call, CheckEmail,
       CreateAccount, Login, Rehash, Answer, CheckCurrent, ResetPassword, ForgotPassword, SendMail,
       CheckLink, ReadAccount, WritePassword, ConfirmReset, CheckRate, EndFunding, CutShort,
       ColdStart, memo, paid

-----------------------------------------------------------------------------
(* What a call may rely on while it waits.                                 *)
HasWallet(e, w) == rows[e] # NoRow /\ rows[e].wallet = w

CallSound(c) ==
    /\ calls[c].at \in {"answer", "rehash"} =>
          HasWallet(calls[c].email, calls[c].wallet)
    /\ calls[c].at = "replace" => rows[calls[c].email] # NoRow
    /\ calls[c].at \in {"mail", "account", "write", "mark"} =>
          calls[c].token \in DOMAIN tokens
    /\ calls[c].at = "write" => rows[tokens[calls[c].token].email] # NoRow

CallsSound == \A c \in Callers : CallSound(c)

(* What the tables keep from one step to the next.                         *)
RowsGrow ==
    \A e \in Emails : rows[e] # NoRow =>
        rows'[e] # NoRow /\ rows'[e].wallet = rows[e].wallet

TokensGrow ==
    \A t \in DOMAIN tokens :
        /\ t \in DOMAIN tokens'
        /\ tokens'[t].email = tokens[t].email
        /\ tokens[t].used => tokens'[t].used

LEMMA HashKeepsRows ==
    ASSUME AccountsTyped, NEW e \in Emails, rows[e] # NoRow, NEW p \in Passwords,
           SetHash(e, Bcrypt(p))
    PROVE  /\ rows' \in [Emails -> Row \cup {NoRow}]
           /\ rows'[e] = [hash |-> Bcrypt(p), wallet |-> rows[e].wallet]
           /\ \A f \in Emails \ {e} : rows'[f] = rows[f]
           /\ RowsGrow
<1>1. Bcrypt(p) \in Hashes
    BY DEF Bcrypt, Hashes
<1>2. rows[e] \in Row
    BY DEF AccountsTyped
<1>3. rows'[e] = [rows[e] EXCEPT !.hash = Bcrypt(p)]
    BY DEF SetHash, AccountsTyped
<1>4. rows'[e] = [hash |-> Bcrypt(p), wallet |-> rows[e].wallet]
    BY <1>2, <1>3 DEF Row
<1>5. rows'[e] \in Row
    BY <1>1, <1>2, <1>4 DEF Row
<1>6. \A f \in Emails \ {e} : rows'[f] = rows[f]
    BY DEF SetHash, AccountsTyped
<1>7. rows' \in [Emails -> Row \cup {NoRow}]
    <2>1. rows' = [f \in Emails |-> rows'[f]]
        BY DEF SetHash, AccountsTyped
    <2>2. \A f \in Emails : rows'[f] \in Row \cup {NoRow}
        BY <1>5, <1>6 DEF AccountsTyped
    <2>3. QED
        BY <2>1, <2>2
<1>8. RowsGrow
    BY <1>4, <1>5, <1>6, AccountsAssumption DEF RowsGrow
<1>9. QED
    BY <1>4, <1>6, <1>7, <1>8

-----------------------------------------------------------------------------
(* Where a call is says what it holds.                                     *)
LEMMA WaitingFields ==
    ASSUME NEW call \in Waiting
    PROVE  /\ call.at \in {"insert", "answer", "rehash"} =>
                 call.email \in Emails /\ call.wallet \in Wallets
           /\ call.at \in {"insert", "rehash", "replace"} =>
                 call.email \in Emails /\ call.password \in Passwords
           /\ call.at \in {"mail", "account", "write", "mark"} => call.token \in Nat
           /\ call.at \in {"account", "write", "mark"} => call.password \in Passwords
BY DEF Waiting

LEMMA TokenTyped ==
    ASSUME AccountsTyped, NEW t \in DOMAIN tokens
    PROVE  tokens[t].email \in Emails
<1>1. tokens[t] \in Tokens
    BY DEF AccountsTyped
<1>2. QED
    BY <1>1 DEF Tokens

(* The three calls that go on with what they have.                         *)
LEMMA WaitingGoesOn ==
    ASSUME NEW call \in Waiting, NEW to,
           \/ call.at = "rehash" /\ to = "answer"
           \/ call.at = "account" /\ to = "write"
           \/ call.at = "write" /\ to = "mark"
    PROVE  /\ [call EXCEPT !.at = to] \in Waiting
           /\ [call EXCEPT !.at = to].at = to
           /\ to = "answer" => /\ [call EXCEPT !.at = to].email = call.email
                               /\ [call EXCEPT !.at = to].wallet = call.wallet
           /\ to # "answer" => [call EXCEPT !.at = to].token = call.token
<1>1. CASE call.at = "rehash" /\ to = "answer"
    <2>1. call \in [at: {"insert", "answer", "rehash"}, email: Emails,
                    password: Passwords, wallet: Wallets]
        BY <1>1 DEF Waiting
    <2>2. [call EXCEPT !.at = to] \in [at: {"insert", "answer", "rehash"}, email: Emails,
                    password: Passwords, wallet: Wallets]
        BY <1>1, <2>1
    <2>3. QED
        BY <1>1, <2>1, <2>2 DEF Waiting
<1>2. CASE call.at \in {"account", "write"} /\ to \in {"write", "mark"}
    <2>1. call \in [at: {"account", "write", "mark"}, token: Nat, password: Passwords]
        BY <1>2 DEF Waiting
    <2>2. [call EXCEPT !.at = to] \in
              [at: {"account", "write", "mark"}, token: Nat, password: Passwords]
        BY <1>2, <2>1
    <2>3. QED
        BY <1>2, <2>1, <2>2 DEF Waiting
<1>3. QED
    BY <1>1, <1>2

LEMMA ProceedsTyped ==
    ASSUME AccountsTyped, NEW c \in Callers, NEW call \in Waiting, Proceeds(c, call)
    PROVE  /\ calls' \in [Callers -> Waiting]
           /\ calls'[c] = call
           /\ \A d \in Callers \ {c} : calls'[d] = calls[d]
BY DEF Proceeds, AccountsTyped

(* A step of call c: the tables grow, c has what it relies on next, and    *)
(* the others stay where they are.                                         *)
StepOf(c) ==
    /\ AccountsTyped'
    /\ RowsGrow /\ TokensGrow
    /\ CallSound(c)'
    /\ \A d \in Callers \ {c} : calls'[d] = calls[d]

Before == AccountsTyped /\ CallsSound

LEMMA IdleStep ==
    ASSUME Before, NEW c \in Callers, Returns(c), UNCHANGED <<rows, tokens>>,
           mailed' \subseteq DOMAIN tokens', told' \subseteq Emails \X Wallets
    PROVE  StepOf(c)
<1>1. Idle \in Waiting /\ Idle.at = "idle"
    BY DEF Idle, Waiting
<1>2. /\ calls' \in [Callers -> Waiting]
      /\ calls'[c].at = "idle"
      /\ \A d \in Callers \ {c} : calls'[d] = calls[d]
    BY <1>1, ProceedsTyped DEF Before, Returns
<1>3. AccountsTyped'
    BY <1>2 DEF Before, AccountsTyped
<1>4. RowsGrow /\ TokensGrow
    BY DEF Before, RowsGrow, TokensGrow
<1>5. CallSound(c)'
    BY <1>2 DEF CallSound
<1>6. QED
    BY <1>2, <1>3, <1>4, <1>5 DEF StepOf

(* A call goes on with call; the tables stay.                              *)
LEMMA ReadStep ==
    ASSUME Before, NEW c \in Callers, NEW call \in Waiting, Proceeds(c, call),
           UNCHANGED <<rows, tokens, mailed, told>>,
           call.at \in {"answer", "rehash"} => HasWallet(call.email, call.wallet),
           call.at = "replace" => rows[call.email] # NoRow,
           call.at \in {"mail", "account", "write", "mark"} => call.token \in DOMAIN tokens,
           call.at = "write" => rows[tokens[call.token].email] # NoRow
    PROVE  StepOf(c)
<1>1. /\ calls' \in [Callers -> Waiting]
      /\ calls'[c] = call
      /\ \A d \in Callers \ {c} : calls'[d] = calls[d]
    BY ProceedsTyped DEF Before
<1>2. AccountsTyped'
    BY <1>1 DEF Before, AccountsTyped
<1>3. RowsGrow /\ TokensGrow
    BY DEF Before, RowsGrow, TokensGrow
<1>4. CallSound(c)'
    BY <1>1 DEF CallSound, HasWallet
<1>5. QED
    BY <1>1, <1>2, <1>3, <1>4 DEF StepOf

LEMMA CheckEmailStep ==
    ASSUME Before, NEW c \in Callers, NEW e \in Emails, NEW p \in Passwords,
           NEW w \in Wallets, CheckEmail(c, e, p, w)
    PROVE  StepOf(c)
<1>1. [at |-> "insert", email |-> e, password |-> p, wallet |-> w] \in Waiting
    BY DEF Waiting
<1>2. QED
    BY <1>1, ReadStep DEF CheckEmail, tables, memo

LEMMA LoginStep ==
    ASSUME Before, NEW c \in Callers, NEW e \in Emails, NEW p \in Passwords,
           Login(c, e, p)
    PROVE  StepOf(c)
<1> DEFINE to == IF IsLegacyHash(AccountByEmail(e).hash) THEN "rehash" ELSE "answer"
           call == [at |-> to, email |-> e, password |-> p, wallet |-> AccountByEmail(e).wallet]
<1>1. rows[e] \in Row /\ AccountByEmail(e) = rows[e]
    BY DEF Login, EmailExists, AccountByEmail, Before, AccountsTyped
<1>2. call \in Waiting
    BY <1>1 DEF Waiting, Row
<1>3. HasWallet(e, rows[e].wallet)
    BY DEF Login, EmailExists, HasWallet
<1>5. Proceeds(c, call) /\ UNCHANGED <<rows, tokens, mailed, told>>
    BY DEF Login, tables, memo
<1>6. /\ call.at = to /\ call.email = e /\ call.wallet = rows[e].wallet
      /\ to \in {"rehash", "answer"}
    BY <1>1
<1>. HIDE DEF call, to
<1>7. QED
    BY <1>2, <1>3, <1>5, <1>6, ReadStep

LEMMA CheckCurrentStep ==
    ASSUME Before, NEW c \in Callers, NEW e \in Emails, NEW p \in Passwords,
           NEW new \in Passwords, CheckCurrent(c, e, p, new)
    PROVE  StepOf(c)
<1>1. [at |-> "replace", email |-> e, password |-> new] \in Waiting
    BY DEF Waiting
<1>2. QED
    BY <1>1, ReadStep DEF CheckCurrent, EmailExists, tables, memo

LEMMA CheckLinkStep ==
    ASSUME Before, NEW c \in Callers, NEW t \in DOMAIN tokens, NEW p \in Passwords,
           CheckLink(c, t, p)
    PROVE  StepOf(c)
<1>1. t \in Nat
    BY DEF Before, AccountsTyped
<1>2. [at |-> "account", token |-> t, password |-> p] \in Waiting
    BY <1>1 DEF Waiting
<1>3. QED
    BY <1>2, ReadStep DEF CheckLink, tables, memo

LEMMA ReadAccountStep ==
    ASSUME Before, NEW c \in Callers, ReadAccount(c)
    PROVE  StepOf(c)
<1>1. calls[c] \in Waiting /\ calls[c].at = "account" /\ calls[c].token \in DOMAIN tokens
    BY DEF ReadAccount, CallAt, Before, AccountsTyped, CallsSound, CallSound
<1>2. CASE Returns(c)
    BY <1>2, IdleStep DEF ReadAccount, tables, memo, Before, AccountsTyped
<1>3. CASE /\ rows[tokens[calls[c].token].email] # NoRow
           /\ Proceeds(c, [calls[c] EXCEPT !.at = "write"])
    <2> DEFINE call == [calls[c] EXCEPT !.at = "write"]
    <2>1. call \in Waiting /\ call.at = "write" /\ call.token = calls[c].token
        BY <1>1, WaitingGoesOn
    <2>2. UNCHANGED <<rows, tokens, mailed, told>>
        BY DEF ReadAccount, tables, memo
    <2>3. Proceeds(c, call)
        BY <1>3
    <2>. HIDE DEF call
    <2>4. QED
        BY <1>1, <1>3, <2>1, <2>2, <2>3, ReadStep
<1>4. QED
    BY <1>2, <1>3 DEF ReadAccount, EmailExists, ResetToken

LEMMA CheckRateStep ==
    ASSUME Before, NEW c \in Callers, CheckRate(c)
    PROVE  StepOf(c)
<1>1. [at |-> "fund"] \in Waiting
    BY DEF Waiting
<1>2. QED
    BY <1>1, ReadStep DEF CheckRate, tables, memo

LEMMA CreateAccountStep ==
    ASSUME Before, NEW c \in Callers, CreateAccount(c)
    PROVE  StepOf(c)
<1> DEFINE e == calls[c].email  w == calls[c].wallet  p == calls[c].password
           row == [hash |-> Bcrypt(p), wallet |-> w]
           call == [at |-> "answer", email |-> e, wallet |-> w]
<1>1. e \in Emails /\ w \in Wallets /\ p \in Passwords
    BY WaitingFields DEF CreateAccount, CallAt, Before, AccountsTyped
<1>2. UNCHANGED <<tokens, mailed, told>>
    BY DEF CreateAccount, memo
<1>3. CASE Returns(c) /\ UNCHANGED rows
    BY <1>2, <1>3, IdleStep DEF Before, AccountsTyped
<1>4. CASE rows[e] = NoRow /\ rows' = [rows EXCEPT ![e] = row] /\ Proceeds(c, call)
    <2>1. row \in Row /\ row # NoRow /\ row.wallet = w
        <3>1. row \in Row
            BY <1>1 DEF Row, Hashes, Bcrypt
        <3>2. QED
            BY <3>1, AccountsAssumption
    <2>2. call \in Waiting /\ call.at = "answer" /\ call.email = e /\ call.wallet = w
        BY <1>1 DEF Waiting
    <2>3. Proceeds(c, call) /\ rows' = [rows EXCEPT ![e] = row] /\ rows[e] = NoRow
        BY <1>4
    <2>. HIDE DEF row, call, e, w, p
    <2>4. /\ calls' \in [Callers -> Waiting]
          /\ calls'[c] = call
          /\ \A d \in Callers \ {c} : calls'[d] = calls[d]
        BY <2>2, <2>3, ProceedsTyped DEF Before
    <2>5. /\ rows' \in [Emails -> Row \cup {NoRow}]
          /\ rows'[e] = row
          /\ \A f \in Emails \ {e} : rows'[f] = rows[f]
        BY <1>1, <2>1, <2>3 DEF Before, AccountsTyped
    <2>6. AccountsTyped'
        BY <1>2, <2>4, <2>5 DEF Before, AccountsTyped
    <2>7. RowsGrow /\ TokensGrow
        BY <1>2, <2>1, <2>3, <2>5 DEF RowsGrow, TokensGrow
    <2>8. CallSound(c)'
        BY <2>1, <2>2, <2>4, <2>5 DEF CallSound, HasWallet
    <2>9. QED
        BY <2>4, <2>6, <2>7, <2>8 DEF StepOf
<1>5. QED
    BY <1>3, <1>4 DEF CreateAccount, Unique

(* A password is written to the row of e, by a call that goes on or ends.  *)
LEMMA WriteStep ==
    ASSUME Before, NEW c \in Callers, NEW call \in Waiting, Proceeds(c, call),
           NEW e \in Emails, rows[e] # NoRow, NEW p \in Passwords, SetHash(e, Bcrypt(p)),
           UNCHANGED <<tokens, mailed, told>>,
           \/ call.at \in {"idle", "mark"}
           \/ call.at = "answer" /\ HasWallet(call.email, call.wallet) /\ call.email \in Emails,
           call.at = "mark" => call.token \in DOMAIN tokens
    PROVE  StepOf(c)
<1>1. /\ calls' \in [Callers -> Waiting]
      /\ calls'[c] = call
      /\ \A d \in Callers \ {c} : calls'[d] = calls[d]
    BY ProceedsTyped DEF Before
<1>2. /\ rows' \in [Emails -> Row \cup {NoRow}]
      /\ rows'[e] = [hash |-> Bcrypt(p), wallet |-> rows[e].wallet]
      /\ \A f \in Emails \ {e} : rows'[f] = rows[f]
      /\ RowsGrow
    BY HashKeepsRows DEF Before
<1>3. AccountsTyped'
    BY <1>1, <1>2 DEF Before, AccountsTyped
<1>4. TokensGrow
    BY DEF TokensGrow
<1>7. CallSound(c)'
    BY <1>1, <1>2 DEF CallSound, HasWallet, RowsGrow
<1>8. QED
    BY <1>1, <1>2, <1>3, <1>4, <1>7 DEF StepOf

LEMMA RehashStep ==
    ASSUME Before, NEW c \in Callers, Rehash(c)
    PROVE  StepOf(c)
<1> DEFINE call == [calls[c] EXCEPT !.at = "answer"]
<1>1. calls[c] \in Waiting /\ calls[c].at = "rehash"
    BY DEF Rehash, CallAt, Before, AccountsTyped
<1>2. /\ calls[c].email \in Emails /\ calls[c].password \in Passwords
      /\ HasWallet(calls[c].email, calls[c].wallet)
    BY <1>1, WaitingFields DEF Before, CallsSound, CallSound
<1>3. /\ call \in Waiting /\ call.at = "answer"
      /\ call.email = calls[c].email /\ call.wallet = calls[c].wallet
    BY <1>1, WaitingGoesOn
<1>4. /\ Proceeds(c, call) /\ SetHash(calls[c].email, Bcrypt(calls[c].password))
      /\ UNCHANGED <<tokens, mailed, told>>
    BY DEF Rehash, memo
<1>5. rows[calls[c].email] # NoRow
    BY <1>2 DEF HasWallet
<1>. HIDE DEF call
<1>6. QED
    BY <1>2, <1>3, <1>4, <1>5, WriteStep

LEMMA ResetPasswordStep ==
    ASSUME Before, NEW c \in Callers, ResetPassword(c)
    PROVE  StepOf(c)
<1>1. calls[c] \in Waiting /\ calls[c].at = "replace"
    BY DEF ResetPassword, CallAt, Before, AccountsTyped
<1>2. /\ calls[c].email \in Emails /\ calls[c].password \in Passwords
      /\ rows[calls[c].email] # NoRow
    BY <1>1, WaitingFields DEF Before, CallsSound, CallSound
<1>3. Idle \in Waiting /\ Idle.at = "idle"
    BY DEF Idle, Waiting
<1>4. /\ Proceeds(c, Idle) /\ SetHash(calls[c].email, Bcrypt(calls[c].password))
      /\ UNCHANGED <<tokens, mailed, told>>
    BY DEF ResetPassword, Returns, memo
<1>5. QED
    BY <1>2, <1>3, <1>4, WriteStep

LEMMA WritePasswordStep ==
    ASSUME Before, NEW c \in Callers, WritePassword(c)
    PROVE  StepOf(c)
<1> DEFINE call == [calls[c] EXCEPT !.at = "mark"]
           e == tokens[calls[c].token].email
<1>1. calls[c] \in Waiting /\ calls[c].at = "write"
    BY DEF WritePassword, CallAt, Before, AccountsTyped
<1>2. /\ calls[c].password \in Passwords /\ calls[c].token \in DOMAIN tokens
      /\ rows[e] # NoRow
    BY <1>1, WaitingFields DEF Before, CallsSound, CallSound
<1>3. e \in Emails
    BY <1>2, TokenTyped DEF Before
<1>4. call \in Waiting /\ call.at = "mark" /\ call.token = calls[c].token
    BY <1>1, WaitingGoesOn
<1>5. /\ Proceeds(c, call) /\ SetHash(e, Bcrypt(calls[c].password))
      /\ UNCHANGED <<tokens, mailed, told>>
    BY DEF WritePassword, ResetToken
<1>. HIDE DEF call, e
<1>6. QED
    BY <1>2, <1>3, <1>4, <1>5, WriteStep

-----------------------------------------------------------------------------
LEMMA AnswerStep ==
    ASSUME Before, NEW c \in Callers, Answer(c)
    PROVE  StepOf(c)
<1>1. calls[c].email \in Emails /\ calls[c].wallet \in Wallets
    BY WaitingFields DEF Answer, CallAt, Before, AccountsTyped
<1>2. told' \subseteq Emails \X Wallets /\ mailed' \subseteq DOMAIN tokens'
    BY <1>1 DEF Answer, tables, Before, AccountsTyped
<1>3. QED
    BY <1>2, IdleStep DEF Answer, tables

(* What ForgotPassword stores is the first link with its number.           *)
LEMMA ForgotPasswordStep ==
    ASSUME Before, ClockTyped, NEW c \in Callers, NEW e \in Emails, ForgotPassword(c, e)
    PROVE  StepOf(c)
<1> DEFINE call == [at |-> "mail", token |-> Len(tokens) + 1]
<1>1. tokens \in Seq(Tokens) /\ NewResetToken(e) \in Tokens
    BY AccountsAssumption DEF Before, AccountsTyped, ClockTyped, NewResetToken, Tokens
<1>2. tokens' = Append(tokens, NewResetToken(e))
    BY DEF ForgotPassword
<1>3. /\ tokens' \in Seq(Tokens)
      /\ Len(tokens) + 1 \in DOMAIN tokens'
      /\ TokensGrow
    BY <1>1, <1>2 DEF TokensGrow
<1>4. call \in Waiting /\ call.at = "mail" /\ call.token = Len(tokens) + 1
    BY <1>1 DEF Waiting
<1>5. Proceeds(c, call) /\ UNCHANGED <<rows, mailed, told>>
    BY DEF ForgotPassword, memo
<1>. HIDE DEF call
<1>6. /\ calls' \in [Callers -> Waiting]
      /\ calls'[c] = call
      /\ \A d \in Callers \ {c} : calls'[d] = calls[d]
    BY <1>4, <1>5, ProceedsTyped DEF Before
<1>7. AccountsTyped'
    BY <1>3, <1>5, <1>6 DEF Before, AccountsTyped, TokensGrow
<1>8. RowsGrow
    BY <1>5 DEF RowsGrow
<1>9. CallSound(c)'
    BY <1>3, <1>4, <1>6 DEF CallSound
<1>10. QED
    BY <1>3, <1>6, <1>7, <1>8, <1>9 DEF StepOf

LEMMA SendMailStep ==
    ASSUME Before, NEW c \in Callers, SendMail(c)
    PROVE  StepOf(c)
<1>1. calls[c].token \in DOMAIN tokens
    BY DEF SendMail, CallAt, Before, CallsSound, CallSound
<1>2. mailed' \subseteq DOMAIN tokens' /\ told' \subseteq Emails \X Wallets
    BY <1>1 DEF SendMail, tables, memo, Before, AccountsTyped
<1>3. QED
    BY <1>2, IdleStep DEF SendMail, tables, memo

LEMMA MarkedTokens ==
    ASSUME AccountsTyped, NEW t \in DOMAIN tokens, MarkResetTokenUsed(t)
    PROVE  /\ tokens' \in Seq(Tokens)
           /\ DOMAIN tokens' = DOMAIN tokens /\ Len(tokens') = Len(tokens)
           /\ tokens'[t].used
           /\ \A u \in DOMAIN tokens \ {t} : tokens'[u] = tokens[u]
           /\ TokensGrow
<1>1. tokens \in Seq(Tokens) /\ tokens[t] \in Tokens
    BY DEF AccountsTyped
<1>2. /\ tokens' = [tokens EXCEPT ![t] = tokens'[t]]
      /\ tokens'[t] = [tokens[t] EXCEPT !.used = TRUE]
    BY <1>1 DEF MarkResetTokenUsed
<1>3. /\ tokens'[t] \in Tokens /\ tokens'[t].used
      /\ tokens'[t].email = tokens[t].email
    BY <1>1, <1>2 DEF Tokens
<1>4. /\ DOMAIN tokens' = DOMAIN tokens
      /\ \A u \in DOMAIN tokens \ {t} : tokens'[u] = tokens[u]
    BY <1>1, <1>2
<1>5. tokens' \in Seq(Tokens) /\ Len(tokens') = Len(tokens)
    <2>1. t \in 1 .. Len(tokens)
        BY <1>1
    <2>2. ASSUME NEW new \in Tokens
          PROVE  /\ [tokens EXCEPT ![t] = new] \in Seq(Tokens)
                 /\ Len([tokens EXCEPT ![t] = new]) = Len(tokens)
        BY <1>1, <2>1, ExceptSeq, Zenon
    <2>3. QED
        <3>1. tokens' = [tokens EXCEPT ![t] = [tokens[t] EXCEPT !.used = TRUE]]
            BY <1>1 DEF MarkResetTokenUsed
        <3>2. [tokens[t] EXCEPT !.used = TRUE] \in Tokens
            BY <1>2, <1>3
        <3>3. QED
            BY <2>2, <3>1, <3>2, Zenon
<1>6. TokensGrow
    BY <1>3, <1>4 DEF TokensGrow
<1>7. QED
    BY <1>3, <1>4, <1>5, <1>6

LEMMA ConfirmResetStep ==
    ASSUME Before, NEW c \in Callers, ConfirmReset(c)
    PROVE  StepOf(c)
<1>1. calls[c].token \in DOMAIN tokens
    BY DEF ConfirmReset, CallAt, Before, CallsSound, CallSound
<1>2. /\ tokens' \in Seq(Tokens) /\ DOMAIN tokens' = DOMAIN tokens
      /\ TokensGrow
    BY <1>1, MarkedTokens DEF ConfirmReset, Before
<1>3. Idle \in Waiting /\ Idle.at = "idle"
    BY DEF Idle, Waiting
<1>4. /\ calls' \in [Callers -> Waiting]
      /\ calls'[c].at = "idle"
      /\ \A d \in Callers \ {c} : calls'[d] = calls[d]
    BY <1>3, ProceedsTyped DEF Before, ConfirmReset, Returns
<1>5. AccountsTyped' /\ RowsGrow
    BY <1>2, <1>4 DEF ConfirmReset, Before, AccountsTyped, RowsGrow
<1>6. CallSound(c)'
    BY <1>4 DEF CallSound
<1>7. QED
    BY <1>2, <1>4, <1>5, <1>6 DEF StepOf

LEMMA SendTransferStep ==
    ASSUME Before, ClockTyped, NEW c \in Callers, SendTransfer(c)
    PROVE  StepOf(c)
<1>1. \A n \in Nat : [at |-> "limit", transfer |-> n] \in Waiting
    BY DEF Waiting
<1>2. PICK n \in Nat : Proceeds(c, [at |-> "limit", transfer |-> n])
    BY DEF SendTransfer, ClockTyped
<1>3. QED
    BY <1>1, <1>2, ReadStep DEF SendTransfer, tables

LEMMA EndStep ==
    ASSUME Before, NEW c \in Callers, EndFunding(c) \/ CutShort(c)
    PROVE  StepOf(c)
<1>1. /\ Returns(c) /\ UNCHANGED <<rows, tokens, mailed, told>>
    BY DEF EndFunding, CutShort, tables, memo
<1>2. QED
    BY <1>1, IdleStep DEF Before, AccountsTyped

LEMMA CallStep ==
    ASSUME Before, ClockTyped, NEW c \in Callers, Call(c)
    PROVE  StepOf(c)
BY CheckEmailStep, LoginStep, CheckCurrentStep, CreateAccountStep, RehashStep, AnswerStep,
   ResetPasswordStep, ForgotPasswordStep, SendMailStep, CheckLinkStep, ReadAccountStep,
   WritePasswordStep, ConfirmResetStep, CheckRateStep, SendTransferStep, EndStep, Zenon
   DEF Call

(* The others' reads stay true of the tables.                              *)
LEMMA OthersSound ==
    ASSUME Before, NEW c \in Callers, StepOf(c)
    PROVE  CallsSound'
<1>. SUFFICES ASSUME NEW d \in Callers \ {c} PROVE CallSound(d)'
    BY DEF CallsSound, StepOf
<1>1. calls'[d] = calls[d] /\ CallSound(d) /\ RowsGrow /\ TokensGrow
    BY DEF StepOf, Before, CallsSound
<1>2. calls[d] \in Waiting
    BY DEF Before, AccountsTyped
<1>3. calls[d].at \in {"answer", "rehash", "replace"} => calls[d].email \in Emails
    BY <1>2, WaitingFields
<1>4. calls[d].at = "write" => tokens[calls[d].token].email \in Emails
    BY <1>1, TokenTyped DEF CallSound, Before
<1>5. QED
    BY <1>1, <1>3, <1>4 DEF CallSound, HasWallet, RowsGrow, TokensGrow

-----------------------------------------------------------------------------
(* The parts together.                                                     *)
AccountsSound == Before /\ ClockTyped

LEMMA SoundInit == AccountsInit => AccountsSound
<1>. SUFFICES ASSUME AccountsInit PROVE AccountsSound
    OBVIOUS
<1>1. AccountsTyped
    BY DEF AccountsInit, AccountsTyped, Idle, Waiting
<1>2. CallsSound
    BY DEF AccountsInit, CallsSound, CallSound, Idle
<1>3. ClockTyped
    BY AccountsAssumption DEF AccountsInit, ClockTyped
<1>4. QED
    BY <1>1, <1>2, <1>3 DEF AccountsSound, Before

(* No call moves.                                                          *)
LEMMA RestStep ==
    ASSUME Before, UNCHANGED <<rows, tokens, mailed, told>>,
           calls' = calls \/ calls' = [c \in Callers |-> Idle]
    PROVE  Before' /\ RowsGrow /\ TokensGrow
<1>1. AccountsTyped'
    BY DEF Before, AccountsTyped, Idle, Waiting
<1>2. RowsGrow /\ TokensGrow
    BY DEF Before, RowsGrow, TokensGrow
<1>3. CASE calls' = calls
    BY <1>1, <1>2, <1>3 DEF Before, CallsSound, CallSound, HasWallet
<1>4. CASE calls' = [c \in Callers |-> Idle]
    BY <1>1, <1>2, <1>4 DEF Before, CallsSound, CallSound, Idle
<1>5. QED
    BY <1>3, <1>4

LEMMA SoundStep ==
    AccountsSound /\ [AccountsNext]_accountVars => AccountsSound' /\ RowsGrow /\ TokensGrow
<1>. SUFFICES ASSUME AccountsSound, [AccountsNext]_accountVars
              PROVE  AccountsSound' /\ RowsGrow /\ TokensGrow
    OBVIOUS
<1>1. ClockTyped' /\ Before
    BY ClockStep DEF AccountsSound
<1>2. ASSUME NEW c \in Callers, Call(c) PROVE Before' /\ RowsGrow /\ TokensGrow
    <2>1. StepOf(c)
        BY <1>1, <1>2, CallStep DEF AccountsSound
    <2>2. CallsSound'
        BY <1>1, <2>1, OthersSound
    <2>3. QED
        BY <2>1, <2>2 DEF StepOf, Before
<1>3. CASE TimePasses \/ ColdStart \/ UNCHANGED accountVars
    <2>1. /\ UNCHANGED <<rows, tokens, mailed, told>>
          /\ calls' = calls \/ calls' = [c \in Callers |-> Idle]
        BY <1>3, Zenon DEF TimePasses, ColdStart, accountVars, tables, memo
    <2>2. QED
        BY <1>1, <2>1, RestStep DEF AccountsSound
<1>4. QED
    BY <1>1, <1>2, <1>3 DEF AccountsNext, AccountsSound

LEMMA SoundAlways == AccountsSpec => []AccountsSound
BY SoundInit, SoundStep, PTL DEF AccountsSpec

-----------------------------------------------------------------------------
LEMMA HonouredStep ==
    AccountsSound /\ WalletsHonoured /\ [AccountsNext]_accountVars => WalletsHonoured'
<1>. SUFFICES ASSUME AccountsSound, WalletsHonoured, [AccountsNext]_accountVars
              PROVE  WalletsHonoured'
    OBVIOUS
<1>1. RowsGrow /\ told \subseteq Emails \X Wallets
    BY SoundStep DEF AccountsSound, Before, AccountsTyped
<1>2. \A a \in told : rows'[a[1]] # NoRow /\ rows'[a[1]].wallet = a[2]
    BY <1>1 DEF RowsGrow, WalletsHonoured
<1>3. CASE UNCHANGED told
    BY <1>2, <1>3 DEF WalletsHonoured
<1>4. ASSUME NEW c \in Callers, Answer(c) PROVE WalletsHonoured'
    <2>1. HasWallet(calls[c].email, calls[c].wallet)
        BY <1>4 DEF Answer, CallAt, AccountsSound, Before, CallsSound, CallSound
    <2>2. /\ rows' = rows
          /\ told' = told \cup {<<calls[c].email, calls[c].wallet>>}
        BY <1>4 DEF Answer, tables
    <2>3. QED
        BY <2>1, <2>2 DEF WalletsHonoured, HasWallet
<1>5. QED
    BY <1>3, <1>4, ZenonT(60) DEF AccountsNext, accountVars, Call, CheckEmail, CreateAccount,
       Login, Rehash, CheckCurrent, ResetPassword, ForgotPassword, SendMail,
       CheckLink, ReadAccount, WritePassword, ConfirmReset, CheckRate, SendTransfer, EndFunding,
       CutShort, TimePasses, ColdStart, memo

(* The wallet an answer has named stays the wallet of the account: of two  *)
(* sign-ups that both find the e-mail free, one answers.                   *)
THEOREM WalletsAreHonoured == AccountsSpec => []WalletsHonoured
<1>1. AccountsInit => WalletsHonoured
    BY DEF AccountsInit, WalletsHonoured
<1>2. QED
    BY <1>1, HonouredStep, SoundAlways, PTL DEF AccountsSpec

-----------------------------------------------------------------------------
(* Sets of calls.                                                          *)
LEMMA CallersFinite ==
    ASSUME NEW S \in SUBSET Callers
    PROVE  /\ IsFiniteSet(S)
           /\ Cardinality(S) \in Nat /\ Cardinality(Callers) \in Nat
           /\ Cardinality(S) <= Cardinality(Callers)
BY FS_Subset, FS_CardinalityType, AccountsAssumption

LEMMA FewerCallers ==
    ASSUME NEW S \in SUBSET Callers, NEW T \in SUBSET S
    PROVE  Cardinality(T) \in Nat /\ Cardinality(T) <= Cardinality(S)
BY CallersFinite, FS_Subset

LEMMA OneCallerLess ==
    ASSUME NEW S \in SUBSET Callers, NEW c \in S, NEW T \in SUBSET (S \ {c})
    PROVE  Cardinality(T) + 1 <= Cardinality(S)
<1>1. /\ IsFiniteSet(S) /\ Cardinality(S) \in Nat
      /\ S \ {c} \in SUBSET Callers /\ S \ {c} \in SUBSET S
    BY CallersFinite
<1>2. Cardinality(S \ {c}) = Cardinality(S) - 1
    BY <1>1, FS_RemoveElement
<1>3. Cardinality(T) \in Nat /\ Cardinality(T) <= Cardinality(S \ {c})
    BY <1>1, FewerCallers
<1>4. QED
    BY <1>1, <1>2, <1>3

LEMMA HoldersTyped ==
    ASSUME NEW t
    PROVE  /\ Holders(t) \in SUBSET Callers /\ Holders(t)' \in SUBSET Callers
           /\ Cardinality(Holders(t)) \in Nat /\ Cardinality(Holders(t)') \in Nat
           /\ Cardinality(Callers) \in Nat
           /\ Cardinality(Holders(t)') <= Cardinality(Callers)
<1>1. Holders(t) \in SUBSET Callers /\ Holders(t)' \in SUBSET Callers
    BY DEF Holders
<1>2. QED
    BY <1>1, CallersFinite

(* A link that has been confirmed is marked as used, so that no call takes *)
(* it up any more: those that hold it grow fewer as they write.            *)
SpentSound ==
    /\ resets \in [1 .. MaxTokens -> Nat] /\ allowed \in [1 .. MaxTokens -> Nat]
    /\ Len(tokens) <= MaxTokens
    /\ \A t \in 1 .. MaxTokens :
          allowed[t] > 0 => t \in DOMAIN tokens /\ tokens[t].used
    /\ LinksAreSpent

(* What a call that neither takes up a link, writes nor confirms does.     *)
LinksKept ==
    /\ UNCHANGED <<resets, allowed>>
    /\ Len(tokens') <= MaxTokens
    /\ TokensGrow
    /\ \A t \in 1 .. MaxTokens : Holders(t)' \subseteq Holders(t)

LEMMA KeptStep == ASSUME SpentSound, LinksKept PROVE SpentSound'
<1>1. ASSUME NEW t \in 1 .. MaxTokens, allowed'[t] > 0
      PROVE  resets'[t] + Cardinality(Holders(t)') <= allowed'[t]
    <2>1. Cardinality(Holders(t)') <= Cardinality(Holders(t))
        BY HoldersTyped, FewerCallers DEF LinksKept
    <2>2. resets[t] + Cardinality(Holders(t)) <= allowed[t]
        BY <1>1 DEF SpentSound, LinksAreSpent, LinksKept
    <2>3. /\ resets[t] \in Nat /\ allowed[t] \in Nat
          /\ resets'[t] = resets[t] /\ allowed'[t] = allowed[t]
        BY DEF SpentSound, LinksKept
    <2>4. QED
        BY <2>1, <2>2, <2>3, HoldersTyped
<1>2. DOMAIN resets' = 1 .. MaxTokens
    BY DEF SpentSound, LinksKept
<1>3. LinksAreSpent'
    BY <1>1, <1>2 DEF LinksAreSpent
<1>4. QED
    BY <1>3 DEF SpentSound, LinksKept, TokensGrow

LEMMA HoldersKept ==
    ASSUME AccountsTyped, NEW c \in Callers,
           \A d \in Callers \ {c} : calls'[d] = calls[d],
           \/ calls'[c].at \notin {"account", "write"}
           \/ /\ calls[c].at \in {"account", "write"}
              /\ calls'[c].token = calls[c].token
    PROVE  \A t \in 1 .. MaxTokens : Holders(t)' \subseteq Holders(t)
BY DEF Holders

LEMMA CheckLinkSpends ==
    ASSUME AccountsSound, SpentSound, NEW c \in Callers, NEW u \in DOMAIN tokens,
           NEW p \in Passwords, CheckLink(c, u, p)
    PROVE  SpentSound'
<1>1. u \in 1 .. MaxTokens /\ ~(allowed[u] > 0)
    BY AccountsAssumption
       DEF AccountsSound, Before, AccountsTyped, SpentSound, CheckLink, Usable, ResetToken
<1>2. UNCHANGED <<tokens, resets, allowed>>
    BY DEF CheckLink, tables, memo, uses
<1>3. \A t \in (1 .. MaxTokens) \ {u} : Holders(t)' \subseteq Holders(t)
    BY DEF CheckLink, Proceeds, Holders, AccountsSound, Before, AccountsTyped
<1>4. ASSUME NEW t \in 1 .. MaxTokens, allowed'[t] > 0
      PROVE  resets'[t] + Cardinality(Holders(t)') <= allowed'[t]
    <2>1. t # u
        BY <1>1, <1>2, <1>4
    <2>2. Cardinality(Holders(t)') <= Cardinality(Holders(t))
        BY <1>3, <2>1, HoldersTyped, FewerCallers
    <2>3. /\ resets[t] + Cardinality(Holders(t)) <= allowed[t]
          /\ resets[t] \in Nat /\ allowed[t] \in Nat
        BY <1>2, <1>4 DEF SpentSound, LinksAreSpent
    <2>4. QED
        BY <1>2, <2>2, <2>3, HoldersTyped
<1>5. LinksAreSpent'
    BY <1>2, <1>4 DEF LinksAreSpent, SpentSound
<1>6. QED
    BY <1>2, <1>5 DEF SpentSound

(* Who writes held the link and does not hold it any more.                 *)
LEMMA WriteSpends ==
    ASSUME AccountsSound, SpentSound, NEW c \in Callers, WritePassword(c)
    PROVE  SpentSound'
<1>. PICK u : u = calls[c].token
    OBVIOUS
<1>1. u \in DOMAIN tokens /\ c \in Holders(u) /\ AccountsTyped
    BY DEF WritePassword, CallAt, AccountsSound, Before, CallsSound, CallSound, Holders
<1>2. u \in 1 .. MaxTokens
    BY <1>1, AccountsAssumption DEF AccountsTyped, SpentSound
<1>3. resets' = [resets EXCEPT ![u] = @ + 1] /\ UNCHANGED <<tokens, allowed>>
    BY DEF WritePassword
<1>4. calls'[c].at = "mark" /\ \A d \in Callers \ {c} : calls'[d] = calls[d]
    <2>1. calls[c] \in Waiting /\ calls[c].at = "write"
        BY <1>1 DEF WritePassword, CallAt, AccountsTyped
    <2>2. [calls[c] EXCEPT !.at = "mark"].at = "mark"
        BY <2>1, WaitingGoesOn
    <2>3. QED
        BY <1>1, <2>2 DEF WritePassword, Proceeds, AccountsTyped
<1>5. \A t \in 1 .. MaxTokens : Holders(t)' \subseteq Holders(t) \ {c}
    BY <1>4 DEF Holders
<1>6. ASSUME NEW t \in 1 .. MaxTokens, allowed'[t] > 0
      PROVE  resets'[t] + Cardinality(Holders(t)') <= allowed'[t]
    <2>1. /\ resets[t] + Cardinality(Holders(t)) <= allowed[t]
          /\ resets[t] \in Nat /\ allowed[t] \in Nat /\ allowed'[t] = allowed[t]
        BY <1>3, <1>6 DEF SpentSound, LinksAreSpent
    <2>2. CASE t = u
        <3>1. Cardinality(Holders(t)') + 1 <= Cardinality(Holders(t))
            BY <1>1, <1>5, <2>2, HoldersTyped, OneCallerLess
        <3>2. resets'[t] = resets[t] + 1
            BY <1>2, <1>3, <2>2 DEF SpentSound
        <3>3. QED
            BY <2>1, <3>1, <3>2, HoldersTyped
    <2>3. CASE t # u
        <3>1. Cardinality(Holders(t)') <= Cardinality(Holders(t))
            BY <1>5, HoldersTyped, FewerCallers
        <3>2. resets'[t] = resets[t]
            BY <1>3, <2>3 DEF SpentSound
        <3>3. QED
            BY <2>1, <3>1, <3>2, HoldersTyped
    <2>4. QED
        BY <2>2, <2>3
<1>7. resets' \in [1 .. MaxTokens -> Nat]
    BY <1>2, <1>3 DEF SpentSound
<1>8. LinksAreSpent'
    BY <1>6, <1>7 DEF LinksAreSpent
<1>9. QED
    BY <1>3, <1>7, <1>8 DEF SpentSound

(* The first confirmation counts those that still hold the link.           *)
LEMMA ConfirmSpends ==
    ASSUME AccountsSound, SpentSound, NEW c \in Callers, ConfirmReset(c)
    PROVE  SpentSound'
<1>. PICK u : u = calls[c].token
    OBVIOUS
<1>1. u \in DOMAIN tokens /\ AccountsTyped
    BY DEF ConfirmReset, CallAt, AccountsSound, Before, CallsSound, CallSound
<1>2. /\ DOMAIN tokens' = DOMAIN tokens /\ Len(tokens') = Len(tokens)
      /\ tokens'[u].used /\ TokensGrow
    BY <1>1, MarkedTokens DEF ConfirmReset
<1>3. u \in 1 .. MaxTokens
    BY <1>1, AccountsAssumption DEF AccountsTyped, SpentSound
<1>4. /\ allowed' = [allowed EXCEPT ![u] = IF @ > 0 THEN @ ELSE resets[u] + Cardinality(Holders(u))]
      /\ resets' = resets
    BY DEF ConfirmReset
<1>5. \A t \in 1 .. MaxTokens : Holders(t)' \subseteq Holders(t)
    BY <1>1 DEF ConfirmReset, Returns, Proceeds, Idle, Holders, AccountsTyped
<1>6. ASSUME NEW t \in 1 .. MaxTokens, allowed'[t] > 0
      PROVE  resets'[t] + Cardinality(Holders(t)') <= allowed'[t]
    <2>1. /\ Cardinality(Holders(t)') <= Cardinality(Holders(t))
          /\ resets[t] \in Nat /\ allowed[t] \in Nat /\ resets'[t] = resets[t]
        BY <1>4, <1>5, HoldersTyped, FewerCallers DEF SpentSound
    <2>2. CASE allowed[t] > 0
        <3>1. resets[t] + Cardinality(Holders(t)) <= allowed[t]
            BY <2>2 DEF SpentSound, LinksAreSpent
        <3>2. allowed'[t] = allowed[t]
            BY <1>4, <2>2 DEF SpentSound
        <3>3. QED
            BY <2>1, <3>1, <3>2, HoldersTyped
    <2>3. CASE ~(allowed[t] > 0)
        <3>1. t = u /\ allowed'[t] = resets[t] + Cardinality(Holders(t))
            BY <1>4, <1>6, <2>3 DEF SpentSound
        <3>2. QED
            BY <2>1, <3>1, HoldersTyped
    <2>4. QED
        BY <2>2, <2>3
<1>7. allowed' \in [1 .. MaxTokens -> Nat]
    <2>1. resets[u] \in Nat /\ Cardinality(Holders(u)) \in Nat
        BY <1>3, HoldersTyped DEF SpentSound
    <2>2. QED
        BY <1>3, <1>4, <2>1 DEF SpentSound
<1>8. LinksAreSpent'
    BY <1>4, <1>6 DEF LinksAreSpent, SpentSound
<1>9. ASSUME NEW t \in 1 .. MaxTokens, allowed'[t] > 0
      PROVE  t \in DOMAIN tokens' /\ tokens'[t].used
    <2>1. CASE t = u
        BY <1>1, <1>2, <2>1
    <2>2. CASE t # u
        <3>1. allowed[t] > 0
            BY <1>4, <1>9, <2>2 DEF SpentSound
        <3>2. QED
            BY <1>2, <3>1 DEF SpentSound, TokensGrow
    <2>3. QED
        BY <2>1, <2>2
<1>10. QED
    BY <1>2, <1>4, <1>7, <1>8, <1>9 DEF SpentSound

LEMMA SpentStep ==
    AccountsSound /\ SpentSound /\ [AccountsNext]_accountVars => SpentSound'
<1>. SUFFICES ASSUME AccountsSound, SpentSound, [AccountsNext]_accountVars
              PROVE  SpentSound'
    OBVIOUS
<1>1. AccountsTyped /\ TokensGrow /\ Before
    BY SoundStep DEF AccountsSound, Before
<1>2. ASSUME UNCHANGED <<resets, allowed>>, Len(tokens') <= MaxTokens, NEW c \in Callers,
             NEW call \in Waiting, Proceeds(c, call),
             \/ call.at \notin {"account", "write"}
             \/ /\ calls[c].at \in {"account", "write"}
                /\ call.token = calls[c].token
      PROVE  SpentSound'
    <2>1. \A t \in 1 .. MaxTokens : Holders(t)' \subseteq Holders(t)
        BY <1>1, <1>2, ProceedsTyped, HoldersKept
    <2>2. QED
        BY <1>1, <1>2, <2>1, KeptStep DEF LinksKept
<1>3. ASSUME UNCHANGED <<resets, allowed>>, tokens' = tokens,
             calls' = calls \/ calls' = [c \in Callers |-> Idle]
      PROVE  SpentSound'
    <2>1. \A t \in 1 .. MaxTokens : Holders(t)' \subseteq Holders(t)
        BY <1>3 DEF Holders, Idle
    <2>2. QED
        BY <1>1, <1>3, <2>1, KeptStep DEF LinksKept, SpentSound
<1>4. Idle \in Waiting /\ Idle.at = "idle"
    BY DEF Idle, Waiting
<1>5. ASSUME NEW c \in Callers, Returns(c), UNCHANGED <<tokens, resets, allowed>>
      PROVE  SpentSound'
    BY <1>2, <1>4, <1>5 DEF Returns, SpentSound
<1>6. ASSUME NEW c \in Callers, NEW e \in Emails, NEW p \in Passwords,
             NEW w \in Wallets, CheckEmail(c, e, p, w)
      PROVE  SpentSound'
    <2>1. [at |-> "insert", email |-> e, password |-> p, wallet |-> w] \in Waiting
        BY DEF Waiting
    <2>2. QED
        BY <1>2, <1>6, <2>1 DEF CheckEmail, tables, memo, uses, SpentSound
<1>7. ASSUME NEW c \in Callers, NEW e \in Emails, NEW p \in Passwords, Login(c, e, p)
      PROVE  SpentSound'
    <2>1. \A d \in Callers \ {c} : calls'[d] = calls[d]
        BY <1>1, <1>7 DEF Login, Proceeds, AccountsTyped
    <2>2. calls'[c].at \in {"rehash", "answer"}
        BY <1>1, <1>7 DEF Login, Proceeds, AccountsTyped
    <2>3. UNCHANGED <<tokens, resets, allowed>>
        BY <1>7 DEF Login, tables, memo, uses
    <2>4. QED
        BY <1>1, <2>1, <2>2, <2>3, HoldersKept, KeptStep DEF LinksKept, SpentSound
<1>8. ASSUME NEW c \in Callers, NEW e \in Emails, NEW p \in Passwords, NEW new \in Passwords,
             CheckCurrent(c, e, p, new)
      PROVE  SpentSound'
    <2>1. [at |-> "replace", email |-> e, password |-> new] \in Waiting
        BY DEF Waiting
    <2>2. QED
        BY <1>2, <1>8, <2>1 DEF CheckCurrent, tables, memo, uses, SpentSound
<1>9. ASSUME NEW c \in Callers, CreateAccount(c) PROVE SpentSound'
    <2>1. calls[c].email \in Emails /\ calls[c].wallet \in Wallets
        BY <1>1, <1>9, WaitingFields DEF CreateAccount, CallAt, AccountsTyped
    <2>2. [at |-> "answer", email |-> calls[c].email, wallet |-> calls[c].wallet] \in Waiting
        BY <2>1 DEF Waiting
    <2>3. QED
        BY <1>2, <1>5, <1>9, <2>2 DEF CreateAccount, memo, uses, SpentSound
<1>10. ASSUME NEW c \in Callers, Rehash(c) PROVE SpentSound'
    <2>1. /\ [calls[c] EXCEPT !.at = "answer"] \in Waiting
          /\ [calls[c] EXCEPT !.at = "answer"].at = "answer"
        BY <1>1, <1>10, WaitingGoesOn DEF Rehash, CallAt, AccountsTyped
    <2>2. QED
        BY <1>2, <1>10, <2>1 DEF Rehash, memo, uses, SpentSound
<1>11. ASSUME NEW c \in Callers, NEW e \in Emails, ForgotPassword(c, e) PROVE SpentSound'
    <2>1. [at |-> "mail", token |-> Len(tokens) + 1] \in Waiting
        BY <1>1 DEF Waiting, AccountsTyped
    <2>2. Len(tokens') <= MaxTokens
        BY <1>1, <1>11, AccountsAssumption DEF ForgotPassword, AccountsTyped
    <2>3. QED
        BY <1>2, <1>11, <2>1, <2>2 DEF ForgotPassword, memo, uses
<1>12. ASSUME NEW c \in Callers, ReadAccount(c) PROVE SpentSound'
    <2>1. calls[c].at = "account" /\ UNCHANGED <<tokens, resets, allowed>>
        BY <1>12 DEF ReadAccount, CallAt, tables, memo, uses
    <2>2. /\ [calls[c] EXCEPT !.at = "write"] \in Waiting
          /\ [calls[c] EXCEPT !.at = "write"].token = calls[c].token
        BY <1>1, <2>1, WaitingGoesOn DEF AccountsTyped
    <2>3. CASE Returns(c)
        BY <1>5, <2>1, <2>3
    <2>4. CASE Proceeds(c, [calls[c] EXCEPT !.at = "write"])
        BY <1>2, <2>1, <2>2, <2>4 DEF SpentSound
    <2>5. QED
        BY <1>12, <2>3, <2>4, Zenon DEF ReadAccount
<1>13. ASSUME NEW c \in Callers, SendTransfer(c) PROVE SpentSound'
    <2>1. \A n \in Nat : [at |-> "limit", transfer |-> n] \in Waiting
        BY DEF Waiting
    <2>2. PICK n \in Nat : Proceeds(c, [at |-> "limit", transfer |-> n])
        BY <1>13 DEF SendTransfer, AccountsSound, ClockTyped
    <2>3. QED
        BY <1>2, <1>13, <2>1, <2>2 DEF SendTransfer, tables, uses, SpentSound
<1>14. ASSUME NEW c \in Callers, CheckRate(c) PROVE SpentSound'
    <2>1. [at |-> "fund"] \in Waiting
        BY DEF Waiting
    <2>2. QED
        BY <1>2, <1>14, <2>1 DEF CheckRate, tables, memo, uses, SpentSound
<1>15. ASSUME NEW c \in Callers,
              Answer(c) \/ ResetPassword(c) \/ SendMail(c) \/ EndFunding(c) \/ CutShort(c)
       PROVE  SpentSound'
    BY <1>5, <1>15 DEF Answer, ResetPassword, SendMail, EndFunding, CutShort, tables, memo, uses
<1>16. CASE TimePasses \/ ColdStart \/ UNCHANGED accountVars
    <2>1. /\ UNCHANGED <<tokens, resets, allowed>>
          /\ calls' = calls \/ calls' = [c \in Callers |-> Idle]
        BY <1>16, Zenon DEF TimePasses, ColdStart, accountVars, tables, memo, uses
    <2>2. QED
        BY <1>3, <2>1
<1>17. ASSUME NEW c \in Callers, Call(c) PROVE SpentSound'
    BY <1>6, <1>7, <1>8, <1>9, <1>10, <1>11, <1>12, <1>13, <1>14, <1>15, <1>17, CheckLinkSpends,
       WriteSpends, ConfirmSpends, Zenon DEF Call
<1>18. QED
    BY <1>16, <1>17, Zenon DEF AccountsNext

LEMMA SpentInit == AccountsInit => SpentSound
<1>. SUFFICES ASSUME AccountsInit PROVE SpentSound
    OBVIOUS
<1>1. /\ resets \in [1 .. MaxTokens -> Nat] /\ allowed \in [1 .. MaxTokens -> Nat]
      /\ Len(tokens) <= MaxTokens
    BY AccountsAssumption DEF AccountsInit
<1>2. \A t \in 1 .. MaxTokens : ~(allowed[t] > 0)
    BY DEF AccountsInit
<1>3. QED
    BY <1>1, <1>2 DEF SpentSound, LinksAreSpent

(* From the first confirmation of a link on, the password is written       *)
(* through it only by the calls that had passed its check by then.         *)
THEOREM LinksDoGetSpent == AccountsSpec => []LinksAreSpent
<1>1. SpentSound => LinksAreSpent
    BY DEF SpentSound
<1>2. QED
    BY <1>1, SpentInit, SpentStep, SoundAlways, PTL DEF AccountsSpec

-----------------------------------------------------------------------------
(* Transfers within the gap, the calls that have passed the limit, and     *)
(* those that have sent and not yet set it.                                *)
Recent  == {i \in DOMAIN funded \ lost : present - funded[i] < FundingGap}
Funding == {c \in Callers : calls[c].at = "fund"}
Setting == {c \in Callers : calls[c].at = "limit"}

(* A transfer whose call was not cut is no later than the limit, or its    *)
(* call has yet to set it; so a call that passes the limit finds no more   *)
(* recent transfers than calls of the second kind.                         *)
FundingSound ==
    /\ funded \in Seq(Nat) /\ lastCreated \in Int
    /\ lastCreated <= present /\ lost \subseteq DOMAIN funded
    /\ \A i \in DOMAIN funded : funded[i] <= present
    /\ \A i \in DOMAIN funded \ lost :
          funded[i] <= lastCreated \/ \E c \in Setting : calls[c].transfer = i
    /\ \A c \in Setting : calls[c].transfer \in 0 .. Len(funded)
    /\ Cardinality(Recent) + Cardinality(Funding) <= Cardinality(Callers)

LEMMA RecentFinite ==
    ASSUME FundingSound
    PROVE  IsFiniteSet(Recent) /\ Cardinality(Recent) \in Nat
<1>1. DOMAIN funded = 1 .. Len(funded) /\ Len(funded) \in Nat
    BY DEF FundingSound
<1>2. IsFiniteSet(1 .. Len(funded))
    BY <1>1, FS_Interval
<1>3. Recent \in SUBSET (1 .. Len(funded))
    BY <1>1 DEF Recent
<1>4. QED
    BY <1>2, <1>3, FS_Subset, FS_CardinalityType

LEMMA FundingTyped ==
    /\ Funding \in SUBSET Callers /\ Funding' \in SUBSET Callers
    /\ Cardinality(Funding) \in Nat /\ Cardinality(Funding') \in Nat
    /\ Cardinality(Callers) \in Nat
    /\ Cardinality(Funding') <= Cardinality(Callers)
<1>1. Funding \in SUBSET Callers /\ Funding' \in SUBSET Callers
    BY DEF Funding
<1>2. QED
    BY <1>1, CallersFinite

(* No more transfers are recent than were, no more calls have passed.      *)
LEMMA FundingFewer ==
    ASSUME FundingSound, Recent' \subseteq Recent, Funding' \subseteq Funding
    PROVE  Cardinality(Recent') + Cardinality(Funding') <= Cardinality(Callers)
<1>1. IsFiniteSet(Recent) /\ Cardinality(Recent) \in Nat
    BY RecentFinite
<1>2. Cardinality(Recent') \in Nat /\ Cardinality(Recent') <= Cardinality(Recent)
    BY <1>1, FS_Subset, FS_CardinalityType
<1>3. Cardinality(Funding') <= Cardinality(Funding)
    BY FundingTyped, FewerCallers
<1>4. Cardinality(Recent) + Cardinality(Funding) <= Cardinality(Callers)
    BY DEF FundingSound
<1>5. QED
    BY <1>1, <1>2, <1>3, <1>4, FundingTyped

(* No call passes the limit, sends or sets it.                             *)
Aside ==
    \A c \in Callers :
        calls'[c] = calls[c] \/ (calls[c].at # "limit" /\ calls'[c].at \notin {"fund", "limit"})

(* Then nothing changes, though the clock may go on.                       *)
LEMMA FundingKept ==
    ASSUME FundingSound, ClockTyped, UNCHANGED <<funded, lost, lastCreated>>,
           present' \in Nat, present <= present', Aside
    PROVE  FundingSound'
<1>1. Recent' \subseteq Recent
    BY AccountsAssumption DEF Recent, FundingSound, ClockTyped
<1>2. Funding' \subseteq Funding
    BY DEF Funding, Aside
<1>3. Setting' = Setting /\ \A c \in Setting : calls'[c] = calls[c]
    BY DEF Setting, Aside
<1>4. Cardinality(Recent') + Cardinality(Funding') <= Cardinality(Callers)
    BY <1>1, <1>2, FundingFewer
<1>5. /\ lastCreated' <= present'
      /\ \A i \in DOMAIN funded' : funded'[i] <= present'
    <2>1. /\ present \in Int /\ lastCreated \in Int /\ lastCreated <= present
          /\ \A i \in DOMAIN funded : funded[i] \in Int /\ funded[i] <= present
        BY AccountsAssumption DEF FundingSound, ClockTyped
    <2>2. QED
        BY <2>1
<1>6. \A i \in DOMAIN funded' \ lost' :
          funded'[i] <= lastCreated' \/ \E c \in Setting' : calls'[c].transfer = i
    BY <1>3 DEF FundingSound
<1>7. /\ funded' \in Seq(Nat) /\ lastCreated' \in Int /\ lost' \subseteq DOMAIN funded'
      /\ \A c \in Setting' : calls'[c].transfer \in 0 .. Len(funded')
    BY <1>3 DEF FundingSound
<1>8. QED
    BY <1>4, <1>5, <1>6, <1>7 DEF FundingSound

(* A call passes: whatever is recent belongs to a call that has yet to set *)
(* the limit, and none of those is passing it.                             *)
LEMMA CheckRateFunds ==
    ASSUME AccountsSound, FundingSound, NEW c \in Callers, CheckRate(c)
    PROVE  FundingSound'
<1>1. UNCHANGED <<present, lastCreated, funded, lost>>
    BY DEF CheckRate, memo, paid, paid
<1>2. calls'[c].at = "fund" /\ calls[c].at = "idle" /\ \A d \in Callers \ {c} : calls'[d] = calls[d]
    BY DEF CheckRate, CallAt, Proceeds, AccountsSound, Before, AccountsTyped
<1>3. Setting' = Setting /\ \A d \in Setting : calls'[d] = calls[d]
    BY <1>2 DEF Setting
<1>4. \A i \in Recent : \E d \in Setting : calls[d].transfer = i
    <2>1. /\ present \in Int /\ lastCreated \in Int
          /\ present - lastCreated >= FundingGap /\ FundingGap \in Int
        BY AccountsAssumption DEF CheckRate, AccountsSound, ClockTyped, FundingSound
    <2>2. \A i \in DOMAIN funded : funded[i] \in Int
        BY DEF FundingSound
    <2>3. \A i \in Recent : ~(funded[i] <= lastCreated)
        BY <2>1, <2>2 DEF Recent
    <2>4. QED
        BY <2>3 DEF Recent, FundingSound
<1>5. IsFiniteSet(Setting) /\ Setting \in SUBSET Callers /\ Cardinality(Setting) \in Nat
    BY CallersFinite DEF Setting
<1>6. Cardinality(Recent) <= Cardinality(Setting)
    <2> DEFINE Sent == {calls[d].transfer : d \in Setting}
               sends == [d \in Setting |-> calls[d].transfer]
    <2>1. sends \in Surjection(Setting, Sent)
        BY DEF Surjection
    <2>2. IsFiniteSet(Sent) /\ Cardinality(Sent) <= Cardinality(Setting)
        BY <1>5, <2>1, FS_Surjection
    <2>3. Recent \subseteq Sent
        BY <1>4
    <2>. HIDE DEF Sent
    <2>4. Cardinality(Recent) <= Cardinality(Sent) /\ Cardinality(Sent) \in Nat
        BY <2>2, <2>3, FS_Subset, FS_CardinalityType
    <2>5. QED
        BY <1>5, <2>2, <2>4, RecentFinite
<1>7. Cardinality(Setting) + Cardinality(Funding') <= Cardinality(Callers)
    <2>1. Setting \cap Funding' = {} /\ Setting \cup Funding' \in SUBSET Callers
        BY <1>3 DEF Setting, Funding
    <2>2. IsFiniteSet(Funding')
        BY FundingTyped, CallersFinite
    <2>3. Cardinality(Setting \cup Funding') = Cardinality(Setting) + Cardinality(Funding') - 0
        BY <1>5, <2>1, <2>2, FS_Union, FS_EmptySet
    <2>4. Cardinality(Setting \cup Funding') <= Cardinality(Callers)
        BY <2>1, CallersFinite
    <2>5. QED
        BY <1>5, <2>3, <2>4, FundingTyped
<1>8. Recent' = Recent
    BY <1>1 DEF Recent
<1>9. Cardinality(Recent') + Cardinality(Funding') <= Cardinality(Callers)
    BY <1>5, <1>6, <1>7, <1>8, RecentFinite, FundingTyped
<1>10. QED
    BY <1>1, <1>3, <1>9 DEF FundingSound

(* A call that had passed sends: one call less, one transfer more, which   *)
(* the call knows.                                                         *)
LEMMA SendTransferFunds ==
    ASSUME AccountsSound, FundingSound, NEW c \in Callers, SendTransfer(c)
    PROVE  FundingSound'
<1>. PICK n : n = Len(funded)
    OBVIOUS
<1>1. /\ present' = present /\ lastCreated' = lastCreated /\ lost' = lost
      /\ present \in Nat /\ funded \in Seq(Nat) /\ n \in Nat /\ DOMAIN funded = 1 .. n
    BY AccountsAssumption DEF SendTransfer, AccountsSound, ClockTyped
<1>2. /\ calls'[c].at = "limit" /\ calls[c].at = "fund"
      /\ \A d \in Callers \ {c} : calls'[d] = calls[d]
    BY DEF SendTransfer, CallAt, Proceeds, AccountsSound, Before, AccountsTyped
<1>3. \/ funded' = Append(funded, present) /\ calls'[c].transfer = n + 1
      \/ funded' = funded /\ calls'[c].transfer = 0
    BY DEF SendTransfer, Proceeds, AccountsSound, Before, AccountsTyped
<1>4. Funding' = Funding \ {c} /\ c \in Funding /\ Setting' = Setting \cup {c} /\ c \notin Setting
    BY <1>2 DEF Funding, Setting
<1>5. /\ funded' \in Seq(Nat) /\ Len(funded') \in Nat /\ DOMAIN funded' = 1 .. Len(funded')
      /\ n <= Len(funded')
      /\ \A i \in 1 .. n : funded'[i] = funded[i]
      /\ \A i \in DOMAIN funded' : i \in 1 .. n \/ (i = calls'[c].transfer /\ funded'[i] = present)
      /\ calls'[c].transfer \in 0 .. Len(funded')
    <2>1. CASE funded' = funded /\ calls'[c].transfer = 0
        BY <1>1, <2>1
    <2>2. CASE funded' = Append(funded, present) /\ calls'[c].transfer = n + 1
        <3>1. /\ funded' \in Seq(Nat) /\ Len(funded') = n + 1 /\ DOMAIN funded' = 1 .. n + 1
              /\ \A i \in 1 .. n : funded'[i] = funded[i]
              /\ funded'[n + 1] = present
            BY <1>1, <2>2
        <3>2. \A i \in 1 .. n + 1 : i \in 1 .. n \/ i = n + 1
            BY <1>1
        <3>3. calls'[c].transfer \in 0 .. n + 1
            BY <1>1, <2>2
        <3>4. QED
            BY <1>1, <2>2, <3>1, <3>2, <3>3
    <2>3. QED
        BY <1>3, <2>1, <2>2
<1>6. \A i \in DOMAIN funded' : funded'[i] <= present
    BY <1>1, <1>5 DEF FundingSound
<1>7. \A i \in DOMAIN funded' \ lost' :
          funded'[i] <= lastCreated' \/ \E d \in Setting' : calls'[d].transfer = i
    <2>. SUFFICES ASSUME NEW i \in DOMAIN funded' \ lost'
                  PROVE  funded'[i] <= lastCreated' \/ \E d \in Setting' : calls'[d].transfer = i
        OBVIOUS
    <2>1. CASE i = calls'[c].transfer
        BY <1>4, <2>1
    <2>2. CASE i \in 1 .. n
        <3>1. funded[i] <= lastCreated \/ \E d \in Setting : calls[d].transfer = i
            BY <1>1, <2>2 DEF FundingSound
        <3>2. \A d \in Setting : calls'[d] = calls[d] /\ d \in Setting'
            BY <1>2, <1>4 DEF Setting
        <3>3. QED
            BY <1>1, <1>5, <2>2, <3>1, <3>2
    <2>3. QED
        BY <1>5, <2>1, <2>2
<1>8. \A d \in Setting' : calls'[d].transfer \in 0 .. Len(funded')
    <2>1. \A d \in Setting : calls'[d] = calls[d] /\ calls[d].transfer \in 0 .. n
        BY <1>2, <1>4 DEF Setting, FundingSound
    <2>2. QED
        BY <1>1, <1>4, <1>5, <2>1
<1>9. Cardinality(Recent') + Cardinality(Funding') <= Cardinality(Callers)
    <2>1. Cardinality(Funding') + 1 <= Cardinality(Funding)
        BY <1>4, FundingTyped, OneCallerLess
    <2>2. IsFiniteSet(Recent) /\ Cardinality(Recent) \in Nat
        BY RecentFinite
    <2>3. Recent' \subseteq Recent \cup {calls'[c].transfer}
        BY <1>1, <1>5 DEF Recent
    <2>4. PICK i : i = calls'[c].transfer
        OBVIOUS
    <2>5. /\ IsFiniteSet(Recent \cup {i})
          /\ \/ Cardinality(Recent \cup {i}) = Cardinality(Recent)
             \/ Cardinality(Recent \cup {i}) = Cardinality(Recent) + 1
        BY <2>2, FS_AddElement
    <2>6. Cardinality(Recent') \in Nat /\ Cardinality(Recent') <= Cardinality(Recent \cup {i})
        BY <2>3, <2>4, <2>5, FS_Subset, FS_CardinalityType
    <2>7. Cardinality(Recent) + Cardinality(Funding) <= Cardinality(Callers)
        BY DEF FundingSound
    <2>8. QED
        BY <2>1, <2>2, <2>5, <2>6, <2>7, FundingTyped
<1>10. /\ lastCreated' \in Int /\ lastCreated' <= present'
       /\ lost' \subseteq DOMAIN funded'
    BY <1>1, <1>5 DEF FundingSound
<1>11. QED
    BY <1>1, <1>5, <1>6, <1>7, <1>8, <1>9, <1>10 DEF FundingSound

(* The limit is set to the present, which no transfer is later than.       *)
LEMMA EndFundingFunds ==
    ASSUME AccountsSound, FundingSound, NEW c \in Callers, EndFunding(c)
    PROVE  FundingSound'
<1>1. /\ UNCHANGED <<present, funded, lost>> /\ lastCreated' = present /\ present \in Nat
    BY AccountsAssumption DEF EndFunding, SetsLimit, memo, paid, paid, AccountsSound, ClockTyped
<1>2. /\ calls'[c].at = "idle" /\ \A d \in Callers \ {c} : calls'[d] = calls[d]
    BY DEF EndFunding, Returns, Proceeds, Idle, AccountsSound, Before, AccountsTyped
<1>3. /\ Recent' = Recent /\ Funding' \subseteq Funding
      /\ Setting' \subseteq Setting /\ \A d \in Setting' : calls'[d] = calls[d]
    BY <1>1, <1>2 DEF Recent, Funding, Setting
<1>4. Cardinality(Recent') + Cardinality(Funding') <= Cardinality(Callers)
    BY <1>3, FundingFewer
<1>5. \A i \in DOMAIN funded' : funded'[i] <= present' /\ funded'[i] <= lastCreated'
    BY <1>1 DEF FundingSound
<1>6. \A d \in Setting' : calls'[d].transfer \in 0 .. Len(funded')
    BY <1>1, <1>3 DEF FundingSound
<1>7. /\ funded' \in Seq(Nat) /\ lastCreated' \in Int /\ lastCreated' <= present'
      /\ lost' \subseteq DOMAIN funded'
    BY <1>1 DEF FundingSound
<1>8. QED
    BY <1>4, <1>5, <1>6, <1>7 DEF FundingSound

(* A call that is cut before it sets the limit takes its transfer with it. *)
LEMMA CutFunds ==
    ASSUME AccountsSound, FundingSound, NEW c \in Callers, CutShort(c)
    PROVE  FundingSound'
<1>1. UNCHANGED <<present, funded, lastCreated>> /\ present \in Nat
    BY AccountsAssumption DEF CutShort, AccountsSound, ClockTyped
<1>2. /\ calls'[c].at = "idle" /\ \A d \in Callers \ {c} : calls'[d] = calls[d]
    BY DEF CutShort, Returns, Proceeds, Idle, AccountsSound, Before, AccountsTyped
<1>3. /\ Funding' \subseteq Funding /\ Setting' = Setting \ {c}
      /\ \A d \in Setting' : calls'[d] = calls[d]
    BY <1>2 DEF Funding, Setting
<1>4. CASE calls[c].at # "limit"
    <2>1. lost' = lost
        BY <1>4 DEF CutShort, CallAt
    <2>2. Aside
        BY <1>2, <1>4 DEF Aside
    <2>3. QED
        BY <1>1, <2>1, <2>2, FundingKept DEF AccountsSound
<1>5. CASE calls[c].at = "limit"
    <2>1. lost' = lost \cup ({calls[c].transfer} \ {0}) /\ c \in Setting
        BY <1>5 DEF CutShort, CallAt, Setting
    <2>2. calls[c].transfer \in 0 .. Len(funded) /\ Len(funded) \in Nat
          /\ DOMAIN funded = 1 .. Len(funded)
        BY <2>1 DEF FundingSound
    <2>3. lost' \subseteq DOMAIN funded'
        BY <1>1, <2>1, <2>2 DEF FundingSound
    <2>4. Recent' \subseteq Recent
        BY <1>1, <2>1 DEF Recent
    <2>5. \A i \in DOMAIN funded' \ lost' :
              funded'[i] <= lastCreated' \/ \E d \in Setting' : calls'[d].transfer = i
        <3>. SUFFICES ASSUME NEW i \in DOMAIN funded \ lost'
                      PROVE  funded[i] <= lastCreated \/ \E d \in Setting' : calls'[d].transfer = i
            BY <1>1
        <3>1. funded[i] <= lastCreated \/ \E d \in Setting : calls[d].transfer = i
            BY <2>1 DEF FundingSound
        <3>2. calls[c].transfer # i
            BY <2>1, <2>2
        <3>3. QED
            BY <1>3, <3>1, <3>2
    <2>6. Cardinality(Recent') + Cardinality(Funding') <= Cardinality(Callers)
        BY <1>3, <2>4, FundingFewer
    <2>7. \A d \in Setting' : calls'[d].transfer \in 0 .. Len(funded')
        BY <1>1, <1>3 DEF FundingSound
    <2>8. QED
        BY <1>1, <2>3, <2>5, <2>6, <2>7 DEF FundingSound
<1>6. QED
    BY <1>4, <1>5

LEMMA FundingStep ==
    AccountsSound /\ FundingSound /\ [AccountsNext]_accountVars => FundingSound'
<1>. SUFFICES ASSUME AccountsSound, FundingSound, [AccountsNext]_accountVars
              PROVE  FundingSound'
    OBVIOUS
<1>1. present \in Nat /\ ClockTyped /\ AccountsTyped /\ Before
    BY AccountsAssumption DEF AccountsSound, ClockTyped, Before
<1>2. ASSUME NEW c \in Callers, NEW call, Proceeds(c, call),
             call.at \notin {"fund", "limit"}, calls[c].at # "limit",
             UNCHANGED <<present, lastCreated, paid>>
      PROVE  FundingSound'
    <2>1. calls'[c] = call /\ \A d \in Callers \ {c} : calls'[d] = calls[d]
        BY <1>1, <1>2 DEF Proceeds, AccountsTyped
    <2>2. Aside
        BY <1>2, <2>1 DEF Aside
    <2>3. QED
        BY <1>1, <1>2, <2>2, FundingKept DEF paid
<1>3. ASSUME NEW c \in Callers, Returns(c), calls[c].at # "limit",
             UNCHANGED <<present, lastCreated, paid>>
      PROVE  FundingSound'
    <2>1. Idle.at = "idle"
        BY DEF Idle
    <2>2. QED
        BY <1>2, <1>3, <2>1 DEF Returns
<1>4. ASSUME NEW c \in Callers, NEW e \in Emails, NEW p \in Passwords,
             \/ \E w \in Wallets : CheckEmail(c, e, p, w)
             \/ \E new \in Passwords : CheckCurrent(c, e, p, new)
      PROVE  FundingSound'
    <2>1. ASSUME NEW w \in Wallets, CheckEmail(c, e, p, w) PROVE FundingSound'
        BY <1>2, <2>1 DEF CheckEmail, CallAt, memo
    <2>2. ASSUME NEW new \in Passwords, CheckCurrent(c, e, p, new) PROVE FundingSound'
        BY <1>2, <2>2 DEF CheckCurrent, CallAt, memo
    <2>3. QED
        BY <1>4, <2>1, <2>2, Zenon
<1>4a. ASSUME NEW c \in Callers, NEW e \in Emails, ForgotPassword(c, e)
      PROVE  FundingSound'
    BY <1>4a, <1>2 DEF ForgotPassword, CallAt, memo
<1>5. ASSUME NEW c \in Callers, NEW e \in Emails, NEW p \in Passwords, Login(c, e, p)
      PROVE  FundingSound'
    <2>1. /\ calls[c].at = "idle" /\ calls'[c].at \in {"rehash", "answer"}
          /\ \A d \in Callers \ {c} : calls'[d] = calls[d]
        BY <1>1, <1>5 DEF Login, CallAt, Proceeds, AccountsTyped
    <2>2. UNCHANGED <<present, lastCreated, funded, lost>>
        BY <1>5 DEF Login, memo, paid
    <2>3. Aside
        BY <2>1 DEF Aside
    <2>4. QED
        BY <1>1, <2>2, <2>3, FundingKept
<1>6. ASSUME NEW c \in Callers, CreateAccount(c) PROVE FundingSound'
    BY <1>2, <1>3, <1>6 DEF CreateAccount, CallAt, memo
<1>7. ASSUME NEW c \in Callers, NEW from, NEW to,
             \/ from = "rehash" /\ to = "answer"
             \/ from = "account" /\ to = "write"
             \/ from = "write" /\ to = "mark",
             calls[c].at = from, Proceeds(c, [calls[c] EXCEPT !.at = to]),
             UNCHANGED <<present, lastCreated, paid>>
      PROVE  FundingSound'
    <2>1. [calls[c] EXCEPT !.at = to].at = to
        BY <1>1, <1>7, WaitingGoesOn DEF AccountsTyped
    <2>2. QED
        BY <1>2, <1>7, <2>1
<1>8. ASSUME NEW c \in Callers, Rehash(c) \/ WritePassword(c) PROVE FundingSound'
    BY <1>7, <1>8, Zenon DEF Rehash, WritePassword, CallAt, memo
<1>9. ASSUME NEW c \in Callers, ReadAccount(c) PROVE FundingSound'
    <2>1. calls[c].at = "account" /\ UNCHANGED <<present, lastCreated, paid>>
        BY <1>9 DEF ReadAccount, CallAt, memo
    <2>2. Returns(c) \/ Proceeds(c, [calls[c] EXCEPT !.at = "write"])
        BY <1>9, Zenon DEF ReadAccount
    <2>3. QED
        BY <1>3, <1>7, <2>1, <2>2, Zenon
<1>10. ASSUME NEW c \in Callers, NEW t \in DOMAIN tokens, NEW p \in Passwords,
              CheckLink(c, t, p)
       PROVE  FundingSound'
    BY <1>2, <1>10 DEF CheckLink, CallAt, memo
<1>11. ASSUME NEW c \in Callers,
              \/ Answer(c) \/ ResetPassword(c) \/ SendMail(c) \/ ConfirmReset(c)
       PROVE  FundingSound'
    BY <1>3, <1>11 DEF Answer, ResetPassword, SendMail, ConfirmReset, CallAt, memo
<1>12. ASSUME NEW c \in Callers, Call(c) PROVE FundingSound'
    BY <1>4a, <1>4, <1>5, <1>6, <1>8, <1>9, <1>10, <1>11, <1>12, CheckRateFunds,
       SendTransferFunds, EndFundingFunds, CutFunds, Zenon DEF Call
<1>13. CASE TimePasses
    <2>1. /\ UNCHANGED <<calls, lastCreated, funded, lost>>
          /\ present' \in Nat /\ present <= present'
        BY <1>1, <1>13 DEF TimePasses, memo, paid
    <2>2. Aside
        BY <2>1 DEF Aside
    <2>3. QED
        BY <1>1, <2>1, <2>2, FundingKept
<1>14. CASE ColdStart
    <2>1. /\ funded' = << >> /\ lost' = {} /\ lastCreated' = -FundingGap /\ present' = present
          /\ Recent' = {} /\ Funding' = {} /\ Setting' = {}
        BY <1>14 DEF ColdStart, Recent, Funding, Setting, Idle
    <2>2. QED
        <3>1. Cardinality(Recent') = 0 /\ Cardinality(Funding') = 0
            BY <2>1, FS_EmptySet
        <3>2. QED
            BY <1>1, <2>1, <3>1, FundingTyped, AccountsAssumption DEF FundingSound
<1>15. CASE UNCHANGED accountVars
    <2>1. Aside
        BY <1>15 DEF Aside, accountVars
    <2>2. QED
        BY <1>1, <1>15, <2>1, FundingKept DEF accountVars, memo, paid
<1>16. QED
    BY <1>12, <1>13, <1>14, <1>15, Zenon DEF AccountsNext

LEMMA FundingInit == AccountsInit => FundingSound
<1>. SUFFICES ASSUME AccountsInit PROVE FundingSound
    OBVIOUS
<1>1. /\ funded = << >> /\ lost = {} /\ lastCreated = -FundingGap /\ present = 0
      /\ Recent = {} /\ Funding = {} /\ Setting = {}
    BY DEF AccountsInit, Recent, Funding, Setting, Idle
<1>2. Cardinality(Recent) = 0 /\ Cardinality(Funding) = 0
    BY <1>1, FS_EmptySet
<1>3. QED
    BY <1>1, <1>2, FundingTyped, AccountsAssumption DEF FundingSound

(* Within the gap no more transfers than there can be calls at a time, but *)
(* for those of calls that were cut, for every length of the gap.          *)
THEOREM FundingDoesStayLimited == AccountsSpec => []FundingIsLimited
<1>1. FundingSound => FundingIsLimited
    <2>. SUFFICES ASSUME FundingSound PROVE FundingIsLimited
        OBVIOUS
    <2>1. Cardinality(Recent) + Cardinality(Funding) <= Cardinality(Callers)
        BY DEF FundingSound
    <2>2. QED
        BY <2>1, RecentFinite, FundingTyped DEF FundingIsLimited, Recent
<1>2. QED
    BY <1>1, FundingInit, FundingStep, SoundAlways, PTL DEF AccountsSpec

-----------------------------------------------------------------------------
(* The tables, the answers given and the counters keep their types.        *)
THEOREM AccountsTypes == AccountsSpec => []AccountsTypeOK
<1>1. AccountsSound /\ SpentSound /\ FundingSound => AccountsTypeOK
    BY DEF AccountsSound, Before, ClockTyped, AccountsTyped, SpentSound, FundingSound,
       AccountsTypeOK, Tokens
<1>2. QED
    BY <1>1, SoundAlways, SpentInit, SpentStep, FundingInit, FundingStep, PTL DEF AccountsSpec

-----------------------------------------------------------------------------
(* The session wallet of a browser with one tab                            *)

SomeKey == KeyPairs \cup {None}
Showing == KeyPairs \cup {None, External}
Entry   == Payload \cup {None}

Steps == {"idle", "check", "clear", "register", "wrap", "newKey", "put", "read", "unwrap",
          "renew", "dropKey", "dropPayload"}
Afters == {"none", "load", "migrate", "migrated", "recover", "recovered", "resign", "login",
           "save", "legacy", "sign", "export"}

TabState == [at: Steps, shown: Showing, key: SomeKey, aes: Nat, read: Entry, after: Afters]

(* What a tab w relies on, of the entries a, p and b.                      *)
TabSound(w, a, p, b) ==
    /\ w \in TabState
    /\ w.at \in StoreSteps \cup DropSteps \cup {"check", "register"} => w.key \in KeyPairs
    /\ w.at \in {"newKey", "renew"} => a = 0 /\ w.aes \in AesKeys
    /\ w.at = "put" => a = w.aes /\ a \in AesKeys
    /\ w.at = "unwrap" => w.read = p /\ p # None
    /\ w.at \in DropSteps => w.key = b /\ b # None
    /\ w.at \in ReadSteps /\ w.after = "sign" => w.shown # None

WalletTyped ==
    /\ aes \in 0 .. MaxAes /\ made \in Nat
    /\ payload \in Entry /\ backup \in SomeKey
    /\ accounts \subseteq KeyPairs

(* Whoever is in the secure store has put all others above: they were      *)
(* given up, or the server has them.                                       *)
OneAbove == payload # None => owned \ {payload.key} \subseteq givenUp \cup accounts

WalletSound(t) ==
    /\ WalletTyped /\ OneAbove /\ KeysKept
    /\ tab \in [{t} -> TabState] /\ TabSound(tab[t], aes, payload, backup)

LEMMA GoesThere ==
    ASSUME NEW t, tab \in [{t} -> TabState], NEW w \in TabState, Goes(t, w)
    PROVE  tab' \in [{t} -> TabState] /\ tab'[t] = w
BY DEF Goes

LEMMA RestingSound ==
    ASSUME NEW shown \in Showing, NEW a, NEW p, NEW b
    PROVE  TabSound(Resting(shown), a, p, b)
<1>. PICK w : w = Resting(shown)
    OBVIOUS
<1>. PICK key \in SomeKey, read \in Entry : key = None /\ read = None
    BY DEF SomeKey, Entry
<1>0. w = [at |-> "idle", shown |-> shown, key |-> key, aes |-> 0, read |-> read, after |-> "none"]
    BY DEF Resting
<1>1. w \in TabState /\ w.at = "idle"
    BY <1>0 DEF TabState, Steps, Afters
<1>2. TabSound(w, a, p, b)
    BY <1>1 DEF TabSound, StoreSteps, DropSteps, ReadSteps
<1>3. QED
    BY <1>2

LEMMA ReadsSound ==
    ASSUME NEW t, NEW w \in TabState, w = tab[t], NEW next \in Afters,
           next = "sign" => w.shown # None, NEW a, NEW p, NEW b
    PROVE  TabSound(Reads(t, next), a, p, b)
<1>. PICK new : new = [w EXCEPT !.at = "read", !.after = next]
    OBVIOUS
<1>1. new \in TabState /\ new.at = "read" /\ new.after = next /\ new.shown = w.shown
    BY DEF TabState, Steps
<1>2. TabSound(new, a, p, b)
    BY <1>1 DEF TabSound, StoreSteps, DropSteps, ReadSteps
<1>3. QED
    BY <1>2 DEF Reads

LEMMA SavesSound ==
    ASSUME NEW t, NEW w \in TabState, w = tab[t], NEW next \in Afters, NEW k \in KeyPairs,
           NEW a, NEW p, NEW b
    PROVE  /\ TabSound(Saves(t, k, next), a, p, b)
           /\ TabSound([Saves(t, k, next) EXCEPT !.shown = k], a, p, b)
<1>. PICK key \in SomeKey, shown \in Showing : key = k /\ shown = k
    BY DEF SomeKey, Showing
<1>. PICK new : new = [w EXCEPT !.at = "wrap", !.key = key, !.after = next]
    OBVIOUS
<1>1. new \in TabState /\ new.at = "wrap" /\ new.key = k
    BY DEF TabState, Steps
<1>2. TabSound(new, a, p, b)
    BY <1>1 DEF TabSound, StoreSteps, DropSteps, ReadSteps
<1>. PICK copied : copied = [new EXCEPT !.shown = shown]
    OBVIOUS
<1>3. copied \in TabState /\ copied.at = "wrap" /\ copied.key = k
    BY <1>1, ZenonT(60) DEF TabState, Steps
<1>4. TabSound(copied, a, p, b)
    BY <1>3 DEF TabSound, StoreSteps, DropSteps, ReadSteps
<1>5. QED
    BY <1>2, <1>4 DEF Saves

LEMMA ConnectingSound ==
    ASSUME NEW t, NEW w \in TabState, w = tab[t], backup \in SomeKey,
           NEW a, NEW p, NEW b
    PROVE  TabSound(Connecting(t), a, p, b)
<1>1. CASE backup = None
    <2>1. "load" \in Afters /\ "load" # "sign"
        BY DEF Afters
    <2>2. TabSound(Reads(t, "load"), a, p, b)
        BY <2>1, ReadsSound
    <2>3. QED
        BY <1>1, <2>2 DEF Connecting
<1>2. CASE backup # None
    <2>. PICK k \in SomeKey : k = backup /\ k \in KeyPairs
        BY <1>2 DEF SomeKey
    <2>. PICK new : new = [w EXCEPT !.at = "check", !.key = k]
        OBVIOUS
    <2>1. new \in TabState /\ new.at = "check" /\ new.key = k
        BY DEF TabState, Steps
    <2>2. TabSound(new, a, p, b)
        BY <2>1 DEF TabSound, StoreSteps, DropSteps, ReadSteps
    <2>3. QED
        BY <1>2, <2>2 DEF Connecting
<1>3. QED
    BY <1>1, <1>2

(* How a tab goes on when a read has ended: only a signature made with the *)
(* key that was read removes the copy in localStorage.                     *)
LEMMA ResolveSound ==
    ASSUME NEW t, tab \in [{t} -> TabState], NEW w \in TabState, w = tab[t], WalletTyped,
           w.after = "sign" => w.shown # None,
           NEW k \in SomeKey, Resolve(t, k), NEW a, NEW p
    PROVE  /\ tab' \in [{t} -> TabState] /\ TabSound(tab'[t], a, p, backup')
           /\ backup' = backup \/ (backup' = None /\ k = w.shown /\ k # None)
<1>0. backup \in SomeKey /\ w.shown \in Showing /\ None \in Showing
    BY DEF WalletTyped, TabState, Showing
<1>1. SUFFICES \E new : /\ Goes(t, new) /\ TabSound(new, a, p, backup')
                        /\ backup' = backup \/ (backup' = None /\ k = w.shown /\ k # None)
    BY GoesThere DEF TabSound
<1>2. CASE w.after = "migrated" /\ Goes(t, Reads(t, "load")) /\ UNCHANGED backup
    <2>1. "load" \in Afters /\ "load" # "sign"
        BY DEF Afters
    <2>2. TabSound(Reads(t, "load"), a, p, backup')
        BY <2>1, ReadsSound
    <2>3. QED
        BY <1>2, <2>2
<1>3. CASE /\ w.after = "load" /\ UNCHANGED backup
           /\ Goes(t, IF k # None THEN Resting(k)
                      ELSE IF backup = None THEN Resting(None)
                      ELSE [Saves(t, backup, "legacy") EXCEPT !.shown = backup])
    <2>1. CASE k # None
        <3>1. k \in Showing
            BY <2>1 DEF SomeKey, Showing
        <3>2. QED
            BY <1>3, <2>1, <3>1, RestingSound
    <2>2. CASE k = None /\ backup = None
        BY <1>0, <1>3, <2>2, RestingSound
    <2>3. CASE k = None /\ backup # None
        <3>. PICK old \in KeyPairs : old = backup
            BY <1>0, <2>3 DEF SomeKey
        <3>1. "legacy" \in Afters
            BY DEF Afters
        <3>2. TabSound([Saves(t, old, "legacy") EXCEPT !.shown = old], a, p, backup')
            BY <3>1, SavesSound
        <3>3. Goes(t, [Saves(t, old, "legacy") EXCEPT !.shown = old])
            BY <1>3, <2>3
        <3>4. QED
            BY <1>3, <3>2, <3>3
    <2>4. QED
        BY <2>1, <2>2, <2>3
<1>4. CASE /\ w.after = "sign"
           /\ backup' = IF DropsBackup(t, k) THEN None ELSE backup
           /\ Goes(t, IF Signs(t, k) \/ backup = None THEN Resting(tab[t].shown)
                      ELSE [tab[t] EXCEPT !.at = "dropKey", !.key = backup])
    <2>1. Signs(t, k) <=> k = w.shown
        BY DEF Signs
    <2>2. CASE k = w.shown
        <3>1. backup' = None /\ k # None /\ Goes(t, Resting(w.shown))
            BY <1>4, <2>1, <2>2 DEF DropsBackup
        <3>2. QED
            BY <1>0, <2>2, <3>1, RestingSound
    <2>3. CASE k # w.shown /\ backup = None
        <3>1. backup' = backup /\ Goes(t, Resting(w.shown))
            BY <1>4, <2>1, <2>3 DEF DropsBackup
        <3>2. QED
            BY <1>0, <3>1, RestingSound
    <2>4. CASE k # w.shown /\ backup # None
        <3>1. backup' = backup /\ Goes(t, [w EXCEPT !.at = "dropKey", !.key = backup])
            BY <1>4, <2>1, <2>4 DEF DropsBackup
        <3>. PICK old \in SomeKey : old = backup /\ old \in KeyPairs
            BY <1>0, <2>4 DEF SomeKey
        <3>. PICK new : new = [w EXCEPT !.at = "dropKey", !.key = old]
            OBVIOUS
        <3>2. new \in TabState /\ new.at = "dropKey" /\ new.key = old
            BY DEF TabState, Steps
        <3>3. TabSound(new, a, p, old)
            BY <2>4, <3>2 DEF TabSound, StoreSteps, DropSteps, ReadSteps
        <3>4. QED
            BY <3>1, <3>3
    <2>5. QED
        BY <2>2, <2>3, <2>4
<1>5. CASE /\ w.after = "recovered"
           /\ IF k = None THEN LegacySign(t) ELSE Goes(t, Reads(t, "resign")) /\ UNCHANGED backup
    <2>1. CASE k = None
        BY <1>0, <1>5, <2>1, RestingSound DEF LegacySign, Rests
    <2>2. CASE k # None
        <3>1. "resign" \in Afters /\ "resign" # "sign"
            BY DEF Afters
        <3>2. TabSound(Reads(t, "resign"), a, p, backup')
            BY <3>1, ReadsSound
        <3>3. QED
            BY <1>5, <2>2, <3>2
    <2>3. QED
        BY <2>1, <2>2
<1>6. CASE w.after = "resign" /\ Rests(t) /\ UNCHANGED backup
    BY <1>0, <1>6, RestingSound DEF Rests
<1>7. CASE /\ w.after = "export" /\ UNCHANGED backup
           /\ Goes(t, IF k = None /\ backup = None THEN Resting(tab[t].shown)
                      ELSE [tab[t] EXCEPT !.at = "register", !.key = SessionPrivateKey(k)])
    <2>1. CASE k = None /\ backup = None
        BY <1>0, <1>7, <2>1, RestingSound
    <2>2. CASE ~(k = None /\ backup = None)
        <3>. PICK out \in SomeKey : out = SessionPrivateKey(k) /\ out \in KeyPairs
            BY <1>0, <2>2 DEF SessionPrivateKey, SomeKey
        <3>. PICK new : new = [w EXCEPT !.at = "register", !.key = out]
            OBVIOUS
        <3>1. Goes(t, new)
            BY <1>7, <2>2
        <3>2. new \in TabState /\ new.at = "register" /\ new.key = out
            BY DEF TabState, Steps
        <3>3. TabSound(new, a, p, backup')
            BY <3>2 DEF TabSound, StoreSteps, DropSteps, ReadSteps
        <3>4. QED
            BY <1>7, <3>1, <3>3
    <2>3. QED
        BY <2>1, <2>2
<1>8. QED
    BY <1>2, <1>3, <1>4, <1>5, <1>6, <1>7, Zenon DEF Resolve

(* The keys are kept by a step that gives nothing up.                      *)
LEMMA KeysStay ==
    ASSUME KeysKept, UNCHANGED <<owned, givenUp>>, accounts \subseteq accounts',
           Held \subseteq Held'
    PROVE  KeysKept'
BY DEF KeysKept

(* A step of the tab that leaves the stores alone.                         *)
LEMMA TabMoves ==
    ASSUME NEW t, WalletSound(t), UNCHANGED <<stores, owned, givenUp>>,
           made' \in Nat, accounts' \subseteq KeyPairs, accounts \subseteq accounts',
           NEW w, Goes(t, w), TabSound(w, aes, payload, backup)
    PROVE  WalletSound(t)'
<1>1. tab' \in [{t} -> TabState] /\ tab'[t] = w
    BY GoesThere DEF WalletSound, TabSound
<1>2. UNCHANGED <<aes, payload, backup>>
    BY DEF stores
<1>3. TabSound(tab'[t], aes', payload', backup')
    BY <1>1, <1>2
<1>4. Held' = Held
    BY <1>2 DEF Held, Readable
<1>5. KeysKept'
    BY <1>4, KeysStay DEF WalletSound
<1>6. WalletTyped' /\ OneAbove'
    BY <1>2 DEF WalletSound, WalletTyped, OneAbove
<1>7. QED
    BY <1>1, <1>3, <1>5, <1>6 DEF WalletSound

(* The end of a read that gave k: a copy that is removed was of the key    *)
(* the secure store holds, or of one that was given up.                    *)
LEMMA ReadEnds ==
    ASSUME NEW t, WalletSound(t), tab[t].at \in ReadSteps, NEW k \in SomeKey, Resolve(t, k),
           UNCHANGED <<payload, accounts, owned, givenUp>>, aes' \in 0 .. MaxAes, made' \in Nat,
           Readable \subseteq Readable',
           k # None => payload # None /\ payload.key = k /\ k \in Readable'
    PROVE  WalletSound(t)'
<1>1. WalletTyped /\ tab \in [{t} -> TabState] /\ TabSound(tab[t], aes, payload, backup)
      /\ KeysKept /\ OneAbove
    BY DEF WalletSound
<1>2. PICK w \in TabState : w = tab[t]
    BY <1>1
<1>3. w.after = "sign" => w.shown # None
    BY <1>1, <1>2 DEF TabSound
<1>. PICK a : a = aes'
    OBVIOUS
<1>. PICK p : p = payload'
    OBVIOUS
<1>4. /\ tab' \in [{t} -> TabState] /\ TabSound(tab'[t], a, p, backup')
      /\ backup' = backup \/ (backup' = None /\ k = w.shown /\ k # None)
    BY <1>1, <1>2, <1>3, ResolveSound
<1>5. WalletTyped'
    BY <1>1, <1>4 DEF WalletTyped, SomeKey
<1>6. OneAbove'
    BY <1>1 DEF OneAbove
<1>7. ASSUME NEW h \in owned \ givenUp PROVE h \in Held' \cup accounts'
    <2>1. h \in Held \cup accounts
        BY <1>1 DEF KeysKept
    <2>2. CASE h \in Readable \/ h \in accounts \/ backup' = backup
        BY <2>1, <2>2 DEF Held
    <2>3. CASE h = k /\ k # None
        BY <2>3 DEF Held
    <2>4. CASE h # k /\ k # None
        BY <1>1, <2>4 DEF OneAbove
    <2>5. QED
        BY <1>4, <2>2, <2>3, <2>4
<1>8. KeysKept'
    BY <1>7 DEF KeysKept
<1>9. QED
    BY <1>4, <1>5, <1>6, <1>8 DEF WalletSound

LEMMA NothingReadable ==
    ASSUME WalletTyped, aes = 0
    PROVE  Readable = {}
<1>1. payload # None => payload \in Payload
    BY DEF WalletTyped, Entry
<1>2. payload # None => payload.under # 0
    BY <1>1, WalletAssumption DEF Payload, AesKeys
<1>3. QED
    BY <1>2 DEF Readable

LEMMA ReadNothingSound ==
    ASSUME NEW t, WalletSound(t), ReadNothing(t)
    PROVE  WalletSound(t)'
<1>1. /\ tab[t].at \in ReadSteps /\ Resolve(t, None)
      /\ UNCHANGED <<aes, payload, accounts, owned, givenUp, made>>
    BY DEF ReadNothing, At, past, ReadSteps
<1>2. PICK k \in SomeKey : k = None
    BY DEF SomeKey
<1>3. aes' \in 0 .. MaxAes /\ made' \in Nat /\ Readable' = Readable
    BY <1>1 DEF WalletSound, WalletTyped, Readable
<1>4. QED
    BY <1>1, <1>2, <1>3, ReadEnds

LEMMA RenewSound ==
    ASSUME NEW t, WalletSound(t), Renew(t)
    PROVE  WalletSound(t)'
<1>1. /\ tab[t].at = "renew" /\ aes' = tab[t].aes /\ Resolve(t, None)
      /\ UNCHANGED <<payload, accounts, owned, givenUp, made>>
    BY DEF Renew, At
<1>2. PICK k \in SomeKey : k = None
    BY DEF SomeKey
<1>3. aes = 0 /\ tab[t].aes \in AesKeys /\ WalletTyped
    BY <1>1 DEF WalletSound, TabSound
<1>4. aes' \in 0 .. MaxAes /\ made' \in Nat
    BY <1>1, <1>3, WalletAssumption DEF AesKeys, WalletTyped
<1>5. Readable = {}
    BY <1>3, NothingReadable
<1>6. tab[t].at \in ReadSteps
    BY <1>1 DEF ReadSteps
<1>7. QED
    BY <1>1, <1>2, <1>4, <1>5, <1>6, ReadEnds

LEMMA UnwrapSound ==
    ASSUME NEW t, WalletSound(t), Unwrap(t)
    PROVE  WalletSound(t)'
<1>1. /\ tab[t].at = "unwrap" /\ tab[t].at \in ReadSteps
      /\ UNCHANGED <<aes, payload, accounts, owned, givenUp>>
    BY DEF Unwrap, At, past, ReadSteps
<1>2. WalletTyped /\ tab[t].read = payload /\ payload # None
    BY <1>1 DEF WalletSound, TabSound
<1>3. payload \in Payload /\ payload.key \in KeyPairs
    BY <1>2 DEF WalletTyped, Entry, Payload
<1>4. aes' \in 0 .. MaxAes /\ Readable' = Readable
    BY <1>1, <1>2 DEF WalletTyped, Readable
<1>5. CASE /\ Resolve(t, IF tab[t].read.under = aes THEN tab[t].read.key ELSE None)
           /\ UNCHANGED made
    <2>1. PICK k \in SomeKey : k = IF payload.under = aes THEN payload.key ELSE None
        BY <1>3 DEF SomeKey
    <2>2. Resolve(t, k) /\ made' \in Nat
        BY <1>2, <1>5, <2>1 DEF WalletTyped
    <2>3. k # None => payload # None /\ payload.key = k /\ k \in Readable
        BY <1>2, <2>1 DEF Readable
    <2>4. QED
        BY <1>1, <1>4, <2>2, <2>3, ReadEnds
<1>6. CASE aes = 0 /\ Generate(t, "renew") /\ UNCHANGED backup
    <2>. PICK w \in TabState : w = tab[t]
        BY DEF WalletSound
    <2>1. PICK n \in Nat : n = made + 1 /\ n \in AesKeys
        BY <1>2, <1>6, WalletAssumption DEF WalletTyped, Generate, AesKeys
    <2>. PICK new : new = [w EXCEPT !.at = "renew", !.aes = n]
        OBVIOUS
    <2>2. /\ new \in TabState /\ new.at = "renew" /\ new.aes = n
          /\ new.after = w.after /\ new.shown = w.shown
        BY DEF TabState, Steps
    <2>3. Goes(t, new) /\ made' = n
        BY <1>6, <2>1 DEF Generate
    <2>4. w.after = "sign" => w.shown # None
        BY <1>1 DEF WalletSound, TabSound
    <2>5. TabSound(new, aes, payload, backup)
        BY <1>6, <2>1, <2>2, <2>4 DEF TabSound, StoreSteps, DropSteps, ReadSteps
    <2>6. UNCHANGED <<stores, owned, givenUp>> /\ accounts' = accounts /\ accounts \subseteq KeyPairs
        BY <1>1, <1>2, <1>6 DEF stores, WalletTyped
    <2>7. QED
        BY <2>3, <2>5, <2>6, TabMoves
<1>7. QED
    BY <1>5, <1>6 DEF Unwrap

-----------------------------------------------------------------------------
(* The steps of a store                                                    *)

LEMMA WrapSound ==
    ASSUME NEW t, WalletSound(t), Wrap(t)
    PROVE  WalletSound(t)'
<1>1. WalletTyped /\ TabSound(tab[t], aes, payload, backup)
      /\ tab[t].at = "wrap" /\ UNCHANGED <<stores, owned, givenUp, accounts>>
    BY DEF WalletSound, Wrap, At, past
<1>. PICK w \in TabState : w = tab[t]
    BY DEF WalletSound
<1>2. w.key \in KeyPairs /\ w.after \in Afters
    BY <1>1 DEF TabSound, StoreSteps, TabState
<1>3. CASE aes # 0 /\ Goes(t, [tab[t] EXCEPT !.at = "put", !.aes = aes]) /\ UNCHANGED made
    <2>. PICK a \in Nat : a = aes
        BY <1>1, WalletAssumption DEF WalletTyped
    <2>. PICK new : new = [w EXCEPT !.at = "put", !.aes = a]
        OBVIOUS
    <2>1. new \in TabState /\ new.at = "put" /\ new.aes = a /\ new.key = w.key
        BY DEF TabState, Steps
    <2>2. a \in AesKeys
        BY <1>1, <1>3, WalletAssumption DEF WalletTyped, AesKeys
    <2>3. TabSound(new, aes, payload, backup)
        BY <1>2, <2>1, <2>2 DEF TabSound, StoreSteps, DropSteps, ReadSteps
    <2>4. Goes(t, new)
        BY <1>3
    <2>5. QED
        BY <1>1, <1>3, <2>3, <2>4, TabMoves DEF WalletTyped
<1>4. CASE aes = 0 /\ Generate(t, "newKey")
    <2>1. PICK n \in Nat : n = made + 1 /\ n \in AesKeys
        BY <1>1, <1>4, WalletAssumption DEF WalletTyped, Generate, AesKeys
    <2>. PICK new : new = [w EXCEPT !.at = "newKey", !.aes = n]
        OBVIOUS
    <2>2. new \in TabState /\ new.at = "newKey" /\ new.aes = n /\ new.key = w.key
        BY DEF TabState, Steps
    <2>3. TabSound(new, aes, payload, backup)
        BY <1>2, <1>4, <2>1, <2>2 DEF TabSound, StoreSteps, DropSteps, ReadSteps
    <2>4. Goes(t, new) /\ made' = n
        BY <1>4, <2>1 DEF Generate
    <2>5. QED
        BY <1>1, <2>3, <2>4, TabMoves DEF WalletTyped
<1>5. QED
    BY <1>3, <1>4 DEF Wrap

LEMMA NewKeySound ==
    ASSUME NEW t, WalletSound(t), NewKey(t)
    PROVE  WalletSound(t)'
<1>1. WalletTyped /\ KeysKept /\ OneAbove /\ TabSound(tab[t], aes, payload, backup)
      /\ tab \in [{t} -> TabState]
    BY DEF WalletSound
<1>2. /\ tab[t].at = "newKey" /\ aes' = tab[t].aes
      /\ Goes(t, [tab[t] EXCEPT !.at = "put"])
      /\ UNCHANGED <<payload, backup, made, accounts, owned, givenUp>>
    BY DEF NewKey, At
<1>. PICK w \in TabState : w = tab[t]
    BY <1>1
<1>3. aes = 0 /\ w.aes \in AesKeys /\ w.key \in KeyPairs
    BY <1>1, <1>2 DEF TabSound, StoreSteps
<1>. PICK new : new = [w EXCEPT !.at = "put"]
    OBVIOUS
<1>4. new \in TabState /\ new.at = "put" /\ new.aes = w.aes /\ new.key = w.key
    BY DEF TabState, Steps
<1>5. TabSound(new, aes', payload', backup')
    BY <1>2, <1>3, <1>4 DEF TabSound, StoreSteps, DropSteps, ReadSteps
<1>6. tab' \in [{t} -> TabState] /\ tab'[t] = new
    BY <1>1, <1>2, <1>4, GoesThere
<1>7. KeysKept'
    <2>1. Held \subseteq Held'
        BY <1>1, <1>2, <1>3, NothingReadable DEF Held
    <2>2. QED
        BY <1>1, <1>2, <2>1, KeysStay
<1>8. WalletTyped' /\ OneAbove'
    BY <1>1, <1>2, <1>3, WalletAssumption DEF WalletTyped, OneAbove, AesKeys
<1>9. QED
    BY <1>5, <1>6, <1>7, <1>8 DEF WalletSound

LEMMA AfterStoreSound ==
    ASSUME NEW t, NEW w \in TabState, w = tab[t], backup \in SomeKey, w.key \in KeyPairs,
           NEW a, NEW p, NEW b
    PROVE  TabSound(AfterStore(t), a, p, b)
<1>. PICK k \in KeyPairs : k = w.key
    OBVIOUS
<1>0. /\ "migrated" \in Afters /\ "recovered" \in Afters /\ "save" \in Afters
      /\ w.shown \in Showing
    BY DEF Afters, TabState
<1>1. CASE w.after = "migrate"
    <2>1. TabSound(Reads(t, "migrated"), a, p, b)
        BY <1>0, ReadsSound
    <2>2. QED
        BY <1>1, <2>1 DEF AfterStore
<1>2. CASE w.after = "recover"
    <2>1. TabSound(Reads(t, "recovered"), a, p, b)
        BY <1>0, ReadsSound
    <2>2. AfterStore(t) = Reads(t, "recovered")
        BY <1>2 DEF AfterStore
    <2>3. QED
        BY <2>1, <2>2
<1>3. CASE w.after = "login"
    <2>1. TabSound(Saves(t, k, "save"), a, p, b)
        BY <1>0, SavesSound
    <2>2. AfterStore(t) = Saves(t, k, "save")
        BY <1>3 DEF AfterStore
    <2>3. QED
        BY <2>1, <2>2
<1>4. CASE w.after = "save" /\ w.shown = None
    <2>1. AfterStore(t) = Connecting(t)
        BY <1>4 DEF AfterStore
    <2>2. QED
        BY <2>1, ConnectingSound
<1>5. CASE /\ w.after \notin {"migrate", "recover", "login"}
           /\ ~(w.after = "save" /\ w.shown = None)
    <2>1. AfterStore(t) = Resting(w.shown)
        BY <1>5 DEF AfterStore
    <2>2. QED
        BY <1>0, <2>1, RestingSound
<1>6. QED
    BY <1>1, <1>2, <1>3, <1>4, <1>5

(* What is stored can be read, and all other keys are given up.            *)
LEMMA PutSound ==
    ASSUME NEW t, WalletSound(t), Put(t)
    PROVE  WalletSound(t)'
<1>1. WalletTyped /\ TabSound(tab[t], aes, payload, backup) /\ tab \in [{t} -> TabState]
    BY DEF WalletSound
<1>. PICK w \in TabState : w = tab[t]
    BY <1>1
<1>. PICK key : key = w.key
    OBVIOUS
<1>2. /\ w.at = "put" /\ payload' = [key |-> key, under |-> w.aes]
      /\ owned' = owned \cup {key}
      /\ givenUp' = (givenUp \cup (owned \ {key})) \ {key}
      /\ Goes(t, AfterStore(t)) /\ UNCHANGED <<aes, backup, made, accounts>>
    BY DEF Put, At
<1>3. aes = w.aes /\ aes \in AesKeys /\ key \in KeyPairs
    BY <1>1, <1>2 DEF TabSound, StoreSteps
<1>4. payload' \in Payload /\ payload'.key = key /\ payload'.under = aes
    BY <1>2, <1>3 DEF Payload
<1>5. payload' # None
    <2>1. Payload \subseteq [key: KeyPairs, under: Nat]
        BY WalletAssumption DEF Payload, AesKeys
    <2>2. QED
        BY <1>4, <2>1, WalletAssumption
<1>6. WalletTyped'
    BY <1>1, <1>2, <1>4 DEF WalletTyped, Entry
<1>7. key \in Held'
    BY <1>2, <1>4, <1>5 DEF Held, Readable
<1>8. KeysKept' /\ OneAbove'
    BY <1>2, <1>4, <1>7 DEF KeysKept, OneAbove
<1>. PICK new : new = AfterStore(t)
    OBVIOUS
<1>. PICK a : a = aes'
    OBVIOUS
<1>. PICK p : p = payload'
    OBVIOUS
<1>. PICK b : b = backup'
    OBVIOUS
<1>9. TabSound(new, a, p, b)
    <2>1. backup \in SomeKey /\ w.key \in KeyPairs
        BY <1>1, <1>3 DEF WalletTyped
    <2>2. QED
        BY <2>1, AfterStoreSound
<1>10. tab' \in [{t} -> TabState] /\ tab'[t] = new
    BY <1>1, <1>2, <1>9, GoesThere DEF TabSound
<1>11. QED
    BY <1>6, <1>8, <1>9, <1>10 DEF WalletSound

LEMMA DropKeySound ==
    ASSUME NEW t, WalletSound(t), DropKey(t)
    PROVE  WalletSound(t)'
<1>1. WalletTyped /\ TabSound(tab[t], aes, payload, backup) /\ tab \in [{t} -> TabState]
      /\ KeysKept /\ OneAbove
    BY DEF WalletSound
<1>. PICK w \in TabState : w = tab[t]
    BY <1>1
<1>2. /\ w.at = "dropKey" /\ aes' = 0 /\ givenUp' = givenUp \cup (Readable \ {w.key})
      /\ Goes(t, [w EXCEPT !.at = "dropPayload"])
      /\ UNCHANGED <<payload, backup, made, accounts, owned>>
    BY DEF DropKey, At
<1>3. w.key = backup /\ backup # None /\ w.key \in KeyPairs
    BY <1>1, <1>2 DEF TabSound, DropSteps
<1>. PICK new : new = [w EXCEPT !.at = "dropPayload"]
    OBVIOUS
<1>4. new \in TabState /\ new.at = "dropPayload" /\ new.key = w.key
    BY DEF TabState, Steps
<1>5. TabSound(new, aes', payload', backup')
    BY <1>2, <1>3, <1>4 DEF TabSound, StoreSteps, DropSteps, ReadSteps
<1>6. tab' \in [{t} -> TabState] /\ tab'[t] = new
    BY <1>1, <1>2, <1>4, GoesThere
<1>7. KeysKept'
    <2>1. \A k \in owned \ givenUp' : k \in {backup} \cup accounts
        BY <1>1, <1>2, <1>3 DEF KeysKept, Held
    <2>2. QED
        BY <1>2, <1>3, <2>1 DEF KeysKept, Held
<1>8. WalletTyped' /\ OneAbove'
    BY <1>1, <1>2, WalletAssumption DEF WalletTyped, OneAbove
<1>9. QED
    BY <1>5, <1>6, <1>7, <1>8 DEF WalletSound

LEMMA DropPayloadSound ==
    ASSUME NEW t, WalletSound(t), DropPayload(t)
    PROVE  WalletSound(t)'
<1>1. WalletTyped /\ TabSound(tab[t], aes, payload, backup) /\ tab \in [{t} -> TabState]
      /\ KeysKept /\ OneAbove
    BY DEF WalletSound
<1>. PICK w \in TabState : w = tab[t]
    BY <1>1
<1>2. /\ w.at = "dropPayload" /\ payload' = None
      /\ givenUp' = givenUp \cup (Readable \ {w.key})
      /\ Goes(t, Saves(t, w.key, "recover"))
      /\ UNCHANGED <<aes, backup, made, accounts, owned>>
    BY DEF DropPayload, At
<1>3. w.key = backup /\ backup # None /\ w.key \in KeyPairs
    BY <1>1, <1>2 DEF TabSound, DropSteps
<1>. PICK new : new = Saves(t, w.key, "recover")
    OBVIOUS
<1>. PICK a : a = aes'
    OBVIOUS
<1>. PICK p : p = payload'
    OBVIOUS
<1>. PICK b : b = backup'
    OBVIOUS
<1>4. TabSound(new, a, p, b)
    <2>1. "recover" \in Afters
        BY DEF Afters
    <2>2. QED
        BY <1>3, <2>1, SavesSound
<1>6. tab' \in [{t} -> TabState] /\ tab'[t] = new
    BY <1>1, <1>2, <1>4, GoesThere DEF TabSound
<1>7. KeysKept'
    <2>1. \A k \in owned \ givenUp' : k \in {backup} \cup accounts
        BY <1>1, <1>2, <1>3 DEF KeysKept, Held
    <2>2. QED
        BY <1>2, <1>3, <2>1 DEF KeysKept, Held
<1>8. WalletTyped' /\ OneAbove'
    BY <1>1, <1>2 DEF WalletTyped, OneAbove, Entry
<1>9. QED
    BY <1>4, <1>6, <1>7, <1>8 DEF WalletSound

LEMMA ClearSound ==
    ASSUME NEW t, WalletSound(t), ClearSessionWallet(t)
    PROVE  WalletSound(t)'
<1>1. WalletTyped /\ tab \in [{t} -> TabState]
    BY DEF WalletSound
<1>2. /\ payload' \in {None, payload} /\ backup' = None /\ givenUp' = owned
      /\ Goes(t, Resting(None)) /\ UNCHANGED <<aes, made, accounts, owned>>
    BY DEF ClearSessionWallet
<1>. PICK new : new = Resting(None)
    OBVIOUS
<1>. PICK a : a = aes'
    OBVIOUS
<1>. PICK p : p = payload'
    OBVIOUS
<1>. PICK b : b = backup'
    OBVIOUS
<1>3. TabSound(new, a, p, b)
    BY RestingSound DEF Showing
<1>4. tab' \in [{t} -> TabState] /\ tab'[t] = new
    BY <1>1, <1>2, <1>3, GoesThere DEF TabSound
<1>5. WalletTyped' /\ OneAbove' /\ KeysKept'
    BY <1>1, <1>2 DEF WalletTyped, OneAbove, KeysKept, Entry, SomeKey
<1>6. QED
    BY <1>3, <1>4, <1>5 DEF WalletSound

-----------------------------------------------------------------------------
(* The steps of the user                                                   *)

LEMMA ConnectSound ==
    ASSUME NEW t, WalletSound(t), StartTrading(t) \/ AutoConnect(t) \/ SelectExternal(t)
    PROVE  WalletSound(t)'
<1>. PICK w \in TabState : w = tab[t]
    BY DEF WalletSound
<1>. PICK going : going = Connecting(t)
    OBVIOUS
<1>. PICK out : out = Resting(External)
    OBVIOUS
<1>1. WalletTyped /\ TabSound(w, aes, payload, backup)
    BY DEF WalletSound
<1>2. TabSound(going, aes, payload, backup) /\ TabSound(out, aes, payload, backup)
    BY <1>1, ConnectingSound, RestingSound DEF WalletTyped, Showing
<1>3. UNCHANGED <<stores, owned, givenUp, made, accounts>>
    BY DEF StartTrading, Connect, AutoConnect, SelectExternal, past
<1>4. Goes(t, going) \/ Goes(t, out) \/ tab' = tab
    BY DEF StartTrading, Connect, AutoConnect, SelectExternal
<1>5. tab' = tab => Goes(t, w)
    BY DEF Goes, WalletSound
<1>6. QED
    BY <1>1, <1>2, <1>3, <1>4, <1>5, TabMoves DEF WalletTyped

LEMMA CheckSound ==
    ASSUME NEW t, WalletSound(t), HasStoredKey(t)
    PROVE  WalletSound(t)'
<1>. PICK w \in TabState : w = tab[t]
    BY DEF WalletSound
<1>1. WalletTyped /\ w.key \in KeyPairs
    BY DEF WalletSound, TabSound, HasStoredKey, At
<1>. PICK k \in KeyPairs : k = w.key
    BY <1>1
<1>. PICK reads : reads = Reads(t, "load")
    OBVIOUS
<1>. PICK saves : saves = Saves(t, k, "migrate")
    OBVIOUS
<1>2. TabSound(reads, aes, payload, backup) /\ TabSound(saves, aes, payload, backup)
    <2>1. "load" \in Afters /\ "load" # "sign" /\ "migrate" \in Afters
        BY DEF Afters
    <2>2. QED
        BY <2>1, ReadsSound, SavesSound
<1>3. UNCHANGED <<stores, owned, givenUp, made, accounts>> /\ (Goes(t, reads) \/ Goes(t, saves))
    BY DEF HasStoredKey, past
<1>4. QED
    BY <1>1, <1>2, <1>3, TabMoves DEF WalletTyped

LEMMA ReadSound ==
    ASSUME NEW t, WalletSound(t), Read(t)
    PROVE  WalletSound(t)'
<1>. PICK w \in TabState : w = tab[t]
    BY DEF WalletSound
<1>1. WalletTyped /\ TabSound(w, aes, payload, backup) /\ w.at = "read" /\ payload # None
      /\ UNCHANGED <<stores, owned, givenUp, made, accounts>>
      /\ Goes(t, [w EXCEPT !.at = "unwrap", !.read = payload])
    BY DEF WalletSound, Read, At, past
<1>. PICK p \in Entry : p = payload
    BY <1>1 DEF WalletTyped
<1>. PICK new : new = [w EXCEPT !.at = "unwrap", !.read = p]
    OBVIOUS
<1>2. /\ new \in TabState /\ new.at = "unwrap" /\ new.read = p
      /\ new.after = w.after /\ new.shown = w.shown
    BY DEF TabState, Steps
<1>3. w.after = "sign" => w.shown # None
    BY <1>1 DEF TabSound, ReadSteps
<1>4. TabSound(new, aes, payload, backup)
    BY <1>1, <1>2, <1>3 DEF TabSound, StoreSteps, DropSteps, ReadSteps
<1>5. QED
    BY <1>1, <1>4, TabMoves DEF WalletTyped

LEMMA AsksSound ==
    ASSUME NEW t, WalletSound(t), SignTransaction(t) \/ ModalSignup(t)
    PROVE  WalletSound(t)'
<1>. PICK w \in TabState : w = tab[t]
    BY DEF WalletSound
<1>. PICK sign : sign = Reads(t, "sign")
    OBVIOUS
<1>. PICK export : export = Reads(t, "export")
    OBVIOUS
<1>1. WalletTyped /\ UNCHANGED <<stores, owned, givenUp, made, accounts>>
    BY DEF WalletSound, SignTransaction, ModalSignup, past
<1>2. "sign" \in Afters /\ "export" \in Afters /\ "export" # "sign"
    BY DEF Afters
<1>3. CASE SignTransaction(t)
    <2>1. w.shown # None /\ Goes(t, sign)
        BY <1>3, WalletAssumption DEF SignTransaction
    <2>2. TabSound(sign, aes, payload, backup)
        BY <1>2, <2>1, ReadsSound
    <2>3. QED
        BY <1>1, <2>1, <2>2, TabMoves DEF WalletTyped
<1>4. CASE ModalSignup(t)
    <2>1. Goes(t, export)
        BY <1>4 DEF ModalSignup
    <2>2. TabSound(export, aes, payload, backup)
        BY <1>2, ReadsSound
    <2>3. QED
        BY <1>1, <2>1, <2>2, TabMoves DEF WalletTyped
<1>5. QED
    BY <1>3, <1>4

LEMMA StoresSound ==
    ASSUME NEW t, WalletSound(t), NEW k \in KeyPairs,
           CreateGuestWallet(t, k) \/ HandleLogin(t, k)
    PROVE  WalletSound(t)'
<1>. PICK w \in TabState : w = tab[t]
    BY DEF WalletSound
<1>. PICK save : save = Saves(t, k, "save")
    OBVIOUS
<1>. PICK login : login = Saves(t, k, "login")
    OBVIOUS
<1>1. TabSound(save, aes, payload, backup) /\ TabSound(login, aes, payload, backup)
    <2>1. "save" \in Afters /\ "login" \in Afters
        BY DEF Afters
    <2>2. QED
        BY <2>1, SavesSound
<1>2. WalletTyped /\ UNCHANGED <<stores, owned, givenUp, made, accounts>>
      /\ (Goes(t, save) \/ Goes(t, login))
    BY DEF WalletSound, CreateGuestWallet, HandleLogin, past
<1>3. QED
    BY <1>1, <1>2, TabMoves DEF WalletTyped

LEMMA LandingSound ==
    ASSUME NEW t, WalletSound(t), NEW k \in KeyPairs, LandingSignup(t, k)
    PROVE  WalletSound(t)'
<1>1. WalletTyped /\ TabSound(tab[t], aes, payload, backup) /\ tab \in [{t} -> TabState]
      /\ KeysKept /\ OneAbove
    BY DEF WalletSound
<1>. PICK w \in TabState : w = tab[t]
    BY <1>1
<1>2. /\ accounts' = accounts \cup {k} /\ owned' = owned \cup {k}
      /\ UNCHANGED <<aes, payload, backup, made, givenUp>>
    BY DEF LandingSignup, stores
<1>. PICK save : save = Saves(t, k, "save")
    OBVIOUS
<1>3. TabSound(save, aes, payload, backup)
    <2>1. "save" \in Afters
        BY DEF Afters
    <2>2. QED
        BY <2>1, SavesSound
<1>4. Goes(t, save) \/ tab' = tab
    BY DEF LandingSignup
<1>5. tab' \in [{t} -> TabState] /\ TabSound(tab'[t], aes', payload', backup')
    <2>1. CASE Goes(t, save)
        BY <1>1, <1>2, <1>3, <2>1, GoesThere DEF TabSound
    <2>2. CASE tab' = tab
        BY <1>1, <1>2, <2>2
    <2>3. QED
        BY <1>4, <2>1, <2>2
<1>6. KeysKept'
    BY <1>1, <1>2 DEF KeysKept, Held, Readable
<1>7. WalletTyped' /\ OneAbove'
    BY <1>1, <1>2 DEF WalletTyped, OneAbove
<1>8. QED
    BY <1>5, <1>6, <1>7 DEF WalletSound

LEMMA QuietSound ==
    ASSUME NEW t, WalletSound(t), Register(t) \/ Disconnect(t) \/ SaveLastWallet(t) \/ Close(t)
    PROVE  WalletSound(t)'
<1>1. WalletTyped /\ TabSound(tab[t], aes, payload, backup) /\ tab \in [{t} -> TabState]
    BY DEF WalletSound
<1>. PICK w \in TabState : w = tab[t]
    BY <1>1
<1>. PICK rests : rests = Resting(w.shown)
    OBVIOUS
<1>. PICK none : none = Resting(None)
    OBVIOUS
<1>2. TabSound(rests, aes, payload, backup) /\ TabSound(none, aes, payload, backup)
    BY RestingSound DEF Showing, TabState
<1>3. CASE Register(t)
    <2>1. UNCHANGED <<stores, owned, givenUp, made>> /\ Goes(t, rests)
          /\ accounts' \in {accounts, accounts \cup {w.key}}
        BY <1>3 DEF Register, Rests, past
    <2>2. w.key \in KeyPairs
        BY <1>1, <1>3 DEF Register, At, TabSound
    <2>3. QED
        BY <1>1, <1>2, <2>1, <2>2, TabMoves DEF WalletTyped
<1>4. CASE Disconnect(t)
    <2>. PICK clear : clear = [w EXCEPT !.at = "clear"]
        OBVIOUS
    <2>1. clear \in TabState /\ clear.at = "clear"
        BY DEF TabState, Steps
    <2>2. TabSound(clear, aes, payload, backup)
        BY <2>1 DEF TabSound, StoreSteps, DropSteps, ReadSteps
    <2>3. UNCHANGED <<stores, owned, givenUp, made, accounts>> /\ (Goes(t, none) \/ Goes(t, clear))
        BY <1>4 DEF Disconnect, past
    <2>4. QED
        BY <1>1, <1>2, <2>2, <2>3, TabMoves DEF WalletTyped
<1>5. CASE SaveLastWallet(t)
    <2>1. UNCHANGED <<stores, owned, givenUp, made, accounts>> /\ Goes(t, w)
        BY <1>1, <1>5 DEF SaveLastWallet, Goes, past
    <2>2. QED
        BY <1>1, <2>1, TabMoves DEF WalletTyped
<1>6. CASE Close(t)
    <2>1. UNCHANGED <<stores, owned, givenUp, made, accounts>> /\ Goes(t, none)
        BY <1>6 DEF Close, past
    <2>2. QED
        BY <1>1, <1>2, <2>1, TabMoves DEF WalletTyped
<1>7. QED
    BY <1>3, <1>4, <1>5, <1>6

LEMMA RejectSound ==
    ASSUME NEW t, WalletSound(t), Reject(t)
    PROVE  WalletSound(t)'
<1>1. WalletTyped /\ TabSound(tab[t], aes, payload, backup) /\ tab \in [{t} -> TabState]
      /\ UNCHANGED <<aes, payload, made, accounts, owned, givenUp>>
    BY DEF WalletSound, Reject, past
<1>. PICK w \in TabState : w = tab[t]
    BY <1>1
<1>. PICK rests : rests = Resting(w.shown)
    OBVIOUS
<1>. PICK reads : reads = Reads(t, "load")
    OBVIOUS
<1>. PICK saves : saves = Saves(t, w.key, "migrate")
    OBVIOUS
<1>2. CASE tab[t].at \in ReadSteps /\ Resolve(t, None)
    <2>1. PICK k \in SomeKey : k = None
        BY DEF SomeKey
    <2>2. aes' \in 0 .. MaxAes /\ made' \in Nat /\ Readable' = Readable
        BY <1>1 DEF WalletTyped, Readable
    <2>3. QED
        BY <1>1, <1>2, <2>1, <2>2, ReadEnds
<1>3. CASE /\ UNCHANGED backup /\ Goes(t, saves) /\ w.at = "check"
    <2>1. w.key \in KeyPairs /\ "migrate" \in Afters
        BY <1>1, <1>3 DEF TabSound, Afters
    <2>2. TabSound(saves, aes, payload, backup)
        BY <2>1, SavesSound
    <2>3. QED
        BY <1>1, <1>3, <2>2, TabMoves DEF WalletTyped, stores
<1>4. CASE UNCHANGED backup /\ (Goes(t, reads) \/ Goes(t, rests))
    <2>1. "load" \in Afters /\ "load" # "sign" /\ w.shown \in Showing
        BY DEF Afters, TabState
    <2>2. TabSound(reads, aes, payload, backup) /\ TabSound(rests, aes, payload, backup)
        BY <2>1, ReadsSound, RestingSound
    <2>3. QED
        BY <1>1, <1>4, <2>2, TabMoves DEF WalletTyped, stores
<1>5. QED
    BY <1>2, <1>3, <1>4, Zenon DEF Reject, At, Rests

LEMMA WalletStart ==
    ASSUME NEW t, Tabs = {t}, WalletInit
    PROVE  WalletSound(t)
<1>1. /\ aes = 0 /\ made = 0 /\ payload = None /\ backup \in KeyPairs \cup {None}
      /\ accounts = {} /\ owned = {backup} \ {None} /\ givenUp = {}
      /\ tab = [s \in {t} |-> Resting(None)]
    BY DEF WalletInit
<1>. PICK none : none = Resting(None)
    OBVIOUS
<1>2. TabSound(none, aes, payload, backup)
    BY RestingSound DEF Showing
<1>3. tab \in [{t} -> TabState] /\ tab[t] = none
    BY <1>1, <1>2 DEF TabSound
<1>4. WalletTyped
    BY <1>1, WalletAssumption DEF WalletTyped, Entry, SomeKey
<1>5. OneAbove /\ KeysKept
    BY <1>1 DEF OneAbove, KeysKept, Held
<1>6. QED
    BY <1>2, <1>3, <1>4, <1>5 DEF WalletSound

LEMMA WalletStep ==
    ASSUME NEW t, Tabs = {t}, WalletSound(t), [WalletNext]_walletVars
    PROVE  WalletSound(t)'
<1>1. CASE UNCHANGED walletVars
    <2>1. UNCHANGED <<aes, payload, backup, tab, made, accounts, owned, givenUp>>
        BY <1>1 DEF walletVars, stores, past
    <2>2. QED
        BY <2>1 DEF WalletSound, WalletTyped, OneAbove, KeysKept, Held, Readable
<1>2. CASE Step(t)
    <2>1. CASE \E k \in KeyPairs : CreateGuestWallet(t, k) \/ HandleLogin(t, k) \/ LandingSignup(t, k)
        BY <2>1, StoresSound, LandingSound, Zenon
    <2>2. QED
        BY <1>2, <2>1, ConnectSound, CheckSound, WrapSound, NewKeySound, PutSound, ReadSound,
           ReadNothingSound, UnwrapSound, RenewSound, AsksSound, DropKeySound, DropPayloadSound,
           QuietSound, ClearSound, RejectSound, Zenon DEF Step
<1>3. QED
    BY <1>1, <1>2 DEF WalletNext

(* In a browser with one tab, however the user comes and goes, whatever    *)
(* access to IndexedDB fails and wherever the tab is closed, a key that    *)
(* has been there stays within reach until the user disconnects or stores  *)
(* another.  Of two tabs this does not hold.                               *)
THEOREM KeysAreKept ==
    ASSUME NEW t, Tabs = {t}
    PROVE  WalletSpec => []KeysKept
<1>1. WalletInit => WalletSound(t)
    BY WalletStart
<1>2. WalletSound(t) /\ [WalletNext]_walletVars => WalletSound(t)'
    BY WalletStep
<1>3. WalletSound(t) => KeysKept
    BY DEF WalletSound
<1>4. QED
    BY <1>1, <1>2, <1>3, PTL DEF WalletSpec

=============================================================================
