------------------------------ MODULE Accounts ------------------------------
(***************************************************************************)
(* The account routes of the web application (app/api) over their          *)
(* PostgreSQL tables.  A route runs as a serverless call that awaits each  *)
(* query, so calls interleave between the queries, and a call may end at   *)
(* any of them: a query throws or the platform stops it.  What a call has  *)
(* read stays in its local variables (calls[c]) while the tables change.   *)
(*                                                                         *)
(* History variables: told, the wallets that answers have named to the     *)
(* owner of an e-mail; resets, the passwords written through a link, and   *)
(* allowed, how many those can become once the link has been confirmed;    *)
(* funded, the times of the transfers to new wallets since the last cold   *)
(* start, and lost, those whose call was cut before it set the limit.      *)
(***************************************************************************)
EXTENDS Integers, Sequences, FiniteSets

CONSTANTS
    Emails, Passwords, Wallets,
    Callers,        \* calls that may be under way at once
    LinkLife,       \* 15 minutes in the code
    FundingGap,     \* an hour in the code
    NoRow,
    MaxTokens, LastTime,     \* bounds on the links and the clock
    MaxCuts               \* bound on calls cut short and cold starts

Hashes == [kind: {"bcrypt", "pbkdf2", "argon2"}, password: Passwords]
Row    == [hash: Hashes, wallet: Wallets]

ASSUME AccountsAssumption ==
    /\ IsFiniteSet(Callers) /\ NoRow \notin Row
    /\ LinkLife \in Nat /\ FundingGap \in Nat \ {0}
    /\ MaxTokens \in Nat /\ LastTime \in Nat /\ MaxCuts \in Nat

VARIABLES
    rows,           \* table wallets, by its unique e-mail
    tokens,         \* table password_reset_tokens
    mailed,         \* links that reached the owner of the e-mail
    calls, present,
    lastCreated,    \* ipTimestamps, for one address
    told, resets, allowed, funded, lost, cuts

tables == <<rows, tokens>>
uses   == <<resets, allowed>>
paid   == <<funded, lost>>
memo   == <<told, uses, paid>>
accountVars == <<tables, mailed, calls, present, lastCreated, memo, cuts>>

Idle   == [at |-> "idle"]

(* hashPassword.                                                           *)
Bcrypt(password) == [kind |-> "bcrypt", password |-> password]

(* verifyPassword: an argon2 hash verifies nothing.                        *)
Verifies(hash, password) == hash.kind # "argon2" /\ hash.password = password

IsLegacyHash(hash) == hash.kind # "bcrypt"

(* Rows of earlier deployments hold hashes of the older kinds.             *)
AccountsInit ==
    /\ rows \in [Emails -> Row \cup {NoRow}]
    /\ tokens = << >> /\ mailed = {}
    /\ calls = [c \in Callers |-> Idle]
    /\ present = 0 /\ lastCreated = -FundingGap
    /\ told = {}
    /\ resets = [t \in 1 .. MaxTokens |-> 0] /\ allowed = resets
    /\ funded = << >> /\ lost = {} /\ cuts = 0

AccountsTypeOK ==
    /\ rows \in [Emails -> Row \cup {NoRow}]
    /\ tokens \in Seq([email: Emails, expires: Nat, used: BOOLEAN])
    /\ mailed \subseteq DOMAIN tokens
    /\ present \in 0 .. LastTime /\ cuts \in 0 .. MaxCuts
    /\ told \subseteq Emails \X Wallets
    /\ resets \in [1 .. MaxTokens -> Nat] /\ allowed \in [1 .. MaxTokens -> Nat]
    /\ lost \subseteq DOMAIN funded

-----------------------------------------------------------------------------
(* The queries of lib/db.ts.                                               *)
EmailExists(e)    == rows[e] # NoRow
AccountByEmail(e) == rows[e]
ResetToken(t)     == tokens[t]
NewResetToken(e)  == [email |-> e, expires |-> present + LinkLife, used |-> FALSE]

Proceeds(c, call) == calls' = [calls EXCEPT ![c] = call]
Returns(c)  == Proceeds(c, Idle)
CallAt(c, p) == calls[c].at = p

(* updatePasswordHash: an UPDATE by id that checks nothing about the row.  *)
SetHash(e, hash) == rows' = [rows EXCEPT ![e].hash = hash]

-----------------------------------------------------------------------------
(* signup: emailExists, then the insert, which the unique e-mail refuses   *)
(* to the later of two calls, then the session and the answer.             *)
CheckEmail(c, e, p, w) ==
    /\ CallAt(c, "idle") /\ ~EmailExists(e)
    /\ Proceeds(c, [at |-> "insert", email |-> e, password |-> p, wallet |-> w])
    /\ UNCHANGED <<tables, mailed, present, lastCreated, memo, cuts>>

(* Mutant: an insert that takes the place of the row there is.             *)
Anyway(e) == TRUE

Unique(e) == rows[e] = NoRow

CreateAccount(c) ==
    /\ CallAt(c, "insert")
    /\ LET e == calls[c].email IN
       \/ /\ Unique(e)
          /\ rows' = [rows EXCEPT ![e] = [hash |-> Bcrypt(calls[c].password), wallet |-> calls[c].wallet]]
          /\ Proceeds(c, [at |-> "answer", email |-> e, wallet |-> calls[c].wallet])
       \/ ~Unique(e) /\ Returns(c) /\ UNCHANGED rows
    /\ UNCHANGED <<tokens, mailed, present, lastCreated, memo, cuts>>

(* login: getAccountByEmail and verifyPassword; a legacy hash is replaced  *)
(* from the row read before; then the session and the wallet.              *)
Login(c, e, p) ==
    /\ CallAt(c, "idle") /\ EmailExists(e) /\ Verifies(AccountByEmail(e).hash, p)
    /\ Proceeds(c, [at |-> IF IsLegacyHash(AccountByEmail(e).hash) THEN "rehash" ELSE "answer",
                email |-> e, password |-> p, wallet |-> AccountByEmail(e).wallet])
    /\ UNCHANGED <<tables, mailed, present, lastCreated, memo, cuts>>

Rehash(c) ==
    /\ CallAt(c, "rehash")
    /\ SetHash(calls[c].email, Bcrypt(calls[c].password))
    /\ Proceeds(c, [calls[c] EXCEPT !.at = "answer"])
    /\ UNCHANGED <<tokens, mailed, present, lastCreated, memo, cuts>>

(* The answer of signup and of login: the session names the wallet.        *)
Answer(c) ==
    /\ CallAt(c, "answer") /\ Returns(c)
    /\ told' = told \cup {<<calls[c].email, calls[c].wallet>>}
    /\ UNCHANGED <<tables, mailed, present, lastCreated, uses, paid, cuts>>

(* reset-password: the current password, then the new one.                 *)
CheckCurrent(c, e, p, new) ==
    /\ CallAt(c, "idle") /\ EmailExists(e) /\ Verifies(AccountByEmail(e).hash, p)
    /\ Proceeds(c, [at |-> "replace", email |-> e, password |-> new])
    /\ UNCHANGED <<tables, mailed, present, lastCreated, memo, cuts>>

ResetPassword(c) ==
    /\ CallAt(c, "replace")
    /\ SetHash(calls[c].email, Bcrypt(calls[c].password))
    /\ Returns(c)
    /\ UNCHANGED <<tokens, mailed, present, lastCreated, memo, cuts>>

-----------------------------------------------------------------------------
(* forgot-password: a link is stored, then mailed; whether the mail goes   *)
(* out changes nothing in the answer.                                      *)
ForgotPassword(c, e) ==
    /\ CallAt(c, "idle") /\ EmailExists(e) /\ Len(tokens) < MaxTokens
    /\ tokens' = Append(tokens, NewResetToken(e))
    /\ Proceeds(c, [at |-> "mail", token |-> Len(tokens) + 1])
    /\ UNCHANGED <<rows, mailed, present, lastCreated, memo, cuts>>

SendMail(c) ==
    /\ CallAt(c, "mail") /\ Returns(c)
    /\ \/ mailed' = mailed \cup {calls[c].token}
       \/ UNCHANGED mailed
    /\ UNCHANGED <<tables, present, lastCreated, memo, cuts>>

(* reset-password-with-token: the link is checked, the account read, the   *)
(* password written and the link marked, each in a query of its own.       *)
Usable(t) == ~ResetToken(t).used /\ present <= ResetToken(t).expires

CheckLink(c, t, p) ==
    /\ CallAt(c, "idle") /\ t \in mailed /\ Usable(t)
    /\ Proceeds(c, [at |-> "account", token |-> t, password |-> p])
    /\ UNCHANGED <<tables, mailed, present, lastCreated, memo, cuts>>

ReadAccount(c) ==
    /\ CallAt(c, "account")
    /\ IF ~EmailExists(ResetToken(calls[c].token).email) THEN Returns(c)
       ELSE Proceeds(c, [calls[c] EXCEPT !.at = "write"])
    /\ UNCHANGED <<tables, mailed, present, lastCreated, memo, cuts>>

WritePassword(c) ==
    /\ CallAt(c, "write")
    /\ SetHash(ResetToken(calls[c].token).email, Bcrypt(calls[c].password))
    /\ resets' = [resets EXCEPT ![calls[c].token] = @ + 1]
    /\ Proceeds(c, [calls[c] EXCEPT !.at = "mark"])
    /\ UNCHANGED <<tokens, mailed, present, lastCreated, told, allowed, paid, cuts>>

(* Mutant: the link is not marked.                                         *)
Unmarked(t) == UNCHANGED tokens

MarkResetTokenUsed(t) == tokens' = [tokens EXCEPT ![t].used = TRUE]

(* The calls that have passed the check of a link and not yet written.     *)
Holders(t) == {c \in Callers : calls[c].at \in {"account", "write"} /\ calls[c].token = t}

ConfirmReset(c) ==
    /\ CallAt(c, "mark") /\ MarkResetTokenUsed(calls[c].token) /\ Returns(c)
    /\ LET t == calls[c].token IN
       allowed' = [allowed EXCEPT ![t] = IF @ > 0 THEN @ ELSE resets[t] + Cardinality(Holders(t))]
    /\ UNCHANGED <<rows, mailed, present, lastCreated, told, resets, paid, cuts>>

-----------------------------------------------------------------------------
(* create-session-wallet: one wallet an hour and address.  The limit is    *)
(* read before the awaits and set after them.                              *)
CheckRate(c) ==
    /\ CallAt(c, "idle") /\ present - lastCreated >= FundingGap
    /\ Proceeds(c, [at |-> "fund"])
    /\ UNCHANGED <<tables, mailed, present, lastCreated, memo, cuts>>

(* The transfer is sent, or there is no relayer or something fails before; *)
(* its confirmation is awaited.                                            *)
SendTransfer(c) ==
    /\ CallAt(c, "fund")
    /\ \/ /\ funded' = Append(funded, present)
          /\ Proceeds(c, [at |-> "limit", transfer |-> Len(funded) + 1])
       \/ Proceeds(c, [at |-> "limit", transfer |-> 0]) /\ UNCHANGED funded
    /\ UNCHANGED <<tables, mailed, present, lastCreated, told, uses, lost, cuts>>

(* Mutant: the limit is not set.                                           *)
Forgets(t) == UNCHANGED lastCreated

SetsLimit(t) == lastCreated' = t

(* The confirmation is there or has failed, which is answered the same.    *)
EndFunding(c) ==
    /\ CallAt(c, "limit") /\ SetsLimit(present) /\ Returns(c)
    /\ UNCHANGED <<tables, mailed, present, memo, cuts>>

-----------------------------------------------------------------------------
TimePasses ==
    /\ present < LastTime /\ present' = present + 1
    /\ UNCHANGED <<tables, mailed, calls, lastCreated, memo, cuts>>

Cut == cuts < MaxCuts /\ cuts' = cuts + 1

CutShort(c) ==
    /\ ~CallAt(c, "idle") /\ Cut /\ Returns(c)
    /\ lost' = lost \cup IF CallAt(c, "limit") THEN {calls[c].transfer} \ {0} ELSE {}
    /\ UNCHANGED <<tables, mailed, present, lastCreated, told, uses, funded>>

(* The process is started anew: its memory holds no limit.                 *)
ColdStart ==
    /\ Cut
    /\ lastCreated' = -FundingGap /\ funded' = << >> /\ lost' = {}
    /\ calls' = [c \in Callers |-> Idle]
    /\ UNCHANGED <<tables, mailed, present, told, uses>>

Call(c) ==
    \/ \E e \in Emails, p \in Passwords :
          \/ \E w \in Wallets : CheckEmail(c, e, p, w)
          \/ Login(c, e, p)
          \/ \E new \in Passwords : CheckCurrent(c, e, p, new)
    \/ CreateAccount(c) \/ Rehash(c) \/ Answer(c) \/ ResetPassword(c)
    \/ \E e \in Emails : ForgotPassword(c, e)
    \/ SendMail(c)
    \/ \E t \in DOMAIN tokens, p \in Passwords : CheckLink(c, t, p)
    \/ ReadAccount(c) \/ WritePassword(c) \/ ConfirmReset(c)
    \/ CheckRate(c) \/ SendTransfer(c) \/ EndFunding(c)
    \/ CutShort(c)

AccountsNext == (\E c \in Callers : Call(c)) \/ TimePasses \/ ColdStart

AccountsSpec == AccountsInit /\ [][AccountsNext]_accountVars

-----------------------------------------------------------------------------
(* The wallet an answer names to the owner of an e-mail is the wallet of   *)
(* the row from then on, so that its key can be had again by a login: two  *)
(* sign-ups with one e-mail that both pass the check do not both succeed.  *)
WalletsHonoured == \A a \in told : rows[a[1]] # NoRow /\ rows[a[1]].wallet = a[2]

(* Once a link has been confirmed the password is written through it by no *)
(* call but those that held it then: whoever comes later is refused, and   *)
(* whoever is cut short does not write.                                    *)
LinksAreSpent ==
    \A t \in DOMAIN resets :
        allowed[t] > 0 => resets[t] + Cardinality(Holders(t)) <= allowed[t]

(* As README.md promises of the links: one writes the password once.       *)
SingleUse == \A t \in DOMAIN resets : resets[t] <= 1

(* Within one hour an address has no more wallets funded than there can be *)
(* calls at a time, but for those whose call was cut before it set the     *)
(* limit: all that pass the check do so before the first of them has set   *)
(* it, whenever they send and whenever their confirmations come.           *)
FundingIsLimited ==
    Cardinality({i \in DOMAIN funded \ lost : present - funded[i] < FundingGap})
        <= Cardinality(Callers)
=============================================================================
