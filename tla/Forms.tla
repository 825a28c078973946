------------------------------- MODULE Forms -------------------------------
(***************************************************************************)
(* The forms of the web application: what happens between the press of a   *)
(* button and the end of its handler.  Every handler has the same shape:   *)
(* the button is offered, the handler takes the component's loading state, *)
(* makes its reads and its transaction one after the other, and gives the  *)
(* loading state back whatever happened.  Handlers differ in what offers   *)
(* them, how the amount is cut down, which reads they make and what they   *)
(* share.  A behaviour is that of one component; components share nothing  *)
(* they write.                                                             *)
(*                                                                         *)
(* Amounts are small numbers; what a handler draws on (a wallet, the free  *)
(* collateral, shares, fees, a position) is a purse, whose content on      *)
(* chain changes at any time and is shown with a delay (module Views).     *)
(* Left out: texts, notifications, scrolling, and the checks of stops      *)
(* before the button's handler begins, which only show an error.           *)
(***************************************************************************)
EXTENDS Handlers, Sequences, SequencesExt

CONSTANTS
    MaxAmount,   \* bound on every amount and purse
    MaxRuns,     \* bound on handlers under way at once
    MaxMounts,   \* bound on the times the component is shown
    MaxGains     \* bound on changes of a purse from elsewhere

ASSUME FormsAssumption == MaxAmount \in Nat

VARIABLES
    component,   \* which component
    mount,       \* which showing of it this is; 0 while it is not shown
    mounts,      \* showings so far
    lock,        \* each loading state: "none", or the handler that took it
    asked,       \* the amounts typed into its fields
    held,        \* each purse on chain
    displayed,   \* each purse as the page shows it
    old,         \* the margin account has the format before its last change
    gains,
    runs         \* handlers under way: name, stage, amount, mount

formVars == <<component, mount, mounts, lock, asked, held, displayed, old, gains, runs>>

Lesser(a, b) == IF a <= b THEN a ELSE b

States == {"loading", "minting"}
Idle == [s \in States |-> "none"]
Fields(c) == {h.field : h \in c.handlers}
Purses(c) == {h.from : h \in c.handlers}
Handler(r) == CHOOSE h \in component.handlers : h.name = r.name

-----------------------------------------------------------------------------
Shown ==
    /\ mount = 0 /\ mounts < MaxMounts
    /\ mount' = mounts + 1
    /\ mounts' = mounts + 1
    /\ UNCHANGED <<component, lock, asked, held, displayed, old, gains, runs>>

\* The component goes, with its state; its handlers run on.
Hidden ==
    /\ mount > 0
    /\ mount' = 0
    /\ lock' = Idle
    /\ asked' = [f \in Fields(component) |-> 0]
    /\ UNCHANGED <<component, mounts, held, displayed, old, gains, runs>>

Type(f, amount) ==
    /\ mount > 0
    /\ f # "none" /\ amount # asked[f]
    /\ asked' = [asked EXCEPT ![f] = amount]
    /\ UNCHANGED <<component, mount, mounts, lock, held, displayed, old, gains, runs>>

\* A hook brings what is shown up to date.
Refreshed(p) ==
    /\ displayed[p] # held[p]
    /\ displayed' = [displayed EXCEPT ![p] = held[p]]
    /\ UNCHANGED <<component, mount, mounts, lock, asked, held, old, gains, runs>>

\* A purse changes: another tab or a keeper empties it, a payment fills it.
Moved(p) ==
    /\ gains < MaxGains
    /\ gains' = gains + 1
    /\ held' = [held EXCEPT ![p] = IF @ > 0 THEN 0 ELSE MaxAmount]
    /\ UNCHANGED <<component, mount, mounts, lock, asked, displayed, old, runs>>

-----------------------------------------------------------------------------
\* A button that does not look at the loading state.
NeverDisabled(h) == FALSE

Disabled(h) ==
    IF component.named THEN lock["loading"] = h.name
    ELSE \E s \in h.heeds : lock[s] # "none"

Locked(h, by) == IF h.state = "none" THEN lock ELSE [lock EXCEPT ![h.state] = by]

Offered(h) ==
    /\ ~Disabled(h)
    /\ \/ h.offer = "always"
       \/ h.offer = "positive" /\ asked[h.field] > 0
       \/ h.offer = "shown" /\ asked[h.field] \in 1..displayed[h.from]
       \/ h.offer = "owed" /\ displayed[h.from] > 0

Amount(h) ==
    IF h.cut THEN Lesser(asked[h.field], displayed[h.from]) ELSE asked[h.field]

Press(h) ==
    /\ mount > 0
    /\ Offered(h)
    /\ Len(runs) < MaxRuns
    /\ lock' = Locked(h, h.name)
    /\ runs' = Append(runs, [name |-> h.name, stage |-> 1, amount |-> Amount(h), mount |-> mount])
    /\ UNCHANGED <<component, mount, mounts, asked, held, displayed, old, gains>>

\* A handler that gives the loading state back only when it has succeeded.
ReleasedOnSuccess(h, success) == IF success THEN Locked(h, "none") ELSE lock

\* finally, on every path: it is given back whoever has it now.
Released(h, success) == Locked(h, "none")

\* The end of a handler, for the component it was started in.  Success clears
\* the field, and may leave nothing to press; failure leaves all.
Ends(i, success) ==
    LET r == runs[i]  h == Handler(r) IN
    /\ runs' = RemoveAt(runs, i)
    /\ IF r.mount # mount THEN UNCHANGED <<lock, asked, mount>>
       ELSE /\ lock' = IF success /\ h.closes THEN Idle ELSE Released(h, success)
            /\ asked' = IF success THEN [asked EXCEPT ![h.field] = 0] ELSE asked
            /\ mount' = IF success /\ h.closes THEN 0 ELSE mount

GoesOn(i, amount, by) ==
    /\ runs' = [runs EXCEPT ![i].stage = @ + by, ![i].amount = amount]
    /\ UNCHANGED <<lock, asked, mount>>

NextStage(i, amount) ==
    IF runs[i].stage = Len(Handler(runs[i]).stages) THEN Ends(i, TRUE) ELSE GoesOn(i, amount, 1)

\* A read or a wait.
Waits(i, k) ==
    /\ k \in {"account", "pause", "settle", "stored"}
    /\ NextStage(i, runs[i].amount)
    /\ UNCHANGED <<held, displayed, old>>

\* The format of the margin account decides whether it is closed first.
Format(i, k) ==
    /\ k = "format"
    /\ GoesOn(i, runs[i].amount, IF old THEN 1 ELSE 3)
    /\ UNCHANGED <<held, displayed, old>>

Reset(i, k) ==
    /\ k = "reset"
    /\ old' = FALSE
    /\ GoesOn(i, runs[i].amount, 1)
    /\ UNCHANGED <<held, displayed>>

\* The amount is cut down to the balance on chain; without any the handler ends.
Balance(i, k) ==
    LET amount == Lesser(runs[i].amount, held[Handler(runs[i]).from]) IN
    /\ k = "balance"
    /\ IF amount = 0 THEN Ends(i, FALSE) ELSE GoesOn(i, amount, 1)
    /\ UNCHANGED <<held, displayed, old>>

\* The transaction lands when the purse has what it takes.  Its confirmation
\* may be missed, and the handler then reports a failure.
Land(i, k) ==
    LET r == runs[i]  h == Handler(r)  p == h.from IN
    /\ k = "land"
    /\ IF h.takes = "amount" THEN r.amount \in 1..held[p] ELSE held[p] > 0
    /\ held' = [held EXCEPT ![p] = IF h.takes = "amount" THEN @ - r.amount
                                   ELSE IF h.takes = "all" THEN 0 ELSE @]
    /\ NextStage(i, r.amount) \/ Ends(i, FALSE)
    /\ UNCHANGED <<displayed, old>>

\* The prize is shown, and with it that the spin has been used.
Shake(i, k) ==
    /\ k = "shake"
    /\ displayed' = [displayed EXCEPT ![Handler(runs[i]).from] = 0]
    /\ GoesOn(i, runs[i].amount, 1)
    /\ UNCHANGED <<held, old>>

\* A read or a transaction fails, or is refused by the wallet, the program or
\* the service.  A look-up that only asks whether a token account exists does
\* not, nor does a request whose failure is ignored.
Throws(i, k) ==
    /\ k \in {"format", "reset", "balance", "land", "stored"}
    /\ Ends(i, FALSE)
    /\ UNCHANGED <<held, displayed, old>>

Advance(i) ==
    LET k == Handler(runs[i]).stages[runs[i].stage] IN
    /\ \/ Waits(i, k) \/ Format(i, k) \/ Reset(i, k) \/ Balance(i, k)
       \/ Land(i, k) \/ Shake(i, k) \/ Throws(i, k)
    /\ UNCHANGED <<component, mounts, gains>>

-----------------------------------------------------------------------------
FormsInit ==
    /\ component \in Components
    /\ mount = 1 /\ mounts = 1
    /\ lock = Idle
    /\ asked = [f \in Fields(component) |-> 0]
    /\ held = [p \in Purses(component) |-> 1]
    /\ displayed = held
    /\ old \in (IF component = OrderEntry THEN BOOLEAN ELSE {FALSE})
    /\ gains = 0
    /\ runs = <<>>

FormsNext ==
    \/ Shown
    \/ Hidden
    \/ \E f \in Fields(component), amount \in 0..MaxAmount : Type(f, amount)
    \/ \E p \in Purses(component) : Refreshed(p) \/ Moved(p)
    \/ \E h \in component.handlers : Press(h)
    \/ \E i \in DOMAIN runs : Advance(i)

\* Reads and transactions are answered, and timers fire.
FormsFairness == WF_formVars(runs # <<>> /\ Advance(1))

FormsSpec == FormsInit /\ [][FormsNext]_formVars /\ FormsFairness
-----------------------------------------------------------------------------
(* As long as a component stays on the page, a handler that takes a        *)
(* loading state is only started when the one before that took it has      *)
(* ended, so that a second press cannot send a second transaction or       *)
(* register a second account.  Two are excepted: the guest button, which   *)
(* takes no state, and the pool page, whose `loading` names one handler at *)
(* a time: the end of one of its forms frees the button of another that is *)
(* still waiting.                                                          *)
OneAtATime ==
    ~component.named =>
        \A i, j \in DOMAIN runs :
            /\ i # j /\ mount # 0
            /\ runs[i].mount = mount /\ runs[j].mount = mount
            /\ Handler(runs[i]).state # "none"
            => Handler(runs[i]).state # Handler(runs[j]).state

(* No form stays busy for ever: whatever read, wallet or transaction       *)
(* fails, and at whatever stage, the buttons come back.                    *)
FormsReleased == []<>(lock = Idle)
=============================================================================
