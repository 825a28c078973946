------------------------------- MODULE Alerts -------------------------------
(***************************************************************************)
(* telegram.js: what the keepers tell the team when something fails.  An   *)
(* alert is withheld while one of its level has been answered within the   *)
(* limit.  The limit is looked at when the alert is made and its clock set *)
(* when the answer comes; nothing waits in between, so that failures in a  *)
(* burst are all sent.  An alert withheld is dropped, not kept for later.  *)
(***************************************************************************)
EXTENDS Integers

CONSTANTS
    Levels,     \* what may go wrong: WARN for one push, CRITICAL for a whole tick
    RateLimit,  \* of each level
    MaxAsked    \* bound on the requests under way

ASSUME AlertsAssumption ==
    RateLimit \in [Levels -> Nat \ {0}] /\ MaxAsked \in Nat \ {0}

VARIABLES
    creds,      \* TELEGRAM_BOT_TOKEN and TELEGRAM_CHAT_ID are set
    quiet,      \* time since lastSent of each level, up to its limit
    asked,      \* requests of each level without an answer
    fatal,      \* main has failed and the process waits to exit
    outcome     \* what became of the last alert of each level at this moment

alertVars == <<creds, quiet, asked, fatal, outcome>>

AlertsInit ==
    /\ creds \in BOOLEAN
    /\ quiet = RateLimit            \* lastSent = 0
    /\ asked = [l \in Levels |-> 0]
    /\ fatal = FALSE
    /\ outcome = [l \in Levels |-> "none"]

-----------------------------------------------------------------------------
StampedWhenWithheld(l) ==
    /\ outcome' = [outcome EXCEPT ![l] = "withheld"]
    /\ quiet' = [quiet EXCEPT ![l] = 0]
    /\ UNCHANGED asked

Dropped(l) ==
    /\ outcome' = [outcome EXCEPT ![l] = "withheld"]
    /\ UNCHANGED <<quiet, asked>>

Requested(l) ==
    /\ outcome' = [outcome EXCEPT ![l] = "sent"]
    /\ asked' = [asked EXCEPT ![l] = @ + 1]
    /\ UNCHANGED quiet

(* sendAlert.                                                              *)
SendAlert(l) ==
    IF ~creds \/ quiet[l] < RateLimit[l]
    THEN Dropped(l)
    ELSE asked[l] < MaxAsked /\ Requested(l)

(* A push sent alone fails, or a tick does: the alert is not waited for.   *)
Fails(l) == ~fatal /\ SendAlert(l) /\ UNCHANGED <<creds, fatal>>

(* main fails: the process exits once its last alert is settled.           *)
FailsForGood ==
    /\ ~fatal /\ fatal' = TRUE
    /\ \E l \in Levels : SendAlert(l)
    /\ UNCHANGED creds

(* An answer of any status sets the clock, an error on the way does not.   *)
Answered(l) ==
    /\ asked[l] > 0
    /\ asked' = [asked EXCEPT ![l] = @ - 1]
    /\ quiet' = [quiet EXCEPT ![l] = 0]
    /\ UNCHANGED <<creds, fatal, outcome>>

Unanswered(l) ==
    /\ asked[l] > 0
    /\ asked' = [asked EXCEPT ![l] = @ - 1]
    /\ UNCHANGED <<creds, quiet, fatal, outcome>>

(* The process is started again: lastSent was only in memory.              *)
Exits ==
    /\ fatal /\ fatal' = FALSE
    /\ asked' = [l \in Levels |-> 0]
    /\ quiet' = RateLimit
    /\ UNCHANGED <<creds, outcome>>

Passes ==
    /\ quiet' = [l \in Levels |->
                    IF quiet[l] < RateLimit[l] THEN quiet[l] + 1 ELSE quiet[l]]
    /\ outcome' = [l \in Levels |-> "none"]
    /\ UNCHANGED <<creds, asked, fatal>>

AlertsNext ==
    \/ \E l \in Levels : Fails(l) \/ Answered(l) \/ Unanswered(l)
    \/ FailsForGood
    \/ Exits
    \/ Passes

-----------------------------------------------------------------------------
(* A trouble that goes on is heard of again and again: when alerts of a    *)
(* level keep being withheld by the limit, others of that level keep being *)
(* sent, whatever is answered, lost or restarted in between.               *)
AlarmsGoOut ==
    creds => \A l \in Levels :
                []<>(outcome[l] = "withheld") => []<>(outcome[l] = "sent")
=============================================================================
