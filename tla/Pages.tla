------------------------------- MODULE Pages -------------------------------
(***************************************************************************)
(* What a trader sees and presses: the hooks that show state kept          *)
(* elsewhere, the forms, the positions on the two pages that list them,    *)
(* the notifications, and the way in through the landing page and the      *)
(* guard.  Each is a component with a state of its own;                    *)
(* forms take any content of what is shown, and the positions pages and    *)
(* the notifications contain the chain and the hook they look through, so  *)
(* that a behaviour may be looked at from one of them: side says from      *)
(* which, and the others rest.                                             *)
(***************************************************************************)
EXTENDS Views, Forms, Desk, Bell, Visit

VARIABLE side

pagesVars == <<side, viewVars, formVars, deskVars, bellVars, visitVars>>

\* A side at rest has one hook, or one form, to it.
PagesInit ==
    /\ side \in {"views", "forms", "desk", "bell", "visit"}
    /\ ViewsInit /\ FormsInit /\ DeskInit /\ BellInit /\ VisitInit
    /\ side # "views" => hook = UseProtocolState
    /\ side # "forms" => component = MysteryBox
    /\ side # "visit" => kept = {} /\ ~lastExternal /\ ~cookie

ViewsAlone == side = "views" /\ UNCHANGED <<side, formVars, deskVars, bellVars, visitVars>>
FormsAlone == side = "forms" /\ UNCHANGED <<side, viewVars, deskVars, bellVars, visitVars>>
DeskAlone  == side = "desk"  /\ UNCHANGED <<side, viewVars, formVars, bellVars, visitVars>>
BellAlone  == side = "bell"  /\ UNCHANGED <<side, viewVars, formVars, deskVars, visitVars>>
VisitAlone == side = "visit" /\ UNCHANGED <<side, viewVars, formVars, deskVars, bellVars>>

PagesNext ==
    \/ ViewsAlone /\ ViewsNext
    \/ FormsAlone /\ FormsNext
    \/ DeskAlone  /\ DeskNext
    \/ BellAlone  /\ BellNext
    \/ VisitAlone /\ VisitNext

\* Timers fire, and reads and transactions are answered sooner or later.
PagesFairness ==
    /\ WF_pagesVars(ViewsAlone /\ Poll)
    /\ WF_pagesVars(ViewsAlone /\ reads # <<>> /\ Answer(1))
    /\ WF_pagesVars(FormsAlone /\ runs # <<>> /\ Advance(1))
    /\ WF_pagesVars(DeskAlone /\ Polled)
    /\ WF_pagesVars(BellAlone /\ Answered)

PagesSpec == PagesInit /\ [][PagesNext]_pagesVars /\ PagesFairness

(* What a hook shows becomes current once the data, the selection and the  *)
(* failures come to rest (they are bounded), whatever answers are still    *)
(* under way: ShownCatchesUp of Views, said of the behaviours that are     *)
(* looked at from the hooks.                                               *)
ViewsCatchUp == <>[](side = "views" => Current)
=============================================================================
