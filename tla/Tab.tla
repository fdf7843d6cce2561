----------------------------------- MODULE Tab -----------------------------------
(***************************************************************************)
(* Tabs: a click on a link marks the link at once, and its pane when the   *)
(* pane shown before has faded; a click during the fade registers another  *)
(* handler on the pane that fades.                                         *)
(***************************************************************************)
EXTENDS Naturals, FiniteSets, SequencesExt

CONSTANTS
    Tabs,       \* tabs, numbered in document order
    MaxHasty    \* bound: clicks during one fade

ASSUME TabAssumption == Tabs \subseteq Nat /\ Tabs # {} /\ MaxHasty \in Nat \ {0}

VARIABLES
    activeLink,  \* the link with the class active
    panes,       \* panes with the classes active and show
    fading,      \* the panes handlers of the pane that fades will show, in their order
    tabsFade,    \* whether the panes have the class fade
    hasty        \* ghost: a click came during a fade

tabVars == <<activeLink, panes, fading, tabsFade, hasty>>

TabTypeOK ==
    /\ activeLink \in Tabs /\ panes \subseteq Tabs /\ fading \in BoundedSeq(Tabs, MaxHasty)
    /\ tabsFade \in BOOLEAN /\ hasty \in BOOLEAN

TabInit ==
    /\ activeLink \in Tabs /\ panes = {activeLink} /\ fading = <<>>
    /\ tabsFade \in BOOLEAN /\ hasty = FALSE

\* The first active pane in the document; the handlers all wait on it.
activePane == CHOOSE p \in panes : \A q \in panes : p <= q

\* A bug: the new pane comes before the old one goes.
transitionCompleteSwapped(shown, from, to) == (shown \union {to}) \ {from}

\* _transitionComplete: the pane that was active first goes, the new one comes.
transitionComplete(shown, from, to) == (shown \ {from}) \union {to}

\* The handlers of a pane that has faded run in their order.
handlersRun(shown, from, tabs) ==
    FoldLeft(LAMBDA s, t : transitionComplete(s, from, t), shown, tabs)

\* show of a tab that is not active, which no listener prevents.
ShowTab(t) ==
    /\ t # activeLink /\ Len(fading) < MaxHasty
    /\ activeLink' = t
    /\ IF tabsFade
       THEN fading' = Append(fading, t) /\ hasty' = (hasty \/ fading # <<>>) /\ UNCHANGED panes
       ELSE panes' = transitionComplete(panes, activePane, t) /\ UNCHANGED <<fading, hasty>>
    /\ UNCHANGED tabsFade

TabTransitionEnd ==
    /\ fading # <<>> /\ fading' = <<>> /\ panes' = handlersRun(panes, activePane, fading)
    /\ UNCHANGED <<activeLink, tabsFade, hasty>>

TabNext == (\E t \in Tabs : ShowTab(t)) \/ TabTransitionEnd

TabSpec == TabInit /\ [][TabNext]_tabVars

--------------------------------------------------------------------------------

\* When nothing fades the pane of the active link is shown, however many clicks came
\* during the fades; and it is the only one, unless a click came during a fade: the
\* handlers of both clicks then show their panes.
TabShowsItsPane ==
    fading = <<>> => activeLink \in panes /\ (~hasty => panes = {activeLink})
================================================================================
