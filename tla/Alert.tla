--------------------------------- MODULE Alert ---------------------------------
(***************************************************************************)
(* The alerts of a page: a click on the dismiss button hides the alert,    *)
(* and a handler that waits for the end of the fade takes it out of the    *)
(* page.  The button works during the fade, so several handlers may wait.  *)
(***************************************************************************)
EXTENDS Naturals

CONSTANTS
    Alerts,       \* the alerts of the page
    FadingAlerts, \* those with the class fade
    MaxClicks     \* bound: clicks on one dismiss button during a fade

ASSUME AlertsAssumption == FadingAlerts \subseteq Alerts /\ MaxClicks \in Nat \ {0}

VARIABLE alert    \* what each alert is

\* inPage: attached to the document; show: the class; closing: handlers that wait
\* for the transition of the element; listening: whether the listeners of the page
\* are still bound to the element; heard: closed events they got.
AlertTypeOK ==
    alert \in [Alerts -> [inPage : BOOLEAN, show : BOOLEAN, closing : 0..MaxClicks,
                          listening : BOOLEAN, heard : Nat]]

AlertInit ==
    alert = [a \in Alerts |-> [inPage |-> TRUE, show |-> TRUE, closing |-> 0,
                               listening |-> TRUE, heard |-> 0]]

\* detach().trigger(CLOSED).remove(): the listeners of the element hear the event,
\* then jQuery drops them with its data.
destroyElement(r) ==
    [r EXCEPT !.inPage = FALSE, !.heard = IF r.listening THEN @ + 1 ELSE @,
              !.listening = FALSE]

\* The alert fades, and one more handler waits for the end of that.
fadeOut(r) == [r EXCEPT !.show = FALSE, !.closing = @ + 1]

\* A click on the dismiss button that no listener of the close event prevents.
CloseAlert(a) ==
    /\ alert[a].inPage /\ alert[a].closing < MaxClicks
    /\ alert' = [alert EXCEPT ![a] = IF a \in FadingAlerts THEN fadeOut(@)
                                     ELSE destroyElement([@ EXCEPT !.show = FALSE])]

\* A bug: the element is taken out with detach(), which keeps its listeners, and
\* each handler that waits triggers the event again.
AlertTransitionEndDetaches(a) ==
    /\ alert[a].closing > 0
    /\ alert' = [alert EXCEPT ![a] = [@ EXCEPT !.inPage = FALSE,
                                               !.heard = @ + alert[a].closing, !.closing = 0]]

\* Every handler that waits runs: each destroys the element once more.
AlertTransitionEnd(a) ==
    /\ alert[a].closing > 0
    /\ alert' = [alert EXCEPT ![a] = [destroyElement(@) EXCEPT !.closing = 0]]

AlertNext == \E a \in Alerts : CloseAlert(a) \/ AlertTransitionEnd(a)

AlertSpec == AlertInit /\ [][AlertNext]_alert

--------------------------------------------------------------------------------

\* However often the dismiss button is clicked while the alert fades, the page hears
\* of the removal once, and only when the alert is out of the page: _destroyElement
\* may run again on an element it has removed.
ClosedIsHeardOnce ==
    \A a \in Alerts : alert[a].heard = IF alert[a].inPage THEN 0 ELSE 1
================================================================================
