-------------------------------- MODULE Collapse --------------------------------
(***************************************************************************)
(* The panels of a page that open and close, alone or as an accordion.     *)
(* An instance made at the first click remembers that its panel is in      *)
(* transition; opening a panel of an accordion hides the ones that are     *)
(* open, and may throw the instances of these away.                        *)
(***************************************************************************)
EXTENDS Naturals, FiniteSets

CONSTANT Panels   \* numbered in document order

ASSUME PanelsAssumption == Panels \subseteq Nat

VARIABLES
    panel,       \* the panels
    accordion,   \* whether they name a common parent
    prepared     \* whether the page made all instances when it loaded, with toggle: false

collapseVars == <<panel, accordion, prepared>>

\* show, collapsing: classes of the panel; collapsed: class of its trigger; waiting: what
\* the handlers that wait for the transition will do; data: the instance, and what
\* it is doing while _isTransitioning.  History of the panel: cut, an instance was
\* disposed while it moved; extra, a listener kept it open when another panel opened, or
\* it opened beside such a panel.
Panel == [show : BOOLEAN, collapsing : BOOLEAN, collapsed : BOOLEAN,
          waiting : SUBSET {"hide", "show"}, data : {"none", "idle", "hide", "show"},
          cut : BOOLEAN, extra : BOOLEAN]

CollapseTypeOK == panel \in [Panels -> Panel] /\ accordion \in BOOLEAN /\ prepared \in BOOLEAN

CollapseInit ==
    /\ accordion \in BOOLEAN /\ prepared \in BOOLEAN
    /\ \E open \in {{}} \union {{p} : p \in Panels} :
          panel = [p \in Panels |-> [show |-> p \in open, collapsing |-> FALSE,
                                     collapsed |-> p \notin open, waiting |-> {},
                                     data |-> IF prepared THEN "idle" ELSE "none",
                                     cut |-> FALSE, extra |-> FALSE]]

isTransitioning(r) == r.data \in {"hide", "show"}

\* A new instance of a panel without a parent corrects the class of the trigger.
created(r) ==
    IF r.data # "none" THEN r
    ELSE [r EXCEPT !.data = "idle", !.collapsed = IF accordion THEN @ ELSE ~r.show]

\* A bug: the panels hidden on behalf of another one keep the class of their triggers.
hideQuietly(r) ==
    IF isTransitioning(r) \/ ~r.show THEN r
    ELSE [r EXCEPT !.show = FALSE, !.collapsing = TRUE, !.waiting = @ \union {"hide"},
                   !.data = "hide", !.extra = FALSE]

hidePanel(r) ==
    IF isTransitioning(r) \/ ~r.show THEN r
    ELSE [r EXCEPT !.show = FALSE, !.collapsing = TRUE, !.collapsed = TRUE,
                   !.waiting = @ \union {"hide"}, !.data = "hide", !.extra = FALSE]

openPanel(r) == [r EXCEPT !.collapsing = TRUE, !.collapsed = FALSE,
                     !.waiting = @ \union {"show"}, !.data = "show",
                     !.extra = \E q \in Panels : panel[q].extra]

\* A listener of the panel prevents its hide event.
keepOpen(r) == IF isTransitioning(r) \/ ~r.show THEN r ELSE [r EXCEPT !.extra = TRUE]

actives == {q \in Panels : accordion /\ (panel[q].show \/ panel[q].collapsing)}

\* A bug: a panel in transition does not hold back the next one.
heldByNone(p) == FALSE

\* activesData: the instance of the first of the other active panels, and only that.
firstOf(p) == {q \in actives \ {p} : \A other \in actives \ {p} : q <= other}
noData(p) == \A q \in firstOf(p) : panel[q].data = "none"
held(p) == \E q \in firstOf(p) : isTransitioning(panel[q])

\* A click that opens p hides the other active panels but those that prevent it.  Without
\* activesData the instances of all active panels are thrown away, also of those in
\* transition; a new instance of p is stored last.
ShowPanel(p) ==
    LET mine == created(panel[p]) IN
    /\ ~mine.show /\ ~isTransitioning(mine)
    /\ \E prevented \in SUBSET (actives \ {p}) :
          panel' = [q \in Panels |->
             IF held(p) THEN IF q = p THEN mine ELSE panel[q]
             ELSE LET next == IF q = p THEN openPanel(mine)
                              ELSE IF q \in prevented THEN keepOpen(created(panel[q]))
                              ELSE IF q \in actives THEN hidePanel(created(panel[q]))
                              ELSE panel[q]
                      lost == noData(p) /\ q \in actives /\ (q = p => panel[p].data # "none")
                  IN IF lost THEN [next EXCEPT !.data = "none"] ELSE next]
    /\ UNCHANGED <<accordion, prepared>>

\* A click that closes p.
HidePanel(p) ==
    /\ panel[p].show /\ ~isTransitioning(panel[p])
    /\ panel' = [panel EXCEPT ![p] = hidePanel(created(@))]
    /\ UNCHANGED <<accordion, prepared>>

\* A listener of show or hide prevents it: only the instance may be new.
PanelPrevented(p) ==
    /\ panel[p].data = "none"
    /\ panel' = [panel EXCEPT ![p] = created(@)]
    /\ UNCHANGED <<accordion, prepared>>

\* The handlers that wait run in their order; one that hides is always the first.
settled(r) ==
    [r EXCEPT !.show = "show" \in r.waiting, !.collapsing = FALSE, !.waiting = {},
              !.data = IF @ = "none" THEN @ ELSE "idle"]

PanelTransitionEnd(p) ==
    /\ panel[p].waiting # {} /\ panel' = [panel EXCEPT ![p] = settled(@)]
    /\ UNCHANGED <<accordion, prepared>>

\* dispose forgets the element: the handler of the instance changes nothing any more.
forgotten(r) ==
    [r EXCEPT !.waiting = @ \ {r.data}, !.data = "none", !.cut = @ \/ isTransitioning(r)]

DisposePanel(p) ==
    /\ panel[p].data # "none" /\ panel' = [panel EXCEPT ![p] = forgotten(@)]
    /\ prepared' = FALSE /\ UNCHANGED accordion

CollapseNext ==
    \E p \in Panels : ShowPanel(p) \/ HidePanel(p) \/ PanelPrevented(p)
                      \/ PanelTransitionEnd(p) \/ DisposePanel(p)

CollapseSpec == CollapseInit /\ [][CollapseNext]_collapseVars

--------------------------------------------------------------------------------

\* At most one panel of an accordion is open when nothing moves, provided the page made
\* the instances when it loaded: without them two quick clicks open two panels, since
\* the second finds no instance that says the first panel is moving.  A panel that a
\* listener kept open does not count, nor one that opened beside it: the panel kept open
\* may be the one whose instance is asked, and hides that another one is moving.
AccordionOpensOne ==
    accordion /\ prepared /\ (\A p \in Panels : panel[p].waiting = {})
        => Cardinality({p \in Panels : panel[p].show /\ ~panel[p].extra}) <= 1

\* A trigger tells whether its panel is open, whenever the panel does not move: also
\* after it was closed on behalf of another one, or by an instance that was thrown away;
\* not after an instance was disposed while it moved the panel.
TriggersAgree ==
    \A p \in Panels : ~panel[p].collapsing /\ ~panel[p].cut => panel[p].collapsed = ~panel[p].show
================================================================================
