--------------------------------- MODULE Tooltip ---------------------------------
(***************************************************************************)
(* A tooltip or popover: mouse, focus and clicks enter and leave it, timers *)
(* delay what they ask for, and handlers that wait for the end of a fade   *)
(* finish a show or a hide.  All of them meet in _hoverState.  Listeners   *)
(* of the page may prevent any show and any hide: a method maps a tooltip  *)
(* to the set of tooltips it may leave.                                    *)
(***************************************************************************)
EXTENDS Naturals, SequencesExt

CONSTANT MaxWaits   \* bound: handlers that wait for the transition of the tip

ASSUME TooltipAssumption == MaxWaits \in Nat \ {0}

VARIABLE tooltip

Triggers == {"hover", "focus", "click"}
Reasons  == {"called", "prevented", "left", "fixed", "unfixed", "crossed", "disposed"}

\* hover: _hoverState; triggers: _activeTrigger; over: what really is on the element;
\* timer: what the timeout will do; enabled; show, fade: classes of the tip; inPage;
\* described: the element points at the tip; placed: Popper has left its mark on the tip;
\* waits: handlers for the end of the transition; animated, delayed, content: the options,
\* and whether there is something to show.  why: history since the last show or hide.
\* A method was called to show the tip; a hide was prevented, or left the tip in the page;
\* the tip was hidden and shown again to fix its transition, or its hide was prevented
\* there; a hide waits behind such a fix; it was disposed while the element pointed at it.
TooltipTypeOK ==
    tooltip \in [hover : {"", "show", "out"}, triggers : SUBSET Triggers,
                 over : SUBSET {"hover", "focus"}, timer : {"none", "show", "hide"},
                 enabled : BOOLEAN, show : BOOLEAN, fade : BOOLEAN, inPage : BOOLEAN,
                 described : BOOLEAN, placed : BOOLEAN,
                 waits : BoundedSeq({"shown", "hidden"}, 2 * MaxWaits), why : SUBSET Reasons,
                 animated : BOOLEAN, delayed : BOOLEAN, content : BOOLEAN]

TooltipInit ==
    \E animated, delayed, content \in BOOLEAN :
        tooltip = [hover |-> "", triggers |-> {}, over |-> {}, timer |-> "none",
                   enabled |-> TRUE, show |-> FALSE, fade |-> FALSE, inPage |-> FALSE,
                   described |-> FALSE, placed |-> FALSE, waits |-> <<>>, why |-> {},
                   animated |-> animated, delayed |-> delayed, content |-> content]

--------------------------------------------------------------------------------
(* The methods. *)

\* The end of hide: the tip stays if the element was entered meanwhile; Popper is destroyed.
hideComplete(t) ==
    LET stays == t.inPage /\ t.hover = "show"
    IN [t EXCEPT !.inPage = stays, !.described = FALSE, !.placed = FALSE,
                 !.why = IF stays THEN @ \union {"left"} ELSE @ \ {"left"}]

hidden(t) ==
    LET gone == [t EXCEPT !.show = FALSE, !.triggers = {}, !.why = {}]
    IN [(IF t.fade THEN [gone EXCEPT !.waits = Append(@, "hidden")] ELSE hideComplete(gone))
           EXCEPT !.hover = ""]

hideTip(t) == {hidden(t), [t EXCEPT !.why = @ \union {"prevented"}]}

isWithActiveTrigger(t) == t.triggers # {}

leave(t) ==
    LET out == [t EXCEPT !.hover = "out"]
    IN IF isWithActiveTrigger(t) THEN {t}
       ELSE IF t.delayed THEN {[out EXCEPT !.timer = "hide"]}
       ELSE hideTip([out EXCEPT !.timer = "none"])

\* The end of show: who left meanwhile leaves now.
shownEnds(t) ==
    LET done == [t EXCEPT !.hover = ""] IN IF t.hover = "out" THEN leave(done) ELSE {done}

\* A tooltip has something to show with a title, a popover with a title or a content.
isWithContent(t) == t.content

shownTip(t) ==
    LET up == [t EXCEPT !.show = TRUE, !.fade = t.animated, !.inPage = TRUE,
                        !.described = TRUE, !.placed = TRUE, !.why = @ \intersect {"called"}]
    IN IF t.animated THEN {[up EXCEPT !.waits = Append(@, "shown")]} ELSE shownEnds(up)

\* show; a listener may prevent it.
showTip(t) == {t} \union IF isWithContent(t) /\ t.enabled THEN shownTip(t) ELSE {}

\* Without the mark of Popper the tip is hidden and shown again, both without a fade.
fixTransition(t) ==
    LET bare == [t EXCEPT !.fade = FALSE, !.animated = FALSE]
    IN IF t.placed THEN {t}
       ELSE {[u EXCEPT !.animated = TRUE, !.why = @ \union {"fixed"}] :
                u \in showTip(hidden(bare))
                        \union showTip([bare EXCEPT !.why = @ \union {"unfixed"}])}

\* A bug: the end of show does not look whether a hide has taken the place away.
showCompleteUnfixed(t) == shownEnds(t)

showComplete(t) == UNION {shownEnds(u) : u \in fixTransition(t)}

\* The handlers that wait, in their order; what they register waits anew.
completed(t, wait) == IF wait = "shown" THEN showComplete(t) ELSE {hideComplete(t)}
completedAll(t, waits) ==
    FoldLeft(LAMBDA all, wait : UNION {completed(u, wait) : u \in all}, {t}, waits)

enter(t) ==
    IF t.show \/ t.hover = "show" THEN {[t EXCEPT !.hover = "show"]}
    ELSE IF t.delayed THEN {[t EXCEPT !.hover = "show", !.timer = "show"]}
    ELSE showTip([t EXCEPT !.hover = "show", !.timer = "none"])

--------------------------------------------------------------------------------

calm == Len(tooltip.waits) < MaxWaits

\* mouseenter, focusin and their opposites.
TooltipEnter(trigger) ==
    /\ calm /\ trigger \notin tooltip.over
    /\ tooltip' \in enter([tooltip EXCEPT !.over = @ \union {trigger},
                                          !.triggers = @ \union {trigger}])

TooltipLeave(trigger) ==
    /\ calm /\ trigger \in tooltip.over
    /\ tooltip' \in leave([tooltip EXCEPT !.over = @ \ {trigger}, !.triggers = @ \ {trigger}])

\* A click turns its trigger over.
TooltipClick ==
    /\ calm /\ tooltip.enabled
    /\ LET t == [tooltip EXCEPT !.triggers = IF "click" \in @ THEN @ \ {"click"}
                                             ELSE @ \union {"click"}]
       IN tooltip' \in IF isWithActiveTrigger(t) THEN enter(t) ELSE leave(t)

\* The API: toggle asks no trigger, and show not even whether the element was entered.
TooltipCall ==
    /\ calm
    /\ LET t == [tooltip EXCEPT !.why = @ \union {"called"}] IN
       \/ tooltip.enabled /\ ~tooltip.show /\ tooltip' \in enter(t)
       \/ tooltip.enabled /\ tooltip.show /\ tooltip' \in leave(tooltip)
       \/ tooltip' \in showTip(t)

\* dispose, and a new tooltip: the tip goes with the handlers that wait for it, the
\* reference to it stays.
DisposeTooltip ==
    tooltip' = [tooltip EXCEPT !.hover = "", !.triggers = {}, !.timer = "none",
                               !.enabled = TRUE, !.show = FALSE, !.fade = FALSE,
                               !.inPage = FALSE, !.placed = FALSE, !.waits = <<>>,
                               !.why = IF tooltip.described THEN {"disposed"} ELSE {}]

\* enable, disable, and a call to hide, of the page or because the modal around the
\* element hides.
TooltipEnable == tooltip' = [tooltip EXCEPT !.enabled = ~@]
TooltipModalHides == calm /\ tooltip' \in hideTip(tooltip)

\* A bug: the timer of a hide is lost.
TooltipTimeoutOfShow ==
    /\ tooltip.timer = "show"
    /\ LET t == [tooltip EXCEPT !.timer = "none"] IN
       tooltip' \in IF t.hover = "show" THEN showTip(t) ELSE {t}

\* The timer: what it was set for may be overtaken.
TooltipTimeout ==
    /\ tooltip.timer # "none"
    /\ LET t == [tooltip EXCEPT !.timer = "none"] IN
       tooltip' \in IF tooltip.timer = "show" /\ t.hover = "show" THEN showTip(t)
                    ELSE IF tooltip.timer = "hide" /\ t.hover = "out" THEN hideTip(t)
                    ELSE {t}

\* A hide waits behind the show that is fixed: behind a hide and a show among the handlers
\* that ran, or among those they left.
crossing(ran, t) ==
    \/ \E i, j, k \in DOMAIN ran :
          i < j /\ j < k /\ ran[i] = "hidden" /\ ran[j] = "shown" /\ ran[k] = "hidden"
    \/ "fixed" \in t.why /\ t.waits # <<>>

\* The tip has faded: the handlers run.
TooltipTransitionEnd ==
    /\ tooltip.waits # <<>>
    /\ \E t \in completedAll([tooltip EXCEPT !.waits = <<>>], tooltip.waits) :
          tooltip' = [t EXCEPT !.why = @ \union IF crossing(tooltip.waits, t) THEN {"crossed"}
                                                 ELSE {}]

TooltipNext ==
    \/ \E trigger \in {"hover", "focus"} : TooltipEnter(trigger) \/ TooltipLeave(trigger)
    \/ TooltipClick \/ TooltipCall \/ DisposeTooltip \/ TooltipEnable \/ TooltipModalHides
    \/ TooltipTimeout \/ TooltipTransitionEnd

TooltipFairness == WF_tooltip(TooltipTimeout) /\ WF_tooltip(TooltipTransitionEnd)

TooltipSpec == TooltipInit /\ [][TooltipNext]_tooltip /\ TooltipFairness

--------------------------------------------------------------------------------

\* When no handler waits, the tip is in the page exactly while it shows, and the element
\* points at it exactly while it shows.  The code breaks this in four ways, and in no other:
\* a tip that was hidden while the element was entered stays in the page unshown; a disposed
\* tip is still pointed at; a hide that waits behind a fixed show removes the tip that was
\* just shown (crossed); and the hide of a fix may be prevented when the tip is gone already
\* and its show come to nothing (unfixed).
TooltipAtRest ==
    tooltip.waits = <<>> /\ tooltip.why \intersect {"crossed", "unfixed"} = {} =>
        /\ "left" \notin tooltip.why => tooltip.inPage = tooltip.show
        /\ "disposed" \notin tooltip.why => tooltip.described = tooltip.show

\* Once nothing holds the element, the tip leaves the page, unless something takes hold of
\* the element again: whatever timers and waiting handlers cross on the way.  It may stay
\* when a method was called to show it, when its hide was prevented or left it in the page,
\* and when it was shown again only to fix its transition.
TooltipGoes ==
    tooltip.triggers = {} /\ tooltip.inPage
        ~> \/ tooltip.triggers # {} \/ ~tooltip.inPage
           \/ tooltip.why \intersect {"called", "prevented", "left", "fixed"} # {}
================================================================================
