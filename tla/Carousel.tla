-------------------------------- MODULE Carousel --------------------------------
(***************************************************************************)
(* A carousel: an interval timer and the user ask for slides, a slide is   *)
(* over when the transition of the old item ends, and a request to show an *)
(* item that arrives during a slide waits for the slid event, which is     *)
(* triggered by a timer of its own after the slide.                        *)
(***************************************************************************)
EXTENDS Integers, FiniteSets, SequencesExt

CONSTANTS
    Items,       \* number of items
    MaxQueued    \* bound: requests that wait for a slid event

ASSUME CarouselAssumption == Items \in Nat \ {0} /\ MaxQueued \in Nat

Item == 0..Items - 1
NoItem == -1

VARIABLE carousel

\* active: items with the class; from, next: the slide under way; slid: the slid event
\* is due; queued: to(index) that waits for it; interval, timers: this._interval and
\* the timers that run; touch: touchTimeout runs; hover: the mouse is over it.
\* animated, wrap, auto: the class slide, the options wrap and interval.
CarouselTypeOK ==
    carousel \in [active : SUBSET Item, indicator : Item, from : Item, next : Item \union {NoItem},
                  sliding : BOOLEAN, slid : BOOLEAN, queued : BoundedSeq(Item, MaxQueued),
                  paused : BOOLEAN, interval : BOOLEAN, timers : Int, touch : BOOLEAN,
                  hover : BOOLEAN, disposed : BOOLEAN, animated : BOOLEAN, wrap : BOOLEAN,
                  auto : BOOLEAN]

--------------------------------------------------------------------------------
(* The methods, each from the carousel to the carousel after it. *)

\* A bug: the timer that runs is not cleared.
cycleOnTop(c, event) ==
    LET on == c.auto /\ ~(event /\ c.paused)
    IN [c EXCEPT !.paused = event /\ @, !.interval = on, !.timers = IF on THEN @ + 1 ELSE @]

\* cycle(event): restarts the timer; without an event it also ends a pause.
cycle(c, event) ==
    LET idle == [c EXCEPT !.paused = event /\ @, !.interval = FALSE,
                          !.timers = IF c.interval THEN @ - 1 ELSE @]
    IN IF c.auto /\ ~idle.paused
       THEN [idle EXCEPT !.interval = TRUE, !.timers = @ + 1] ELSE idle

\* The transitionend it triggers is for the carousel, and the slide waits on the
\* item; what cycle(true) starts is cleared at once.
pause(c, event) ==
    LET stopped == [c EXCEPT !.paused = @ \/ ~event]
        again  == IF c.next # NoItem THEN cycle(stopped, TRUE) ELSE stopped
    IN [again EXCEPT !.interval = FALSE, !.timers = IF again.interval THEN @ - 1 ELSE @]

activeItem(c) == CHOOSE i \in c.active : \A j \in c.active : i <= j

getItemByDirection(c, delta) ==
    LET i == activeItem(c) IN
    IF ~c.wrap /\ i + delta \notin Item THEN i ELSE (i + delta) % Items

\* The classes of the two items when the slide is over, and the end of the slide.
arrive(c) ==
    [c EXCEPT !.active = (@ \union {c.next}) \ {c.from}, !.next = NoItem, !.sliding = FALSE]

slide(c, item, prevented) ==
    IF item \in c.active THEN [c EXCEPT !.sliding = FALSE]
    ELSE IF prevented THEN c
    ELSE LET ready == [c EXCEPT !.sliding = TRUE]
             moving == [(IF c.interval THEN pause(ready, FALSE) ELSE ready) EXCEPT
                           !.indicator = item, !.from = activeItem(c), !.next = item]
             moved == IF c.animated THEN moving ELSE arrive(moving)
         IN IF c.interval THEN cycle(moved, FALSE) ELSE moved

to(c, item, prevented) ==
    IF c.sliding THEN [c EXCEPT !.queued = Append(@, item)]
    ELSE IF item \in c.active THEN cycle(pause(c, FALSE), FALSE)
    ELSE slide(c, item, prevented)

\* The requests that waited, in their order; those that meet a new slide wait again.
served(c, items, prevented) == FoldLeft(LAMBDA d, item : to(d, item, prevented), c, items)

step(c, delta, prevented) ==
    IF c.sliding THEN c ELSE slide(c, getItemByDirection(c, delta), prevented)

--------------------------------------------------------------------------------

\* The page has loaded: a carousel with data-ride has started to cycle.
CarouselInit ==
    \E animated, wrap, auto \in BOOLEAN :
        carousel = [active |-> {0}, indicator |-> 0, from |-> 0, next |-> NoItem,
                    sliding |-> FALSE, slid |-> FALSE, queued |-> <<>>, paused |-> FALSE,
                    interval |-> auto, timers |-> IF auto THEN 1 ELSE 0, touch |-> FALSE,
                    hover |-> FALSE, disposed |-> FALSE, animated |-> animated,
                    wrap |-> wrap, auto |-> auto]

\* A timer fires and the page is visible: nextWhenVisible.
CarouselTick ==
    /\ carousel.timers > 0 /\ ~carousel.disposed /\ ~carousel.sliding
    /\ \E prevented \in BOOLEAN : carousel' = step(carousel, 1, prevented)

\* The controls, the arrow keys and the API: next, prev and pause.
CarouselControl ==
    /\ ~carousel.disposed
    /\ \/ \E delta \in {1, -1}, prevented \in BOOLEAN : carousel' = step(carousel, delta, prevented)
       \/ carousel' = pause(carousel, FALSE)
       \/ carousel' = cycle(carousel, FALSE)

\* $(...).carousel(index); an indicator passes its index as a string, which is never
\* === the active one, and ends in _slide where the number restarts the timer.
CarouselTo ==
    /\ ~carousel.disposed /\ Len(carousel.queued) < MaxQueued
    /\ \E item \in Item, prevented \in BOOLEAN :
          \/ carousel' = to(carousel, item, prevented)
          \/ /\ item \in carousel.active /\ ~carousel.sliding
             /\ carousel' = slide(carousel, item, prevented)

CarouselHover ==
    /\ ~carousel.disposed
    /\ carousel' = IF carousel.hover THEN [cycle(carousel, TRUE) EXCEPT !.hover = FALSE]
                   ELSE [pause(carousel, TRUE) EXCEPT !.hover = TRUE]

\* touchend pauses, and restarts the timer of the touch; later that timer cycles.
CarouselTouch ==
    /\ ~carousel.disposed
    /\ carousel' = [pause(carousel, FALSE) EXCEPT !.touch = TRUE]

CarouselTouchTimeout ==
    /\ carousel.touch /\ ~carousel.disposed
    /\ carousel' = [cycle(carousel, FALSE) EXCEPT !.touch = FALSE]

\* A bug: the end of the slide triggers no slid event when the carousel is paused.
CarouselTransitionEndQuiet ==
    /\ carousel.next # NoItem /\ ~carousel.slid
    /\ carousel' = [arrive(carousel) EXCEPT !.slid = ~carousel.disposed /\ ~carousel.paused]

\* The slide is over; the slid event follows.  The handler outlives a dispose.
CarouselTransitionEnd ==
    /\ carousel.next # NoItem /\ ~carousel.slid
    /\ carousel' = [arrive(carousel) EXCEPT !.slid = ~carousel.disposed]

\* The slid event: the requests that waited run.
CarouselSlid ==
    /\ carousel.slid
    /\ \E prevented \in BOOLEAN :
          carousel' = served([carousel EXCEPT !.slid = FALSE, !.queued = <<>>],
                             carousel.queued, prevented)

\* off() removes the listeners, those of queued requests too; the interval timer is
\* forgotten, not cleared.
CarouselDispose ==
    /\ ~carousel.disposed
    /\ carousel' = [carousel EXCEPT !.disposed = TRUE, !.interval = FALSE, !.queued = <<>>,
                                    !.sliding = FALSE, !.paused = FALSE]

CarouselNext ==
    \/ CarouselTick \/ CarouselControl \/ CarouselTo \/ CarouselHover \/ CarouselTouch
    \/ CarouselTouchTimeout \/ CarouselTransitionEnd \/ CarouselSlid \/ CarouselDispose

CarouselSpec == CarouselInit /\ [][CarouselNext]_carousel

--------------------------------------------------------------------------------

\* At rest one item is active, and it is the one the indicators show, however slides,
\* requests and timers overlap; and at most one interval timer runs, the one the
\* carousel can still clear.
CarouselShowsOneItem ==
    /\ Cardinality(carousel.active) = 1
    /\ carousel.next = NoItem => carousel.active = {carousel.indicator}
    /\ ~carousel.disposed => carousel.timers = IF carousel.interval THEN 1 ELSE 0

\* A request that waits for a slid event can count on one: a slide is under way whose
\* end triggers it, or it is due.  Slides that start between the end of a slide and its
\* slid event, pauses and prevented slides do not strand it.
CarouselServes ==
    carousel.queued # <<>> => carousel.next # NoItem \/ carousel.slid
================================================================================
