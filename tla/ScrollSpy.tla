-------------------------------- MODULE ScrollSpy --------------------------------
(***************************************************************************)
(* A navigation that marks the section in view.  The offsets of the        *)
(* sections are measured once and kept until the height of the content     *)
(* changes or refresh is called; the page may move its sections otherwise. *)
(***************************************************************************)
EXTENDS Integers, SequencesExt

CONSTANTS
    Sections,     \* sections with a link, numbered as their links
    MaxHeight,    \* bound: heights of the content
    ViewHeight,   \* height of the window
    SpyOffset     \* the option offset

ASSUME ScrollSpyAssumption ==
    /\ Sections \subseteq Nat /\ IsFiniteSet(Sections) /\ SpyOffset \in Nat
    /\ ViewHeight \in Nat \ {0} /\ MaxHeight \in Nat /\ ViewHeight < MaxHeight

Hidden == -1       \* the offset of a section without width and height
NoSection == -1
Heights == ViewHeight + 1 .. MaxHeight

VARIABLE spy

\* place, height: where the sections are and how high the content is; scroll: how far it
\* is scrolled; targets, seen: the measured sections with their offsets, _scrollHeight;
\* marked: _activeTarget; link: what is marked on the page.  Ghosts: processed, nothing
\* changed since _process; fresh, the spy follows another and has changed no mark yet.
ScrollSpyTypeOK ==
    /\ spy.place \in [Sections -> {Hidden} \union 0..MaxHeight] /\ spy.height \in Heights
    /\ spy.scroll \in 0..MaxHeight /\ spy.seen \in Heights /\ spy.processed \in BOOLEAN
    /\ ToSet(spy.targets) \subseteq (0..MaxHeight) \X Sections
    /\ {spy.marked, spy.link} \subseteq Sections \union {NoSection} /\ spy.fresh \in BOOLEAN

\* The sections that can be seen with their offsets.
sighted(s) == {<<s.place[x], x>> : x \in {x \in Sections : s.place[x] # Hidden}}

\* By offset; equal ones keep the order of their links.
sorted(seq) ==
    \A i, j \in DOMAIN seq : i < j =>
        seq[i][1] < seq[j][1] \/ (seq[i][1] = seq[j][1] /\ seq[i][2] < seq[j][2])

measured(s) == CHOOSE seq \in [1..Cardinality(sighted(s)) -> sighted(s)] : sorted(seq)

refresh(s) == [s EXCEPT !.targets = measured(s), !.seen = s.height]

\* A bug: a section that ends where the next begins is taken for it.
foundTooFar(s, top) ==
    {i \in DOMAIN s.targets :
        top >= s.targets[i][1] /\ (i < Len(s.targets) => top <= s.targets[i + 1][1])}

\* The last section above the line, which the loop finds as the only one between its
\* offset and the next.
found(s, top) ==
    {i \in DOMAIN s.targets :
        top >= s.targets[i][1] /\ (i < Len(s.targets) => top < s.targets[i + 1][1])}

\* All links are cleared first, whoever marked them.
activate(s, x) == [s EXCEPT !.marked = x, !.link = x, !.fresh = FALSE]

process(s0) ==
    LET s   == [(IF s0.seen # s0.height THEN refresh(s0) ELSE s0) EXCEPT !.processed = TRUE]
        top == s.scroll + SpyOffset
    IN IF top >= SpyOffset + s.height - ViewHeight
       THEN activate(s, IF s.targets = <<>> THEN NoSection ELSE Last(s.targets)[2])
       ELSE IF s.marked # NoSection /\ s.targets # <<>> /\ top < Head(s.targets)[1]
       THEN activate(s, NoSection)
       ELSE IF found(s, top) = {} THEN s
       ELSE activate(s, s.targets[CHOOSE i \in found(s, top) : TRUE][2])

\* A page whose sections fit its content.
fits(place, height) == \A x \in Sections : place[x] < height

ScrollSpyInit ==
    \E place \in [Sections -> {Hidden} \union 0..MaxHeight], height \in Heights :
        /\ fits(place, height)
        /\ spy = process(refresh([place |-> place, height |-> height, scroll |-> 0,
                                  targets |-> <<>>, seen |-> height, marked |-> NoSection,
                                  link |-> NoSection, processed |-> TRUE, fresh |-> FALSE]))

Scroll(to) == to <= spy.height - ViewHeight /\ spy' = process([spy EXCEPT !.scroll = to])

\* The page moves, shows or hides a section, or its content grows or shrinks.
MoveSection(x, to) ==
    /\ to < spy.height
    /\ spy' = [spy EXCEPT !.place[x] = to, !.processed = FALSE]
Resize(height) ==
    /\ fits(spy.place, height)
    /\ spy' = [spy EXCEPT !.height = height, !.processed = FALSE,
                          !.scroll = IF @ > height - ViewHeight THEN height - ViewHeight ELSE @]

\* The API: the offsets are measured, what is marked waits for the next scroll event.
RefreshSpy == spy' = [refresh(spy) EXCEPT !.processed = FALSE]

\* The spy is gone, its mark stays, and a new one starts wherever the page is by then.
DisposeSpy(to) ==
    /\ to <= spy.height - ViewHeight
    /\ spy' = process(refresh([spy EXCEPT !.scroll = to, !.marked = NoSection, !.fresh = TRUE]))

ScrollSpyNext ==
    \/ \E to \in 0..MaxHeight : Scroll(to) \/ DisposeSpy(to)
    \/ \E x \in Sections, to \in {Hidden} \union 0..MaxHeight : MoveSection(x, to)
    \/ \E height \in Heights : Resize(height)
    \/ RefreshSpy

ScrollSpySpec == ScrollSpyInit /\ [][ScrollSpyNext]_spy

--------------------------------------------------------------------------------

\* What a reader expects to be marked: the last section that begins above the line, the
\* last one at the bottom, none before the first.
expected(s) ==
    LET top == s.scroll + SpyOffset
        seen == {x \in Sections : s.place[x] # Hidden}
        later(x, y) == s.place[x] > s.place[y] \/ (s.place[x] = s.place[y] /\ x > y)
        above == IF s.scroll >= s.height - ViewHeight THEN seen
                 ELSE {x \in seen : s.place[x] <= top}
    IN IF above = {} THEN NoSection
       ELSE CHOOSE x \in above : \A y \in above \ {x} : later(x, y)

\* After a scroll event the link of the section in view is marked, also when the content
\* grew or shrank before and whatever was marked; unless sections moved without a change
\* of the height, which the measured offsets do not tell.  Without any section in view
\* the mark of one that is gone may stay, and one that a disposed spy left stays until the
\* new spy finds a section.
ScrollSpyMarks ==
    spy.processed /\ spy.targets = measured(spy) /\ spy.targets # <<>> =>
        /\ spy.marked = expected(spy)
        /\ spy.link = expected(spy) \/ (spy.fresh /\ expected(spy) = NoSection)
================================================================================
