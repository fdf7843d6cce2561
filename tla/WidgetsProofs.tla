------------------------------ MODULE WidgetsProofs ------------------------------
(***************************************************************************)
(* Proofs about the widgets of Bootstrap, each for any number of its       *)
(* alerts, panels, menus, tabs and items and for any number of clicks.     *)
(***************************************************************************)
EXTENDS MCWidgets, SequenceTheorems, FiniteSetTheorems, FunctionTheorems, WellFoundedInduction, TLAPS

--------------------------------------------------------------------------------
(* Sets *)

LEMMA AtMostOne ==
    ASSUME NEW S, \A x, y \in S : x = y PROVE Cardinality(S) <= 1
<1>1. CASE S = {}
  <2>1. Cardinality(S) = 0
    BY <1>1, FS_EmptySet
  <2> QED
    BY <2>1
<1>2. CASE S # {}
  <2>1. PICK x \in S : S = {x}
    BY <1>2
  <2>2. Cardinality(S) = 1
    BY <2>1, FS_Singleton
  <2> QED
    BY <2>2
<1> QED
  BY <1>1, <1>2

\* A non-empty set of numbers has a first.
LEMMA HasFirst ==
    ASSUME NEW S \in SUBSET Nat, S # {} PROVE \E m \in S : \A k \in S : m <= k
<1>1. PICK m \in S : \A k \in S : ~(<<k, m>> \in OpToRel(<, Nat))
  BY NatLessThanWellFounded, WFMin
<1>2. ASSUME NEW k \in S PROVE m <= k
  <2>1. k \in Nat /\ m \in Nat
    OBVIOUS
  <2>2. <<k, m>> \in OpToRel(<, Nat) <=> k < m
    BY <2>1 DEF OpToRel
  <2>3. ~(k < m)
    BY <1>1, <2>2, Zenon
  <2> QED
    BY <2>1, <2>3
<1> QED
  BY <1>2

\* Induction, with a set of numbers for the predicate.
LEMMA EveryNumber ==
    ASSUME NEW K, 0 \in K, \A k \in Nat : k \in K => k + 1 \in K PROVE Nat \subseteq K
<1> SUFFICES ASSUME NEW n \in Nat, n \notin K PROVE FALSE
  OBVIOUS
<1>1. PICK m \in Nat \ K : \A k \in Nat \ K : m <= k
  BY HasFirst
<1>2. m # 0 /\ m - 1 \in Nat /\ m - 1 < m
  BY <1>1
<1>3. m - 1 \in K
  BY <1>1, <1>2
<1> QED
  BY <1>1, <1>2, <1>3

\* The set FoldLeft takes the last element of at each of its steps.
LEMMA LastOfSet ==
    ASSUME NEW n \in Nat, NEW S \in SUBSET (1..n), S # {} PROVE Max(S) \in S
<1> DEFINE below == {k \in Nat : \A x \in S : x <= k}
<1>1. n \in below
  OBVIOUS
<1>2. PICK m \in below : \A k \in below : m <= k
  BY <1>1, HasFirst
<1>3. m \in S
  <2> SUFFICES ASSUME m \notin S PROVE FALSE
    OBVIOUS
  <2>1. m # 0 /\ m - 1 \in Nat /\ ~(m <= m - 1)
    <3>1. PICK x \in S : x \in 1..n
      OBVIOUS
    <3>2. m \in Nat /\ x <= m
      BY <1>2
    <3> QED
      BY <3>1, <3>2
  <2>2. ASSUME NEW x \in S PROVE x <= m - 1
    <3>1. x \in Nat /\ x # m
      OBVIOUS
    <3>2. m \in Nat /\ \A y \in S : y <= m
      BY <1>2
    <3> QED
      BY <3>1, <3>2
  <2>3. m - 1 \in below
    BY <2>1, <2>2
  <2> QED
    BY <1>2, <2>1, <2>3
<1>4. \A y \in S : m >= y
  BY <1>2
<1> QED
  BY <1>3, <1>4 DEF Max

LEMMA LastOfSegment ==
    ASSUME NEW n \in Nat, NEW k \in 0..n - 1
    PROVE  /\ k \in Nat /\ k \in 0..n /\ k + 1 \in 0..n
           /\ 1..k + 1 \in SUBSET (1..n) /\ 1..k + 1 # {}
           /\ Max(1..k + 1) = k + 1 /\ (1..k + 1) \ {k + 1} = 1..k
<1>1. k \in Nat /\ k \in 0..n /\ k + 1 \in 0..n
  OBVIOUS
<1>2. 1..k + 1 \in SUBSET (1..n) /\ 1..k + 1 # {}
  BY <1>1
<1>3. Max(1..k + 1) = k + 1
  <2> DEFINE m == CHOOSE x \in 1..k + 1 : \A y \in 1..k + 1 : x >= y
  <2>1. k + 1 \in 1..k + 1 /\ \A y \in 1..k + 1 : k + 1 >= y
    BY <1>1
  <2>2. m \in 1..k + 1 /\ \A y \in 1..k + 1 : m >= y
    BY <2>1
  <2>3. m = k + 1
    BY <1>1, <2>1, <2>2
  <2> QED
    BY <2>3 DEF Max
<1>4. (1..k + 1) \ {k + 1} = 1..k
  BY <1>1
<1> QED
  BY <1>1, <1>2, <1>3, <1>4

\* The recursive function of a fold exists: F is what one step does, h the fold of each set
\* of positions.
FoldsBy(h, F, base, seq, n) ==
    \A s \in SUBSET (1..n) :
        h[s] = IF s = {} THEN base ELSE F[<<h[s \ {Max(s)}], seq[Max(s)]>>]

LEMMA FoldExists ==
    ASSUME NEW X, NEW E, NEW F \in [X \X E -> X], NEW base \in X, NEW seq \in Seq(E)
    PROVE  \E h \in [SUBSET (1..Len(seq)) -> X] : FoldsBy(h, F, base, seq, Len(seq))
<1> DEFINE P(n) == \E h \in [SUBSET (1..n) -> X] : FoldsBy(h, F, base, seq, n)
           K == {n \in Nat : n <= Len(seq) => P(n)}
<1>1. P(0)
  <2> DEFINE h == [s \in SUBSET (1..0) |-> base]
  <2>1. 1..0 = {}
    OBVIOUS
  <2>2. h \in [SUBSET (1..0) -> X] /\ FoldsBy(h, F, base, seq, 0)
    BY <2>1 DEF FoldsBy
  <2> QED
    BY <2>2
<1>2. ASSUME NEW n \in Nat, P(n), n + 1 <= Len(seq) PROVE P(n + 1)
  <2>1. PICK g \in [SUBSET (1..n) -> X] : FoldsBy(g, F, base, seq, n)
    BY <1>2
  <2> DEFINE h == [s \in SUBSET (1..n + 1) |->
                       IF n + 1 \in s THEN F[<<g[s \ {n + 1}], seq[n + 1]>>] ELSE g[s]]
  <2>2. seq[n + 1] \in E
    BY <1>2
  <2>3. ASSUME NEW s \in SUBSET (1..n + 1)
        PROVE  /\ n + 1 \in s => s \ {n + 1} \in SUBSET (1..n) /\ Max(s) = n + 1
               /\ n + 1 \notin s => s \in SUBSET (1..n)
    <3>1. n + 1 \in s => s \ {n + 1} \in SUBSET (1..n)
      OBVIOUS
    <3>2. n + 1 \notin s => s \in SUBSET (1..n)
      OBVIOUS
    <3>3. ASSUME n + 1 \in s PROVE Max(s) = n + 1
      <4> DEFINE m == CHOOSE x \in s : \A y \in s : x >= y
      <4>1. \A y \in s : n + 1 >= y
        OBVIOUS
      <4>2. m \in s /\ m >= n + 1
        BY <3>3, <4>1
      <4>3. m \in 1..n + 1
        BY <4>2
      <4> HIDE DEF m
      <4>4. m = n + 1
        BY <4>2, <4>3
      <4> QED
        BY <4>4 DEF Max, m
    <3> QED
      BY <3>1, <3>2, <3>3
  <2>4. ASSUME NEW s \in SUBSET (1..n + 1) PROVE h[s] \in X
    BY <2>1, <2>2, <2>3
  <2>5. ASSUME NEW s \in SUBSET (1..n + 1)
        PROVE  h[s] = IF s = {} THEN base ELSE F[<<h[s \ {Max(s)}], seq[Max(s)]>>]
    <3>1. CASE n + 1 \in s
      <4>1. h[s \ {n + 1}] = g[s \ {n + 1}]
        BY <2>3, <3>1
      <4> QED
        BY <2>3, <3>1, <4>1
    <3>2. CASE n + 1 \notin s
      <4>1. h[s] = g[s] /\ s \in SUBSET (1..n)
        BY <2>3, <3>2
      <4>2. s \ {Max(s)} \in SUBSET (1..n) /\ n + 1 \notin s \ {Max(s)}
        BY <4>1, <3>2
      <4>3. h[s \ {Max(s)}] = g[s \ {Max(s)}]
        BY <4>2
      <4> QED
        BY <2>1, <4>1, <4>3 DEF FoldsBy
    <3> QED
      BY <3>1, <3>2
  <2>6. h \in [SUBSET (1..n + 1) -> X]
    BY <2>4
  <2> QED
    BY <2>5, <2>6 DEF FoldsBy
<1>3. \A n \in Nat : n \in K => n + 1 \in K
  <2> HIDE DEF P
  <2> SUFFICES ASSUME NEW n \in Nat, n \in K, n + 1 <= Len(seq) PROVE P(n + 1)
    OBVIOUS
  <2>1. Len(seq) \in Nat /\ n <= Len(seq)
    OBVIOUS
  <2> QED
    BY <1>2, <2>1
<1>4. 0 \in K
  BY <1>1
<1> HIDE DEF K
<1>5. Len(seq) \in K
  BY <1>3, <1>4, EveryNumber
<1> QED
  BY <1>5, Len(seq) <= Len(seq) DEF K

LEMMA BoundedSequences ==
    ASSUME NEW S, NEW n \in Nat, NEW s
    PROVE  s \in BoundedSeq(S, n) <=> s \in Seq(S) /\ Len(s) <= n
<1>1. ASSUME s \in BoundedSeq(S, n) PROVE s \in Seq(S) /\ Len(s) <= n
  <2>1. PICK m \in 0..n : s \in [1..m -> S]
    BY <1>1 DEF BoundedSeq, SeqOf
  <2>2. s \in Seq(S) /\ Len(s) = m
    BY <2>1
  <2> QED
    BY <2>2
<1>2. ASSUME s \in Seq(S), Len(s) <= n PROVE s \in BoundedSeq(S, n)
  <2>1. Len(s) \in 0..n /\ s \in [1..Len(s) -> S]
    BY <1>2
  <2> QED
    BY <2>1 DEF BoundedSeq, SeqOf
<1> QED
  BY <1>1, <1>2

--------------------------------------------------------------------------------
(* Alert *)

AnAlert == [inPage : BOOLEAN, show : BOOLEAN, closing : 0..MaxClicks,
            listening : BOOLEAN, heard : Nat]

\* Its listeners are gone exactly when the alert is: so none hears a second removal.
AlertHears(r) == r.listening = r.inPage /\ r.heard = IF r.inPage THEN 0 ELSE 1

AlertInv == AlertTypeOK /\ \A a \in Alerts : AlertHears(alert[a])

LEMMA AlertInvInit == AlertInit => AlertInv
<1> DEFINE fresh == [inPage |-> TRUE, show |-> TRUE, closing |-> 0, listening |-> TRUE,
                     heard |-> 0]
<1>1. fresh \in AnAlert /\ AlertHears(fresh)
  BY AlertsAssumption DEF AnAlert, AlertHears
<1>2. AlertInit => alert = [a \in Alerts |-> fresh]
  BY DEF AlertInit
<1> HIDE DEF fresh
<1>3. AlertTypeOK <=> alert \in [Alerts -> AnAlert]
  BY DEF AlertTypeOK, AnAlert
<1> QED
  BY <1>1, <1>2, <1>3 DEF AlertInv

LEMMA FadeOutHears ==
    ASSUME NEW r \in AnAlert, AlertHears(r), r.closing < MaxClicks
    PROVE  fadeOut(r) \in AnAlert /\ AlertHears(fadeOut(r))
<1> DEFINE n == r.closing + 1
<1>1. n \in 0..MaxClicks
  BY AlertsAssumption DEF AnAlert
<1>2. fadeOut(r) = [r EXCEPT !.show = FALSE, !.closing = n]
  BY DEF fadeOut, AnAlert
<1> HIDE DEF n
<1> QED
  BY <1>1, <1>2 DEF AnAlert, AlertHears

LEMMA DestroyedHears ==
    ASSUME NEW r \in AnAlert, AlertHears(r)
    PROVE  destroyElement(r) \in AnAlert /\ AlertHears(destroyElement(r))
<1> DEFINE n == IF r.listening THEN r.heard + 1 ELSE r.heard
<1>1. n \in Nat
  BY DEF AnAlert
<1>2. n = 1
  BY DEF AlertHears, AnAlert
<1>3. destroyElement(r) = [r EXCEPT !.inPage = FALSE, !.heard = n, !.listening = FALSE]
  BY DEF destroyElement, AnAlert
<1> HIDE DEF n
<1> QED
  BY <1>1, <1>2, <1>3 DEF AnAlert, AlertHears

LEMMA AlertInvStep == AlertInv /\ [AlertNext]_alert => AlertInv'
<1> SUFFICES ASSUME AlertInv, [AlertNext]_alert PROVE AlertInv'
  OBVIOUS
<1>1. MaxClicks \in Nat /\ \A a \in Alerts : alert[a] \in AnAlert /\ AlertHears(alert[a])
  BY AlertsAssumption DEF AlertInv, AlertTypeOK, AnAlert
<1>2. ASSUME NEW a \in Alerts, NEW r \in AnAlert, AlertHears(r), alert' = [alert EXCEPT ![a] = r]
      PROVE  AlertInv'
  BY <1>1, <1>2 DEF AlertInv, AlertTypeOK, AnAlert
<1>3. ASSUME NEW a \in Alerts, CloseAlert(a) PROVE AlertInv'
  <2>1. CASE a \in FadingAlerts
    <3>1. alert' = [alert EXCEPT ![a] = fadeOut(alert[a])]
      BY <1>3, <2>1 DEF CloseAlert
    <3>2. alert[a].closing < MaxClicks
      BY <1>3 DEF CloseAlert
    <3> QED
      BY <1>1, <1>2, <3>1, <3>2, FadeOutHears
  <2>2. CASE a \notin FadingAlerts
    <3> DEFINE r == [alert[a] EXCEPT !.show = FALSE]
    <3>1. alert' = [alert EXCEPT ![a] = destroyElement(r)]
      BY <1>3, <2>2 DEF CloseAlert
    <3>2. r \in AnAlert /\ AlertHears(r)
      BY <1>1 DEF AnAlert, AlertHears
    <3> HIDE DEF r
    <3> QED
      BY <1>2, <3>1, <3>2, DestroyedHears
  <2> QED
    BY <2>1, <2>2
<1>4. ASSUME NEW a \in Alerts, AlertTransitionEnd(a) PROVE AlertInv'
  <2> DEFINE d == destroyElement(alert[a])
             r == [d EXCEPT !.closing = 0]
  <2>1. alert' = [alert EXCEPT ![a] = r]
    BY <1>4 DEF AlertTransitionEnd
  <2>2. d \in AnAlert /\ AlertHears(d)
    BY <1>1, DestroyedHears
  <2> HIDE DEF d
  <2>3. r \in AnAlert /\ AlertHears(r)
    BY <1>1, <2>2 DEF AnAlert, AlertHears
  <2> QED
    BY <1>2, <2>1, <2>3
<1>5. CASE UNCHANGED alert
  BY <1>5 DEF AlertInv, AlertTypeOK
<1> QED
  BY <1>3, <1>4, <1>5 DEF AlertNext

\* The page hears once of each alert that is gone, and of no other: for any number of
\* alerts, and of clicks while they fade.
THEOREM AlertsAreHeardOnce == AlertSpec => []ClosedIsHeardOnce
<1>1. AlertInv => ClosedIsHeardOnce
  BY DEF AlertInv, AlertHears, ClosedIsHeardOnce
<1> QED
  BY <1>1, AlertInvInit, AlertInvStep, PTL DEF AlertSpec

--------------------------------------------------------------------------------
(* Buttons *)

\* Only one radio button is active: then querySelector('.active') finds all there are.
OneRadio == \A r, s \in activeButtons \intersect Radios : r = s

ButtonsInv == ButtonTypeOK /\ OneRadio /\ ButtonsShowTheirInputs

LEMMA ButtonsInit == ButtonInit => ButtonsInv
  BY DEF ButtonInit, ButtonsInv, ButtonTypeOK, OneRadio, ButtonsShowTheirInputs, Buttons

\* With one active radio button toggle puts out all of them before it lights its own.
LEMMA OthersAreNoRadios ==
    ASSUME OneRadio PROVE activeButtons \ firstActive = activeButtons \ Radios
<1>1. Radios \subseteq Nat
  BY ButtonsAssumption
<1>2. ASSUME NEW r \in activeButtons \intersect Radios PROVE r \in firstActive
  <2>1. r \in Nat
    BY <1>1
  <2>2. r <= r
    BY <2>1
  <2> QED
    BY <2>2 DEF firstActive, OneRadio
<1>3. firstActive \subseteq Radios
  BY DEF firstActive
<1> QED
  BY <1>2, <1>3

\* Apart from the radio buttons the page agrees in both cases of the invariant.
LEMMA OthersAgree ==
    ASSUME ButtonsShowTheirInputs PROVE activeButtons \ Radios = marked \ Radios
  BY DEF ButtonsShowTheirInputs

LEMMA RadioStep ==
    ASSUME ButtonsInv, NEW b \in Radios, ToggleRadio(b) PROVE ButtonsInv'
<1>1. activeButtons \ firstActive = activeButtons \ Radios
  BY OthersAreNoRadios DEF ButtonsInv
<1>2. activeButtons \ Radios = marked \ Radios
  BY OthersAgree DEF ButtonsInv
<1>b. b \in Buttons
  BY DEF Buttons
<1>3. CASE b \in activeButtons \intersect marked
  <2>1. activeButtons' = activeButtons /\ marked' = marked /\ focused' = {b}
    BY <1>3 DEF ToggleRadio
  <2> QED
    BY <1>b, <2>1 DEF ButtonsInv, ButtonTypeOK, OneRadio, ButtonsShowTheirInputs
<1>4. CASE b \notin activeButtons \intersect marked /\ b \in DisabledInputs
  <2>1. activeButtons' = activeButtons \ Radios /\ marked' = marked /\ focused' = focused
    BY <1>1, <1>4 DEF ToggleRadio
  <2> QED
    BY <1>2, <1>4, <2>1 DEF ButtonsInv, ButtonTypeOK, OneRadio, ButtonsShowTheirInputs
<1>5. CASE b \notin activeButtons \intersect marked /\ b \notin DisabledInputs
  <2>1. /\ activeButtons' = (activeButtons \ Radios) \union {b}
        /\ marked' = (marked \ Radios) \union {b} /\ focused' = {b}
    BY <1>1, <1>5 DEF ToggleRadio, flipped
  <2> QED
    BY <1>2, <1>b, <2>1 DEF ButtonsInv, ButtonTypeOK, OneRadio, ButtonsShowTheirInputs
<1> QED
  BY <1>3, <1>4, <1>5

\* A button outside the group is flipped in what the user sees and in what is sent.
LEMMA OtherStep ==
    ASSUME ButtonsInv, NEW b \in Buttons, ToggleCheckbox(b) \/ TogglePlain(b)
    PROVE  ButtonsInv'
<1>1. b \notin Radios
  BY ButtonsAssumption DEF ToggleCheckbox, TogglePlain
<1>2. b \in activeButtons <=> b \in marked
  BY <1>1, OthersAgree DEF ButtonsInv
<1>3. activeButtons' = flipped(activeButtons, b) /\ marked' = flipped(marked, b)
      /\ focused' \in {focused, {b}}
  BY <1>2 DEF ToggleCheckbox, TogglePlain, flipped
<1> QED
  BY <1>1, <1>2, <1>3 DEF flipped, ButtonsInv, ButtonTypeOK, OneRadio, ButtonsShowTheirInputs

LEMMA ButtonsStep == ButtonsInv /\ [ButtonNext]_buttonVars => ButtonsInv'
<1> SUFFICES ASSUME ButtonsInv, [ButtonNext]_buttonVars PROVE ButtonsInv'
  OBVIOUS
<1>1. ASSUME NEW b \in Buttons, ToggleRadio(b) \/ ToggleCheckbox(b) \/ TogglePlain(b)
      PROVE  ButtonsInv'
  <2>1. CASE ToggleRadio(b)
    BY <2>1, RadioStep DEF ToggleRadio
  <2>2. CASE ToggleCheckbox(b) \/ TogglePlain(b)
    BY <2>2, OtherStep
  <2> QED
    BY <1>1, <2>1, <2>2
<1>2. ASSUME NEW at \in {{}} \union {{b} : b \in Buttons}, FocusButton(at) PROVE ButtonsInv'
  BY <1>2 DEF FocusButton, ButtonsInv, ButtonTypeOK, OneRadio, ButtonsShowTheirInputs
<1>3. CASE UNCHANGED buttonVars
  BY <1>3 DEF buttonVars, ButtonsInv, ButtonTypeOK, OneRadio, ButtonsShowTheirInputs
<1> QED
  BY <1>1, <1>2, <1>3 DEF ButtonNext

\* What the user sees of a group is what is sent, whichever buttons are clicked and
\* whichever are disabled, but for the group a click on a disabled button put out.
THEOREM ButtonsAreRight == ButtonSpec => []ButtonsShowTheirInputs
<1>1. ButtonsInv => ButtonsShowTheirInputs
  BY DEF ButtonsInv
<1> QED
  BY <1>1, ButtonsInit, ButtonsStep, PTL DEF ButtonSpec

\* At no time are two radio buttons of the group active.
THEOREM OneRadioAtATime == ButtonSpec => []OneRadio
<1>1. ButtonsInv => OneRadio
  BY DEF ButtonsInv
<1> QED
  BY <1>1, ButtonsInit, ButtonsStep, PTL DEF ButtonSpec

--------------------------------------------------------------------------------
(* Collapse *)

\* While a panel moves, its trigger tells what the handlers that wait will do; without
\* an accordion an instance is lost while its panel moves only when it is disposed.
PanelAgrees(r) ==
    /\ r \in Panel
    /\ r.waiting # {} => r.collapsing
    /\ r.cut \/ IF r.collapsing THEN ~r.show /\ (r.collapsed <=> "show" \notin r.waiting)
                ELSE r.collapsed <=> ~r.show
    /\ r.collapsing /\ ~accordion => r.cut \/ isTransitioning(r)

LEMMA CreatedAgrees ==
    ASSUME NEW r, PanelAgrees(r)
    PROVE  /\ PanelAgrees(created(r)) /\ created(r).data # "none"
           /\ created(r).show = r.show /\ (r.data # "none" => created(r) = r)
<1>1. CASE r.data # "none"
  BY <1>1 DEF created
<1>2. CASE r.data = "none"
  <2> DEFINE c == IF accordion THEN r.collapsed ELSE ~r.show
  <2>1. created(r) = [r EXCEPT !.data = "idle", !.collapsed = c]
    BY <1>2 DEF created, PanelAgrees, Panel
  <2>2. c \in BOOLEAN /\ (accordion => c = r.collapsed) /\ (~accordion => c = ~r.show)
    BY DEF PanelAgrees, Panel
  <2> HIDE DEF c
  <2>3. r.cut \/ c = IF r.collapsing THEN "show" \notin r.waiting ELSE ~r.show
    BY <1>2, <2>2 DEF PanelAgrees, isTransitioning, Panel
  <2>4. /\ created(r) \in Panel /\ created(r).data = "idle" /\ created(r).collapsed = c
        /\ created(r).show = r.show /\ created(r).collapsing = r.collapsing
        /\ created(r).waiting = r.waiting /\ created(r).cut = r.cut
    BY <2>1, <2>2 DEF PanelAgrees, Panel
  <2>5. r.collapsing /\ ~accordion => r.cut
    BY <1>2 DEF PanelAgrees, isTransitioning
  <2> QED
    BY <1>2, <2>3, <2>4, <2>5 DEF PanelAgrees
<1> QED
  BY <1>1, <1>2

LEMMA OpenAgrees ==
    ASSUME NEW r, PanelAgrees(r), ~r.show PROVE PanelAgrees(openPanel(r))
<1> DEFINE w == r.waiting \union {"show"}
           e == \E q \in Panels : panel[q].extra
<1>1. openPanel(r) = [r EXCEPT !.collapsing = TRUE, !.collapsed = FALSE, !.waiting = w,
                               !.data = "show", !.extra = e]
  BY DEF openPanel, PanelAgrees, Panel
<1>2. w \in SUBSET {"hide", "show"} /\ "show" \in w /\ e \in BOOLEAN
  BY DEF PanelAgrees, Panel
<1> HIDE DEF w, e
<1> QED
  BY <1>1, <1>2 DEF PanelAgrees, isTransitioning, Panel

LEMMA HideAgrees ==
    ASSUME NEW r, PanelAgrees(r) PROVE PanelAgrees(hidePanel(r))
<1>1. CASE isTransitioning(r) \/ ~r.show
  BY <1>1 DEF hidePanel
<1>2. CASE ~(isTransitioning(r) \/ ~r.show)
  <2> DEFINE w == r.waiting \union {"hide"}
  <2>1. hidePanel(r) = [r EXCEPT !.show = FALSE, !.collapsing = TRUE, !.collapsed = TRUE,
                                 !.waiting = w, !.data = "hide", !.extra = FALSE]
    BY <1>2 DEF hidePanel, PanelAgrees, Panel
  <2>2. w \in SUBSET {"hide", "show"} /\ (r.waiting = {} => "show" \notin w)
    BY DEF PanelAgrees, Panel
  <2>3. r.cut \/ r.waiting = {}
    BY <1>2 DEF PanelAgrees
  <2> HIDE DEF w
  <2> QED
    BY <2>1, <2>2, <2>3 DEF PanelAgrees, isTransitioning, Panel
<1> QED
  BY <1>1, <1>2

LEMMA KeptAgrees ==
    ASSUME NEW r, PanelAgrees(r) PROVE PanelAgrees(keepOpen(r))
  BY DEF keepOpen, PanelAgrees, isTransitioning, Panel

LEMMA LostAgrees ==
    ASSUME NEW r, PanelAgrees(r), accordion PROVE PanelAgrees([r EXCEPT !.data = "none"])
  BY DEF PanelAgrees, isTransitioning, Panel

LEMMA SettledAgrees ==
    ASSUME NEW r, PanelAgrees(r), r.waiting # {} PROVE PanelAgrees(settled(r))
<1> DEFINE d == IF r.data = "none" THEN r.data ELSE "idle"
           s == "show" \in r.waiting
<1>1. settled(r) = [r EXCEPT !.show = s, !.collapsing = FALSE, !.waiting = {}, !.data = d]
  BY DEF settled, PanelAgrees, Panel
<1>2. d \in {"none", "idle"} /\ s \in BOOLEAN /\ (r.cut \/ r.collapsed = ~s)
  BY DEF PanelAgrees, Panel
<1> HIDE DEF d, s
<1> QED
  BY <1>1, <1>2 DEF PanelAgrees, isTransitioning, Panel

LEMMA ForgottenAgrees ==
    ASSUME NEW r, PanelAgrees(r), r.data # "none" PROVE PanelAgrees(forgotten(r))
<1> DEFINE w == r.waiting \ {r.data}
           c == r.cut \/ isTransitioning(r)
<1>1. forgotten(r) = [r EXCEPT !.waiting = w, !.data = "none", !.cut = c]
  BY DEF forgotten, PanelAgrees, Panel
<1>2. w \in SUBSET {"hide", "show"} /\ c \in BOOLEAN /\ (r.cut => c)
      /\ (w # {} => r.waiting # {}) /\ (~c => w = r.waiting)
  BY DEF isTransitioning, PanelAgrees, Panel
<1> HIDE DEF w, c
<1>3. /\ forgotten(r) \in Panel /\ forgotten(r).waiting = w /\ forgotten(r).cut = c
      /\ forgotten(r).show = r.show /\ forgotten(r).collapsing = r.collapsing
      /\ forgotten(r).collapsed = r.collapsed
  BY <1>1, <1>2 DEF PanelAgrees, Panel
<1>4. r.collapsing /\ ~accordion => c
  BY DEF c, PanelAgrees
<1> QED
  BY <1>2, <1>3, <1>4 DEF PanelAgrees

\* A panel the page made an instance for when it loaded: the instance knows when it moves.
PanelPrepared(r) ==
    /\ r.data # "none" /\ (r.collapsing <=> isTransitioning(r)) /\ (r.show => ~r.collapsing)
    /\ r.waiting = IF isTransitioning(r) THEN {r.data} ELSE {}

\* It is open, or will be when it has moved.
Opens(r) == r.show \/ r.data = "show"

\* ... and it is not beside a panel that a listener kept open.
OpensAlone(r) == Opens(r) /\ ~r.extra

OneOpens == \A p, q \in Panels : OpensAlone(panel[p]) /\ OpensAlone(panel[q]) => p = q

AccordionInv ==
    accordion /\ prepared => (\A p \in Panels : PanelPrepared(panel[p])) /\ OneOpens

LEMMA HidePrepared ==
    ASSUME NEW r \in Panel, PanelPrepared(r)
    PROVE  /\ PanelPrepared(hidePanel(r))
           /\ OpensAlone(hidePanel(r)) => OpensAlone(r) /\ r.data = "show" /\ r.collapsing
<1>1. CASE isTransitioning(r) \/ ~r.show
  BY <1>1 DEF hidePanel, PanelPrepared, Opens, OpensAlone, isTransitioning
<1>2. CASE ~(isTransitioning(r) \/ ~r.show)
  <2>1. r.waiting = {}
    BY <1>2 DEF PanelPrepared
  <2>2. hidePanel(r) = [r EXCEPT !.show = FALSE, !.collapsing = TRUE, !.collapsed = TRUE,
                                 !.waiting = {"hide"}, !.data = "hide", !.extra = FALSE]
    BY <1>2, <2>1 DEF hidePanel, Panel
  <2>3. /\ hidePanel(r).show = FALSE /\ hidePanel(r).collapsing = TRUE
        /\ hidePanel(r).waiting = {"hide"} /\ hidePanel(r).data = "hide"
    BY <2>2 DEF Panel
  <2> QED
    BY <2>3 DEF PanelPrepared, Opens, OpensAlone, isTransitioning
<1> QED
  BY <1>1, <1>2

LEMMA KeptPrepared ==
    ASSUME NEW r \in Panel, PanelPrepared(r)
    PROVE  /\ PanelPrepared(keepOpen(r))
           /\ OpensAlone(keepOpen(r)) => OpensAlone(r) /\ r.data = "show" /\ r.collapsing
  BY DEF keepOpen, PanelPrepared, Opens, OpensAlone, isTransitioning, Panel

LEMMA OpenPrepared ==
    ASSUME NEW r \in Panel, PanelPrepared(r), ~r.show, ~isTransitioning(r)
    PROVE  /\ PanelPrepared(openPanel(r))
           /\ openPanel(r).extra <=> \E q \in Panels : panel[q].extra
<1> DEFINE e == \E q \in Panels : panel[q].extra
<1>1. r.waiting = {}
  BY DEF PanelPrepared
<1>2. openPanel(r) = [r EXCEPT !.collapsing = TRUE, !.collapsed = FALSE,
                               !.waiting = {"show"}, !.data = "show", !.extra = e]
  BY <1>1 DEF openPanel, Panel
<1> HIDE DEF e
<1>3. /\ openPanel(r).show = r.show /\ openPanel(r).collapsing = TRUE
      /\ openPanel(r).waiting = {"show"} /\ openPanel(r).data = "show"
      /\ openPanel(r).extra = e
  BY <1>2 DEF Panel
<1> USE DEF e
<1> QED
  BY <1>3 DEF PanelPrepared, isTransitioning

LEMMA SettledPrepared ==
    ASSUME NEW r \in Panel, PanelPrepared(r), r.waiting # {}
    PROVE  PanelPrepared(settled(r)) /\ (OpensAlone(settled(r)) => OpensAlone(r))
<1>1. settled(r) = [r EXCEPT !.show = "show" \in r.waiting, !.collapsing = FALSE,
                             !.waiting = {}, !.data = "idle"]
  BY DEF settled, PanelPrepared, Panel
<1>2. /\ (settled(r).show <=> "show" \in r.waiting) /\ ~settled(r).collapsing
      /\ settled(r).waiting = {} /\ settled(r).data = "idle" /\ settled(r).extra = r.extra
  BY <1>1 DEF Panel
<1>3. "show" \in r.waiting => r.data = "show"
  BY DEF PanelPrepared
<1> QED
  BY <1>2, <1>3 DEF PanelPrepared, Opens, OpensAlone, isTransitioning

CollapseInv ==
    /\ panel \in [Panels -> Panel] /\ accordion \in BOOLEAN /\ prepared \in BOOLEAN
    /\ \A p \in Panels : PanelAgrees(panel[p])
    /\ AccordionInv

LEMMA CollapseInvInit == CollapseInit => CollapseInv
<1> SUFFICES ASSUME CollapseInit PROVE CollapseInv
  OBVIOUS
<1>1. PICK open \in {{}} \union {{p} : p \in Panels} :
          panel = [p \in Panels |-> [show |-> p \in open, collapsing |-> FALSE,
                                     collapsed |-> p \notin open, waiting |-> {},
                                     data |-> IF prepared THEN "idle" ELSE "none",
                                     cut |-> FALSE, extra |-> FALSE]]
  BY DEF CollapseInit
<1>2. ASSUME NEW p \in Panels
      PROVE  /\ panel[p] \in Panel /\ PanelAgrees(panel[p])
             /\ (panel[p].show <=> p \in open) /\ panel[p].data = IF prepared THEN "idle" ELSE "none"
             /\ panel[p].waiting = {} /\ ~panel[p].collapsing
  <2> DEFINE s == p \in open
             c == p \notin open
             d == IF prepared THEN "idle" ELSE "none"
  <2>1. panel[p] = [show |-> s, collapsing |-> FALSE, collapsed |-> c, waiting |-> {},
                    data |-> d, cut |-> FALSE, extra |-> FALSE]
    BY <1>1
  <2>2. /\ s \in BOOLEAN /\ c \in BOOLEAN /\ (s <=> p \in open) /\ (c <=> ~s)
        /\ d \in {"none", "idle"} /\ d = IF prepared THEN "idle" ELSE "none"
    OBVIOUS
  <2> HIDE DEF s, c, d
  <2> QED
    BY <2>1, <2>2 DEF PanelAgrees, Panel
<1>3. panel \in [Panels -> Panel] /\ accordion \in BOOLEAN /\ prepared \in BOOLEAN
  BY <1>1, <1>2 DEF CollapseInit
<1>4. AccordionInv
  BY <1>2 DEF AccordionInv, PanelPrepared, OneOpens, Opens, OpensAlone, isTransitioning
<1> QED
  BY <1>2, <1>3, <1>4 DEF CollapseInv

\* A step changes one panel and keeps what is said of it.
LEMMA OnePanelChanges ==
    ASSUME CollapseInv, NEW p \in Panels, NEW r, PanelAgrees(r),
           panel' = [panel EXCEPT ![p] = r], accordion' = accordion, prepared' \in BOOLEAN,
           prepared' => prepared,
           prepared /\ PanelPrepared(panel[p]) => PanelPrepared(r) /\ (OpensAlone(r) => OpensAlone(panel[p]))
    PROVE  CollapseInv'
<1>1. r \in Panel
  BY DEF PanelAgrees
<1>2. panel' \in [Panels -> Panel] /\ \A q \in Panels : panel'[q] = IF q = p THEN r ELSE panel[q]
  BY <1>1 DEF CollapseInv
<1>3. \A q \in Panels : PanelAgrees(panel[q])'
  BY <1>2 DEF CollapseInv, PanelAgrees
<1>4. AccordionInv'
  <2> SUFFICES ASSUME accordion, prepared
               PROVE  (\A q \in Panels : PanelPrepared(panel[q])') /\ OneOpens'
    BY DEF AccordionInv
  <2>1. (\A q \in Panels : PanelPrepared(panel[q])) /\ OneOpens
    BY DEF CollapseInv, AccordionInv
  <2>2. \A q \in Panels : PanelPrepared(panel'[q]) /\ (OpensAlone(panel'[q]) => OpensAlone(panel[q]))
    BY <1>2, <2>1
  <2> QED
    BY <2>1, <2>2 DEF OneOpens, OpensAlone, Opens, PanelPrepared
<1> QED
  BY <1>2, <1>3, <1>4 DEF CollapseInv

\* What a click that opens p makes of each panel, when the hide events of some are prevented.
opened(p, prevented, q) ==
    IF q = p THEN openPanel(created(panel[p]))
    ELSE IF q \in prevented THEN keepOpen(created(panel[q]))
    ELSE IF q \in actives THEN hidePanel(created(panel[q])) ELSE panel[q]
loses(p, q) == noData(p) /\ q \in actives /\ (q = p => panel[p].data # "none")

LEMMA ShowPanelParts ==
    ASSUME NEW p \in Panels, ShowPanel(p)
    PROVE  /\ ~created(panel[p]).show /\ ~isTransitioning(created(panel[p]))
           /\ accordion' = accordion /\ prepared' = prepared /\ panel' = [q \in Panels |-> panel'[q]]
           /\ \E prevented \in SUBSET (actives \ {p}) : \A q \in Panels :
                 panel'[q] = IF held(p) THEN IF q = p THEN created(panel[p]) ELSE panel[q]
                             ELSE IF loses(p, q) THEN [opened(p, prevented, q) EXCEPT !.data = "none"]
                             ELSE opened(p, prevented, q)
<1>1. PICK prevented \in SUBSET (actives \ {p}) :
          panel' = [q \in Panels |->
             IF held(p) THEN IF q = p THEN created(panel[p]) ELSE panel[q]
             ELSE IF loses(p, q) THEN [opened(p, prevented, q) EXCEPT !.data = "none"]
             ELSE opened(p, prevented, q)]
  BY DEF ShowPanel, opened, loses
<1>2. \A q \in Panels :
         panel'[q] = IF held(p) THEN IF q = p THEN created(panel[p]) ELSE panel[q]
                     ELSE IF loses(p, q) THEN [opened(p, prevented, q) EXCEPT !.data = "none"]
                     ELSE opened(p, prevented, q)
  BY <1>1
<1>3. panel' = [q \in Panels |-> panel'[q]]
  BY <1>1
<1> QED
  BY <1>2, <1>3 DEF ShowPanel

LEMMA ShowPanelAgrees ==
    ASSUME CollapseInv, NEW p \in Panels, ShowPanel(p), NEW q \in Panels
    PROVE  PanelAgrees(panel'[q])
<1>1. PanelAgrees(panel[q]) /\ PanelAgrees(created(panel[q])) /\ PanelAgrees(created(panel[p]))
  BY CreatedAgrees DEF CollapseInv
<1>2. ASSUME NEW prevented \in SUBSET (actives \ {p}) PROVE PanelAgrees(opened(p, prevented, q))
  <2>1. CASE q = p
    BY <1>1, <2>1, OpenAgrees, ShowPanelParts DEF opened
  <2>2. CASE q # p
    BY <1>1, <2>2, HideAgrees, KeptAgrees DEF opened
  <2> QED
    BY <2>1, <2>2
<1>3. loses(p, q) => accordion
  BY DEF actives, loses
<1>4. PICK prevented \in SUBSET (actives \ {p}) :
          panel'[q] = IF held(p) THEN IF q = p THEN created(panel[p]) ELSE panel[q]
                      ELSE IF loses(p, q) THEN [opened(p, prevented, q) EXCEPT !.data = "none"]
                      ELSE opened(p, prevented, q)
  BY ShowPanelParts
<1>5. PanelAgrees(opened(p, prevented, q))
  BY <1>2
<1>6. loses(p, q) => PanelAgrees([opened(p, prevented, q) EXCEPT !.data = "none"])
  BY <1>3, <1>5, LostAgrees
<1> QED
  BY <1>1, <1>4, <1>5, <1>6

\* With an instance for each panel none is made and none is lost.
LEMMA ShowPanelPrepared ==
    ASSUME CollapseInv, accordion, prepared, NEW p \in Panels, ShowPanel(p), NEW q \in Panels
    PROVE  /\ held(p) => panel'[q] = panel[q]
           /\ ~held(p) => IF q = p THEN panel'[q] = openPanel(panel[p])
                          ELSE panel'[q] \in {hidePanel(panel[q]), keepOpen(panel[q])}
<1>1. \A r \in Panels : panel[r] \in Panel /\ PanelAgrees(panel[r]) /\ PanelPrepared(panel[r])
  BY DEF CollapseInv, AccordionInv
<1>2. \A r \in Panels : created(panel[r]) = panel[r] /\ panel[r].data # "none"
  BY <1>1, CreatedAgrees DEF PanelPrepared
<1>3. ~panel[p].show /\ ~isTransitioning(panel[p])
  BY <1>2 DEF ShowPanel
<1>4. p \notin actives
  BY <1>1, <1>3 DEF actives, PanelPrepared
<1>5. ~loses(p, q)
  <2> SUFFICES ASSUME q \in actives PROVE ~noData(p)
    BY DEF loses
  <2>1. actives \ {p} \in SUBSET Nat /\ actives \ {p} # {}
    BY <1>4, PanelsAssumption DEF actives
  <2>2. PICK f \in actives \ {p} : \A k \in actives \ {p} : f <= k
    BY <2>1, HasFirst
  <2>3. f \in firstOf(p) /\ f \in Panels
    BY <2>2 DEF firstOf, actives
  <2> QED
    BY <1>2, <2>3 DEF noData
<1>6. q # p /\ q \notin actives => hidePanel(panel[q]) = panel[q]
  BY DEF actives, hidePanel
<1>7. PICK prevented \in SUBSET (actives \ {p}) :
          panel'[q] = IF held(p) THEN panel[q] ELSE opened(p, prevented, q)
  BY <1>2, <1>5, ShowPanelParts
<1> QED
  BY <1>2, <1>6, <1>7 DEF opened

LEMMA ShowPanelStep ==
    ASSUME CollapseInv, NEW p \in Panels, ShowPanel(p) PROVE CollapseInv'
<1>1. \A q \in Panels : PanelAgrees(panel'[q])
  BY ShowPanelAgrees
<1>2. panel' = [q \in Panels |-> panel'[q]] /\ accordion' = accordion /\ prepared' = prepared
  BY ShowPanelParts
<1>3. panel' \in [Panels -> Panel]
  BY <1>1, <1>2 DEF PanelAgrees
<1>4. AccordionInv'
  <2> SUFFICES ASSUME accordion, prepared
               PROVE  (\A q \in Panels : PanelPrepared(panel[q])') /\ OneOpens'
    BY <1>2 DEF AccordionInv
  <2>1. (\A q \in Panels : panel[q] \in Panel /\ PanelPrepared(panel[q])) /\ OneOpens
    BY DEF CollapseInv, AccordionInv
  <2>2. CASE held(p)
    BY <2>1, <2>2, ShowPanelPrepared DEF OneOpens, OpensAlone, Opens, PanelPrepared
  <2>3. CASE ~held(p)
    <3>1. ~panel[p].show /\ ~isTransitioning(panel[p])
      BY <2>1, CreatedAgrees DEF ShowPanel, CollapseInv, PanelPrepared
    <3>2. \A q \in Panels : IF q = p THEN panel'[q] = openPanel(panel[p])
                            ELSE panel'[q] \in {hidePanel(panel[q]), keepOpen(panel[q])}
      BY <2>3, ShowPanelPrepared
    <3>3. \A q \in Panels : PanelPrepared(panel'[q])
      BY <2>1, <3>1, <3>2, HidePrepared, KeptPrepared, OpenPrepared
    <3>4. ASSUME NEW q \in Panels, q # p, OpensAlone(panel'[q]) PROVE ~OpensAlone(panel'[p])
      <4>1. OpensAlone(panel[q]) /\ panel[q].data = "show" /\ panel[q].collapsing
        BY <2>1, <3>2, <3>4, HidePrepared, KeptPrepared
      <4>2. q \in actives \ {p}
        BY <3>4, <4>1 DEF actives
      <4>3. PICK f \in actives \ {p} : \A k \in actives \ {p} : f <= k
        <5>1. actives \ {p} \in SUBSET Nat
          BY PanelsAssumption DEF actives
        <5> QED
          BY <4>2, <5>1, HasFirst
      <4>4. f \in Panels /\ ~isTransitioning(panel[f])
        BY <2>3, <4>3 DEF held, firstOf, actives
      <4>5. panel[f].show
        BY <2>1, <4>3, <4>4 DEF actives, PanelPrepared
      <4>6. f # q
        BY <4>1, <4>4 DEF isTransitioning
      <4>7. panel[f].extra
        BY <2>1, <4>1, <4>4, <4>5, <4>6 DEF OneOpens, OpensAlone, Opens
      <4>8. openPanel(panel[p]).extra
        BY <2>1, <3>1, <4>4, <4>7, OpenPrepared
      <4> QED
        BY <3>2, <4>8 DEF OpensAlone
    <3>5. ASSUME NEW q \in Panels, NEW k \in Panels, q # p, k # p,
                 OpensAlone(panel'[q]), OpensAlone(panel'[k])
          PROVE  q = k
      BY <2>1, <3>2, <3>5, HidePrepared, KeptPrepared DEF OneOpens
    <3>6. OneOpens'
      BY <3>4, <3>5 DEF OneOpens, OpensAlone, Opens
    <3> QED
      BY <3>3, <3>6 DEF PanelPrepared
  <2> QED
    BY <2>2, <2>3
<1> QED
  BY <1>1, <1>2, <1>3, <1>4 DEF CollapseInv, PanelAgrees

LEMMA CollapseInvStep == CollapseInv /\ [CollapseNext]_collapseVars => CollapseInv'
<1> SUFFICES ASSUME CollapseInv, [CollapseNext]_collapseVars PROVE CollapseInv'
  OBVIOUS
<1>t. \A p \in Panels : panel[p] \in Panel /\ PanelAgrees(panel[p])
  BY DEF CollapseInv
<1>1. ASSUME NEW p \in Panels, HidePanel(p) PROVE CollapseInv'
  <2> DEFINE r == hidePanel(created(panel[p]))
  <2>1. PanelAgrees(r)
    BY <1>t, CreatedAgrees, HideAgrees
  <2>2. panel' = [panel EXCEPT ![p] = r] /\ accordion' = accordion /\ prepared' = prepared
    BY <1>1 DEF HidePanel
  <2>3. PanelPrepared(panel[p]) => PanelPrepared(r) /\ (OpensAlone(r) => OpensAlone(panel[p]))
    BY <1>t, CreatedAgrees, HidePrepared DEF PanelPrepared
  <2> HIDE DEF r
  <2> QED
    BY <2>1, <2>2, <2>3, OnePanelChanges DEF CollapseInv
<1>2. ASSUME NEW p \in Panels, PanelPrevented(p) PROVE CollapseInv'
  <2>1. PanelAgrees(created(panel[p])) /\ ~PanelPrepared(panel[p])
    BY <1>2, <1>t, CreatedAgrees DEF PanelPrevented, PanelPrepared
  <2> QED
    BY <1>2, <2>1, OnePanelChanges DEF PanelPrevented, CollapseInv
<1>3. ASSUME NEW p \in Panels, PanelTransitionEnd(p) PROVE CollapseInv'
  <2>1. PanelAgrees(settled(panel[p]))
    BY <1>3, <1>t, SettledAgrees DEF PanelTransitionEnd
  <2>2. PanelPrepared(panel[p]) =>
            PanelPrepared(settled(panel[p])) /\ (OpensAlone(settled(panel[p])) => OpensAlone(panel[p]))
    BY <1>3, <1>t, SettledPrepared DEF PanelTransitionEnd
  <2> QED
    BY <1>3, <2>1, <2>2, OnePanelChanges DEF PanelTransitionEnd, CollapseInv
<1>4. ASSUME NEW p \in Panels, DisposePanel(p) PROVE CollapseInv'
  <2>1. PanelAgrees(forgotten(panel[p]))
    BY <1>4, <1>t, ForgottenAgrees DEF DisposePanel
  <2>2. panel' = [panel EXCEPT ![p] = forgotten(panel[p])] /\ accordion' = accordion /\ ~prepared'
        /\ prepared' \in BOOLEAN
    BY <1>4 DEF DisposePanel
  <2>3. forgotten(panel[p]) \in Panel
    BY <2>1 DEF PanelAgrees
  <2>4. \A q \in Panels : panel'[q] = IF q = p THEN forgotten(panel[p]) ELSE panel[q]
    BY <2>2 DEF CollapseInv
  <2> QED
    BY <1>t, <2>1, <2>2, <2>3, <2>4 DEF CollapseInv, AccordionInv, PanelAgrees
<1>5. CASE UNCHANGED collapseVars
  BY <1>5 DEF collapseVars, CollapseInv, PanelAgrees, AccordionInv, PanelPrepared, OneOpens, OpensAlone, Opens
<1> QED
  BY <1>1, <1>2, <1>3, <1>4, <1>5, ShowPanelStep DEF CollapseNext

\* At most one panel of an accordion is open when nothing moves, for any number of panels
\* clicked while others move, if the page made their instances when it loaded; panels kept
\* open by a listener, and those that opened beside them, do not count.
THEOREM AccordionsOpenOne == CollapseSpec => []AccordionOpensOne
<1>1. CollapseInv => AccordionOpensOne
  <2> SUFFICES ASSUME CollapseInv, accordion, prepared, \A p \in Panels : panel[p].waiting = {}
               PROVE  Cardinality({p \in Panels : panel[p].show /\ ~panel[p].extra}) <= 1
    BY DEF AccordionOpensOne
  <2>1. \A p, q \in {r \in Panels : panel[r].show /\ ~panel[r].extra} : p = q
    BY DEF CollapseInv, AccordionInv, OneOpens, OpensAlone, Opens
  <2> QED
    BY <2>1, AtMostOne
<1> QED
  BY <1>1, CollapseInvInit, CollapseInvStep, PTL DEF CollapseSpec

\* The trigger of a panel that is at rest tells whether it is open, for any number of
\* panels, in an accordion or not, with instances made, lost and disposed.
THEOREM TriggersAreRight == CollapseSpec => []TriggersAgree
<1>1. CollapseInv => TriggersAgree
  <2> SUFFICES ASSUME CollapseInv, NEW p \in Panels, ~panel[p].collapsing, ~panel[p].cut
               PROVE  panel[p].collapsed = ~panel[p].show
    BY DEF TriggersAgree
  <2>1. panel[p].collapsed <=> ~panel[p].show
    BY DEF CollapseInv, PanelAgrees
  <2>2. panel[p].collapsed \in BOOLEAN /\ panel[p].show \in BOOLEAN
    BY DEF CollapseInv, Panel
  <2> QED
    BY <2>1, <2>2
<1> QED
  BY <1>1, CollapseInvInit, CollapseInvStep, PTL DEF CollapseSpec

--------------------------------------------------------------------------------
(* Dropdown *)

\* A menu whose toggle is disabled never opens: so none comes to know an open one.
DropdownInv ==
    /\ DropdownTypeOK
    /\ expanded = openMenus /\ openMenus \intersect DisabledToggles = {}
    /\ \A x, y \in (openMenus \intersect instances) \ vetoed : x = y

LEMMA DropdownInvInit == DropdownInit => DropdownInv
  BY DropdownAssumption DEF DropdownInit, DropdownInv, DropdownTypeOK, Focuses

LEMMA FocusParts ==
    ASSUME NEW focus \in Focuses, focus # NoFocus
    PROVE  /\ focus = <<focus[1], focus[2]>> /\ focus[1] \in Menus /\ focus[2] \in 0..MenuItems
           /\ \A i \in 0..MenuItems : <<focus[1], i>> \in Focuses
                                       /\ [focus EXCEPT ![2] = i] = <<focus[1], i>>
  BY DEF Focuses

LEMMA CloseKeepsDropdown ==
    ASSUME DropdownInv, NEW spared, NEW focus \in Focuses, close(spared, focus),
           UNCHANGED <<instances, vetoed>>
    PROVE  DropdownInv'
<1>1. leftOpen(spared) \subseteq openMenus
  BY DEF leftOpen
<1>2. keptFocus(focus, leftOpen(spared)) \in Focuses
  BY DEF keptFocus, Focuses
<1> QED
  BY <1>1, <1>2 DEF close, DropdownInv, DropdownTypeOK

LEMMA ToggleKeepsDropdown ==
    ASSUME DropdownInv, NEW m \in Menus, NEW prevented \in BOOLEAN, NEW focus \in Focuses,
           toggle(m, prevented, focus)
    PROVE  DropdownInv'
<1> DEFINE left == {o \in openMenus : o \notin instances \union {m} \/ o \in vetoed}
<1>1. instances' = instances \union {m} /\ vetoed' = vetoed
  BY DEF toggle
<1>2. <<m, 0>> \in Focuses /\ keptFocus(focus, left) \in Focuses
  BY DropdownAssumption DEF keptFocus, Focuses
<1>3. CASE m \in DisabledToggles
  <2>1. UNCHANGED <<openMenus, expanded>> /\ focusAt' = focus
    BY <1>3 DEF toggle
  <2> QED
    BY <1>1, <1>3, <2>1 DEF DropdownInv, DropdownTypeOK
<1>4. CASE m \notin DisabledToggles /\ (m \in openMenus \/ prevented)
  <2>1. /\ openMenus' = left /\ expanded' = expanded \ (openMenus \ left)
        /\ focusAt' = keptFocus(focus, left)
    BY <1>4 DEF toggle
  <2> QED
    BY <1>1, <1>2, <2>1 DEF DropdownInv, DropdownTypeOK
<1>5. CASE m \notin DisabledToggles /\ ~(m \in openMenus \/ prevented)
  <2>1. /\ openMenus' = left \union {m} /\ focusAt' = <<m, 0>>
        /\ expanded' = (expanded \ (openMenus \ left)) \union {m}
    BY <1>5 DEF toggle
  <2> QED
    BY <1>1, <1>2, <1>5, <2>1 DEF DropdownInv, DropdownTypeOK
<1> QED
  BY <1>3, <1>4, <1>5

LEMMA DropdownInvStep == DropdownInv /\ [DropdownNext]_dropdownVars => DropdownInv'
<1> SUFFICES ASSUME DropdownInv, [DropdownNext]_dropdownVars PROVE DropdownInv'
  OBVIOUS
<1>f. focusAt \in Focuses
  BY DEF DropdownInv, DropdownTypeOK
<1>1. ASSUME NEW m \in Menus, ClickToggle(m) PROVE DropdownInv'
  BY <1>1, <1>f, ToggleKeepsDropdown DEF ClickToggle
<1>2. ASSUME NEW m \in Menus, DisposeDropdown(m) PROVE DropdownInv'
  BY <1>2 DEF DisposeDropdown, DropdownInv, DropdownTypeOK
<1>3. ASSUME NEW focus \in Focuses, TabTo(focus) PROVE DropdownInv'
  BY <1>3, CloseKeepsDropdown DEF TabTo
<1>4. ASSUME ClickPage PROVE DropdownInv'
  BY <1>4, <1>f, CloseKeepsDropdown DEF ClickPage
<1>5. ASSUME KeyOpens PROVE DropdownInv'
  <2>1. focusAt[1] \in Menus /\ <<focusAt[1], 0>> \in Focuses
    BY <1>5, <1>f, FocusParts, DropdownAssumption DEF KeyOpens
  <2> QED
    BY <1>5, <2>1, ToggleKeepsDropdown DEF KeyOpens
<1>6. ASSUME KeyCloses PROVE DropdownInv'
  <2>1. focusAt[1] \in Menus /\ <<focusAt[1], 0>> \in Focuses
    BY <1>6, <1>f, FocusParts, DropdownAssumption DEF KeyCloses
  <2>2. PICK focus \in Focuses :
            \/ toggle(focusAt[1], FALSE, focus)
            \/ close({}, focus) /\ UNCHANGED <<instances, vetoed>>
    BY <1>6, <1>f, <2>1 DEF KeyCloses
  <2> QED
    BY <2>1, <2>2, CloseKeepsDropdown, ToggleKeepsDropdown
<1>7. ASSUME KeyMoves PROVE DropdownInv'
  <2>1. focusAt # NoFocus /\ MenuItems > 0 /\ MenuItems \in Nat
        /\ UNCHANGED <<openMenus, expanded, instances, vetoed>>
    BY <1>7, DropdownAssumption DEF KeyMoves
  <2>2. focusAt[2] \in 0..MenuItems
    BY <1>f, <2>1, FocusParts
  <2>3. PICK i \in 0..MenuItems : focusAt' = [focusAt EXCEPT ![2] = i]
    <3> DEFINE up == IF focusAt[2] > 1 THEN focusAt[2] - 1 ELSE 1
               down == IF focusAt[2] < MenuItems THEN focusAt[2] + 1 ELSE focusAt[2]
    <3>1. up \in 0..MenuItems /\ down \in 0..MenuItems
      BY <2>1, <2>2
    <3>2. focusAt' = [focusAt EXCEPT ![2] = up] \/ focusAt' = [focusAt EXCEPT ![2] = down]
      BY <1>7 DEF KeyMoves
    <3> QED
      BY <3>1, <3>2
  <2>4. focusAt' \in Focuses
    BY <1>f, <2>1, <2>3, FocusParts
  <2> QED
    BY <2>1, <2>4 DEF DropdownInv, DropdownTypeOK
<1>8. CASE UNCHANGED dropdownVars
  BY <1>8 DEF dropdownVars, DropdownInv, DropdownTypeOK
<1> QED
  BY <1>1, <1>2, <1>3, <1>4, <1>5, <1>6, <1>7, <1>8 DEF DropdownNext

\* At most one menu that knows of the others is open, and the toggles tell which are: for
\* any number of menus, of disabled toggles, and of menus whose page keeps them open.
THEOREM MenusOpenAlone == DropdownSpec => []OneMenuOpen
<1>1. DropdownInv => OneMenuOpen
  BY AtMostOne DEF DropdownInv, OneMenuOpen
<1> QED
  BY <1>1, DropdownInvInit, DropdownInvStep, PTL DEF DropdownSpec

--------------------------------------------------------------------------------
(* Modal *)

AModal == [shown : BOOLEAN, busy : BOOLEAN, display : BOOLEAN, open : BOOLEAN,
           padded : BOOLEAN, backdrop : Backdrops \union {NoBackdrop},
           inPage : SUBSET Backdrops, waits : SUBSET {"hide", "shown", "enter", "leave"},
           ignore : BOOLEAN, mouseup : BOOLEAN, fade : BOOLEAN, hasBackdrop : BOOLEAN,
           static : BOOLEAN, overflow : BOOLEAN, spoilt : BOOLEAN]

\* One handler waits at a time, but for the dialog shown again while its old backdrop
\* fades; who may show it again leaves at most one backdrop behind, so there is an
\* element for the next.
ModalMoves(m) ==
    /\ m.waits \in IF m.shown THEN {{}, {"enter"}, {"shown"}, {"enter", "leave"}}
                   ELSE {{}, {"hide"}, {"leave"}}
    /\ m.waits # {} => m.fade /\ (m.busy \/ m.waits = {"leave"})
    /\ "enter" \in m.waits \/ "leave" \in m.waits => m.backdrop # NoBackdrop
    /\ m.backdrop # NoBackdrop => m.hasBackdrop /\ m.backdrop \in m.inPage
    /\ ~m.shown /\ m.waits = {} => m.backdrop = NoBackdrop
    /\ m.padded => m.open
    /\ ~(m.shown /\ m.busy) \/ m.waits \in {{"shown"}, {"enter"}} =>
           \A b, c \in m.inPage \ {m.backdrop} : b = c

\* What is on the page, at rest and on the way, of a modal that is not spoilt.
ModalIsClean(m) ==
    ~m.spoilt =>
        /\ m.shown => "leave" \notin m.waits
        /\ m.display <=> (m.shown /\ "enter" \notin m.waits) \/ "hide" \in m.waits
        /\ m.open <=> m.shown \/ m.waits # {}
        /\ m.padded <=> m.open /\ m.overflow
        /\ m.backdrop # NoBackdrop <=> m.open /\ m.hasBackdrop
        /\ m.inPage = IF m.backdrop = NoBackdrop THEN {} ELSE {m.backdrop}

ModalGood(m) == m \in AModal /\ ModalMoves(m) /\ ModalIsClean(m)

LEMMA ModalTypes == ModalTypeOK <=> modal \in AModal
  BY DEF ModalTypeOK, AModal

ModalInv == ModalGood(modal)

LEMMA ModalInvInit == ModalInit => ModalInv
<1> SUFFICES ASSUME NEW fade \in BOOLEAN, NEW hasBackdrop \in BOOLEAN, NEW static \in BOOLEAN,
                    NEW overflow \in BOOLEAN,
                    modal = [shown |-> FALSE, busy |-> FALSE, display |-> FALSE, open |-> FALSE,
                             padded |-> FALSE, backdrop |-> NoBackdrop, inPage |-> {}, waits |-> {},
                             ignore |-> FALSE, mouseup |-> FALSE, fade |-> fade,
                             hasBackdrop |-> hasBackdrop, static |-> static,
                             overflow |-> overflow, spoilt |-> FALSE]
             PROVE  ModalGood(modal)
  BY DEF ModalInit, ModalInv
<1>1. modal \in AModal
  BY DEF AModal
<1>2. ~modal.shown /\ ~modal.busy /\ ~modal.display /\ ~modal.open /\ ~modal.padded
      /\ modal.backdrop = NoBackdrop /\ modal.inPage = {} /\ modal.waits = {}
  OBVIOUS
<1> QED
  BY <1>1, <1>2 DEF ModalGood, ModalMoves, ModalIsClean

\* What the dragging of the mouse and the clicks leave behind.
LEMMA MouseGood ==
    ASSUME NEW m, ModalGood(m), NEW mouseup \in BOOLEAN, NEW ignore \in BOOLEAN
    PROVE  LET n == [m EXCEPT !.mouseup = mouseup, !.ignore = ignore]
           IN ModalGood(n) /\ n.shown = m.shown /\ n.busy = m.busy
<1> DEFINE n == [m EXCEPT !.mouseup = mouseup, !.ignore = ignore]
<1>1. m \in AModal
  BY DEF ModalGood
<1>2. /\ n \in AModal /\ n.shown = m.shown /\ n.busy = m.busy /\ n.display = m.display
      /\ n.open = m.open /\ n.padded = m.padded /\ n.backdrop = m.backdrop
      /\ n.inPage = m.inPage /\ n.waits = m.waits /\ n.fade = m.fade
      /\ n.hasBackdrop = m.hasBackdrop /\ n.overflow = m.overflow /\ n.spoilt = m.spoilt
  BY <1>1 DEF AModal
<1> HIDE DEF n
<1>3. ModalMoves(n) /\ ModalIsClean(n)
  BY <1>2 DEF ModalGood, ModalMoves, ModalIsClean
<1> QED
  BY <1>2, <1>3 DEF ModalGood, n

\* Of the element that are made for backdrops one is free.
LEMMA BackdropFree ==
    ASSUME NEW m, ModalGood(m), ~m.shown, ~m.busy
    PROVE  LET b == CHOOSE b \in Backdrops : b \notin m.inPage
           IN b \in Backdrops /\ b \notin m.inPage
<1>1. m.inPage \subseteq {1, 2, 3} /\ \A b, c \in m.inPage \ {m.backdrop} : b = c
  BY DEF ModalGood, ModalMoves, AModal, Backdrops
<1>2. \E b \in {1, 2, 3} : b \notin m.inPage
  BY <1>1
<1>3. Backdrops = {1, 2, 3}
  BY DEF Backdrops
<1> QED
  BY <1>2, <1>3

LEMMA ShowBackdropGood ==
    ASSUME NEW m, ModalGood(m), ~m.shown, ~m.busy, m.hasBackdrop PROVE ModalGood(showModal(m))
<1> DEFINE b == CHOOSE b \in Backdrops : b \notin m.inPage
           sp == m.spoilt \/ "leave" \in m.waits
           pd == m.padded \/ m.overflow
           pg == m.inPage \union {b}
           w == m.waits \union {"enter"}
           n == showModal(m)
<1>1. m \in AModal /\ b \in Backdrops /\ b # NoBackdrop
  BY BackdropFree DEF ModalGood, Backdrops, NoBackdrop
<1>2. /\ sp \in BOOLEAN /\ (sp <=> m.spoilt \/ "leave" \in m.waits)
      /\ pd \in BOOLEAN /\ (pd <=> m.padded \/ m.overflow)
      /\ pg \in SUBSET Backdrops /\ w \in SUBSET {"hide", "shown", "enter", "leave"}
  BY <1>1 DEF AModal
<1>3. m.waits = {} \/ (m.waits = {"leave"} /\ m.fade)
  BY DEF ModalGood, ModalMoves
<1>4. CASE m.fade
  <2>1. n = [m EXCEPT !.busy = TRUE, !.shown = TRUE, !.open = TRUE, !.padded = pd, !.spoilt = sp,
                      !.backdrop = b, !.inPage = pg, !.waits = w]
    BY <1>1, <1>4 DEF showModal, showBackdrop, AModal
  <2>2. w = {"enter"} \/ (w = {"enter", "leave"} /\ "leave" \in m.waits)
    BY <1>3
  <2>3. pg \ {b} \subseteq m.inPage
    OBVIOUS
  <2>4. b \in pg /\ (m.inPage = {} => pg = {b})
    OBVIOUS
  <2> HIDE DEF b, sp, pd, pg, w, n
  <2>5. /\ n \in AModal /\ n.busy = TRUE /\ n.shown = TRUE /\ n.open = TRUE /\ n.padded = pd
        /\ n.spoilt = sp /\ n.backdrop = b /\ n.inPage = pg /\ n.waits = w /\ n.display = m.display
        /\ n.fade = m.fade /\ n.hasBackdrop = m.hasBackdrop /\ n.overflow = m.overflow
    BY <1>1, <1>2, <2>1 DEF AModal
  <2>6. ModalMoves(n)
    <3>1. m.waits = {} => m.backdrop = NoBackdrop
      BY DEF ModalGood, ModalMoves
    <3>2. \A c, d \in m.inPage \ {m.backdrop} : c = d
      BY DEF ModalGood, ModalMoves
    <3>3. NoBackdrop \notin m.inPage
      BY <1>1 DEF AModal, Backdrops, NoBackdrop
    <3>4. m.waits = {} => \A c, d \in pg \ {b} : c = d
      BY <2>3, <3>1, <3>2, <3>3
    <3>5. w = {"enter"} => m.waits = {}
      BY <1>3 DEF w
    <3> QED
      BY <1>1, <1>2, <1>4, <2>2, <2>4, <2>5, <3>4, <3>5 DEF ModalMoves
  <2>7. ModalIsClean(n)
    BY <1>1, <1>2, <2>2, <2>4, <2>5 DEF ModalIsClean, ModalGood, ModalMoves
  <2> QED
    BY <2>5, <2>6, <2>7 DEF ModalGood, n
<1>5. CASE ~m.fade
  <2>1. n = [m EXCEPT !.busy = FALSE, !.shown = TRUE, !.open = TRUE, !.padded = pd, !.spoilt = sp,
                      !.backdrop = b, !.inPage = pg, !.display = TRUE]
    BY <1>1, <1>5 DEF showModal, showBackdrop, showElement, AModal
  <2>2. m.waits = {} /\ m.backdrop = NoBackdrop
    BY <1>3, <1>5 DEF ModalGood, ModalMoves
  <2>3. pg \ {b} \subseteq m.inPage \ {m.backdrop} /\ b \in pg /\ (m.inPage = {} => pg = {b})
    BY <1>1, <2>2 DEF AModal, NoBackdrop, Backdrops
  <2> HIDE DEF b, sp, pd, pg, w, n
  <2>5. /\ n \in AModal /\ n.busy = FALSE /\ n.shown = TRUE /\ n.open = TRUE /\ n.padded = pd
        /\ n.spoilt = sp /\ n.backdrop = b /\ n.inPage = pg /\ n.waits = m.waits /\ n.display = TRUE
        /\ n.fade = m.fade /\ n.hasBackdrop = m.hasBackdrop /\ n.overflow = m.overflow
    BY <1>1, <1>2, <2>1 DEF AModal
  <2>6. ModalMoves(n)
    BY <1>2, <2>2, <2>3, <2>5 DEF ModalGood, ModalMoves
  <2>7. ModalIsClean(n)
    BY <1>1, <1>2, <2>2, <2>3, <2>5 DEF ModalIsClean, ModalGood, ModalMoves
  <2> QED
    BY <2>5, <2>6, <2>7 DEF ModalGood, n
<1> QED
  BY <1>4, <1>5

LEMMA ShowAloneGood ==
    ASSUME NEW m, ModalGood(m), ~m.shown, ~m.busy, ~m.hasBackdrop PROVE ModalGood(showModal(m))
<1> DEFINE pd == m.padded \/ m.overflow
           w == IF m.fade THEN {"shown"} ELSE {}
           n == showModal(m)
<1>1. m \in AModal /\ m.waits = {} /\ m.backdrop = NoBackdrop
  BY DEF ModalGood, ModalMoves
<1>2. pd \in BOOLEAN /\ (pd <=> m.padded \/ m.overflow)
      /\ w \in SUBSET {"hide", "shown", "enter", "leave"}
  BY <1>1 DEF AModal
<1>3. n = [m EXCEPT !.busy = m.fade, !.shown = TRUE, !.open = TRUE, !.padded = pd,
                    !.display = TRUE, !.waits = w]
  <2>1. CASE m.fade
    BY <1>1, <2>1 DEF showModal, showElement, AModal
  <2>2. CASE ~m.fade
    BY <1>1, <2>2 DEF showModal, showElement, AModal
  <2> QED
    BY <2>1, <2>2
<1>4. w = IF m.fade THEN {"shown"} ELSE {}
  OBVIOUS
<1> HIDE DEF pd, w, n
<1>5. /\ n \in AModal /\ n.busy = m.fade /\ n.shown = TRUE /\ n.open = TRUE /\ n.padded = pd
      /\ n.spoilt = m.spoilt /\ n.backdrop = m.backdrop /\ n.inPage = m.inPage /\ n.waits = w
      /\ n.display = TRUE
      /\ n.fade = m.fade /\ n.hasBackdrop = m.hasBackdrop /\ n.overflow = m.overflow
  BY <1>1, <1>2, <1>3 DEF AModal
<1>6. ModalMoves(n)
  BY <1>1, <1>2, <1>4, <1>5 DEF ModalGood, ModalMoves
<1>7. ModalIsClean(n)
  BY <1>1, <1>2, <1>4, <1>5 DEF ModalIsClean, ModalGood, ModalMoves
<1> QED
  BY <1>5, <1>6, <1>7 DEF ModalGood, n

LEMMA PreventedGood ==
    ASSUME NEW m, ModalGood(m), ~m.shown, ~m.busy PROVE ModalGood(showPrevented(m))
<1> DEFINE sp == m.spoilt \/ m.fade
           n == showPrevented(m)
<1>1. m \in AModal
  BY DEF ModalGood
<1>2. sp \in BOOLEAN /\ (sp <=> m.spoilt \/ m.fade)
  BY <1>1 DEF AModal
<1>3. n = [m EXCEPT !.busy = m.fade, !.spoilt = sp]
  BY <1>1 DEF showPrevented, AModal
<1> HIDE DEF sp, n
<1>4. /\ n \in AModal /\ n.busy = m.fade /\ n.shown = m.shown /\ n.open = m.open
      /\ n.padded = m.padded /\ n.spoilt = sp /\ n.backdrop = m.backdrop /\ n.inPage = m.inPage
      /\ n.waits = m.waits /\ n.display = m.display
      /\ n.fade = m.fade /\ n.hasBackdrop = m.hasBackdrop /\ n.overflow = m.overflow
  BY <1>1, <1>2, <1>3 DEF AModal
<1>5. ModalMoves(n) /\ ModalIsClean(n)
  BY <1>2, <1>4 DEF ModalGood, ModalMoves, ModalIsClean
<1> QED
  BY <1>4, <1>5 DEF ModalGood, n

\* A modal that is being hidden, when nothing is left to fade but its backdrop.
ModalGoes(m) ==
    /\ m \in AModal /\ ~m.shown /\ m.waits = {}
    /\ m.backdrop # NoBackdrop => m.hasBackdrop /\ m.backdrop \in m.inPage
    /\ m.padded => m.open
    /\ \A b, c \in m.inPage \ {m.backdrop} : b = c
    /\ ~m.spoilt =>
           /\ m.open /\ (m.padded <=> m.overflow)
           /\ m.backdrop # NoBackdrop <=> m.hasBackdrop
           /\ m.inPage = IF m.backdrop = NoBackdrop THEN {} ELSE {m.backdrop}

LEMMA HideModalGood ==
    ASSUME NEW m, ModalGoes(m) PROVE ModalGood(hideModal(m))
<1> DEFINE n == hideModal(m)
<1>1. m \in AModal /\ ~m.shown /\ m.waits = {}
  BY DEF ModalGoes
<1>2. CASE m.backdrop = NoBackdrop
  <2>1. n = [m EXCEPT !.display = FALSE, !.busy = FALSE, !.open = FALSE, !.padded = FALSE]
    BY <1>1, <1>2 DEF hideModal, restored, AModal
  <2> HIDE DEF n
  <2>2. /\ n \in AModal /\ n.shown = m.shown /\ ~n.busy /\ ~n.display /\ ~n.open /\ ~n.padded
        /\ n.backdrop = m.backdrop /\ n.inPage = m.inPage /\ n.waits = m.waits
        /\ n.fade = m.fade /\ n.hasBackdrop = m.hasBackdrop /\ n.overflow = m.overflow
        /\ n.spoilt = m.spoilt
    BY <1>1, <2>1 DEF AModal
  <2>3. ModalMoves(n)
    BY <1>1, <1>2, <2>2 DEF ModalMoves, ModalGoes
  <2>4. ModalIsClean(n)
    BY <1>1, <1>2, <2>2 DEF ModalIsClean, ModalGoes
  <2> QED
    BY <2>2, <2>3, <2>4 DEF ModalGood, n
<1>3. CASE m.backdrop # NoBackdrop /\ m.fade
  <2>1. n = [m EXCEPT !.display = FALSE, !.busy = FALSE, !.waits = {"leave"}]
    BY <1>1, <1>3 DEF hideModal, AModal
  <2> HIDE DEF n
  <2>2. /\ n \in AModal /\ n.shown = m.shown /\ ~n.busy /\ ~n.display /\ n.open = m.open
        /\ n.padded = m.padded /\ n.backdrop = m.backdrop /\ n.inPage = m.inPage
        /\ n.waits = {"leave"}
        /\ n.fade = m.fade /\ n.hasBackdrop = m.hasBackdrop /\ n.overflow = m.overflow
        /\ n.spoilt = m.spoilt
    BY <1>1, <2>1 DEF AModal
  <2>3. ModalMoves(n)
    BY <1>1, <1>3, <2>2 DEF ModalMoves, ModalGoes
  <2>4. ModalIsClean(n)
    BY <1>1, <1>3, <2>2 DEF ModalIsClean, ModalGoes
  <2> QED
    BY <2>2, <2>3, <2>4 DEF ModalGood, n
<1>4. CASE m.backdrop # NoBackdrop /\ ~m.fade
  <2> DEFINE pg == m.inPage \ {m.backdrop}
  <2>1. n = [m EXCEPT !.display = FALSE, !.busy = FALSE, !.inPage = pg, !.backdrop = NoBackdrop,
                      !.open = FALSE, !.padded = FALSE, !.waits = {}]
    BY <1>1, <1>4 DEF hideModal, restored, removeBackdrop, AModal
  <2>2. /\ pg \in SUBSET Backdrops /\ \A b, c \in pg : b = c
        /\ ~m.spoilt => pg = {}
    BY <1>1, <1>4 DEF AModal, ModalGoes
  <2> HIDE DEF pg, n
  <2>3. /\ n \in AModal /\ n.shown = m.shown /\ ~n.busy /\ ~n.display /\ ~n.open /\ ~n.padded
        /\ n.backdrop = NoBackdrop /\ n.inPage = pg /\ n.waits = {}
        /\ n.fade = m.fade /\ n.hasBackdrop = m.hasBackdrop /\ n.overflow = m.overflow
        /\ n.spoilt = m.spoilt
    BY <1>1, <2>1, <2>2 DEF AModal
  <2>4. ModalMoves(n)
    BY <1>1, <1>4, <2>2, <2>3 DEF ModalMoves
  <2>5. ModalIsClean(n)
    BY <1>1, <1>4, <2>2, <2>3 DEF ModalIsClean
  <2> QED
    BY <2>3, <2>4, <2>5 DEF ModalGood, n
<1> QED
  BY <1>2, <1>3, <1>4

LEMMA HideElementGood ==
    ASSUME NEW m, ModalGood(m), m.shown, ~m.busy PROVE ModalGood(hideElement(m))
<1>1. m \in AModal /\ m.waits = {}
  BY DEF ModalGood, ModalMoves
<1>2. CASE m.fade
  <2> DEFINE n == hideElement(m)
  <2>1. n = [m EXCEPT !.shown = FALSE, !.busy = TRUE, !.waits = {"hide"}]
    BY <1>1, <1>2 DEF hideElement, AModal
  <2> HIDE DEF n
  <2>2. /\ n \in AModal /\ ~n.shown /\ n.busy /\ n.display = m.display /\ n.open = m.open
        /\ n.padded = m.padded /\ n.backdrop = m.backdrop /\ n.inPage = m.inPage
        /\ n.waits = {"hide"}
        /\ n.fade = m.fade /\ n.hasBackdrop = m.hasBackdrop /\ n.overflow = m.overflow
        /\ n.spoilt = m.spoilt
    BY <1>1, <2>1 DEF AModal
  <2>3. ModalMoves(n)
    BY <1>1, <1>2, <2>2 DEF ModalMoves, ModalGood
  <2>4. ModalIsClean(n)
    BY <1>1, <1>2, <2>2 DEF ModalIsClean, ModalGood
  <2> QED
    BY <2>2, <2>3, <2>4 DEF ModalGood, n
<1>3. CASE ~m.fade
  <2> DEFINE n == [m EXCEPT !.shown = FALSE]
  <2>1. /\ n \in AModal /\ ~n.shown /\ n.open = m.open
        /\ n.padded = m.padded /\ n.backdrop = m.backdrop /\ n.inPage = m.inPage
        /\ n.waits = m.waits /\ n.hasBackdrop = m.hasBackdrop /\ n.overflow = m.overflow
        /\ n.spoilt = m.spoilt
    BY <1>1 DEF AModal
  <2>2. hideElement(m) = hideModal(n)
    BY <1>3 DEF hideElement
  <2> HIDE DEF n
  <2>3. ModalGoes(n)
    BY <1>1, <2>1 DEF ModalGoes, ModalGood, ModalMoves, ModalIsClean
  <2> QED
    BY <2>2, <2>3, HideModalGood
<1> QED
  BY <1>2, <1>3

\* The element has faded.
LEMMA ElementEndGood ==
    ASSUME ModalGood(modal), ModalElementEnd PROVE ModalGood(modal')
<1> DEFINE n == ended("hide")
<1>1. modal \in AModal /\ modal.waits = {"hide"} /\ ~modal.shown
  BY DEF ModalGood, ModalMoves, ModalElementEnd
<1>2. n = [modal EXCEPT !.waits = {}]
  BY <1>1 DEF ended
<1> HIDE DEF n
<1>3. /\ n \in AModal /\ n.shown = modal.shown /\ n.open = modal.open
      /\ n.padded = modal.padded /\ n.backdrop = modal.backdrop /\ n.inPage = modal.inPage
      /\ n.waits = {} /\ n.hasBackdrop = modal.hasBackdrop /\ n.overflow = modal.overflow
      /\ n.spoilt = modal.spoilt
  BY <1>1, <1>2 DEF AModal
<1>4. ModalGoes(n)
  BY <1>1, <1>3 DEF ModalGoes, ModalGood, ModalMoves, ModalIsClean
<1> QED
  BY <1>4, HideModalGood DEF ModalElementEnd, n

\* The dialog is in place: nothing waits any more.
LEMMA DialogEndGood ==
    ASSUME ModalGood(modal), ModalDialogEnd PROVE ModalGood(modal')
<1> DEFINE n == modal'
<1>1. modal \in AModal /\ modal.waits = {"shown"} /\ modal.shown
  BY DEF ModalGood, ModalMoves, ModalDialogEnd
<1>2. n = [modal EXCEPT !.waits = {}, !.busy = FALSE]
  BY <1>1 DEF ModalDialogEnd, ended
<1> HIDE DEF n
<1>3. /\ n \in AModal /\ n.shown = modal.shown /\ ~n.busy /\ n.display = modal.display
      /\ n.open = modal.open /\ n.padded = modal.padded /\ n.backdrop = modal.backdrop
      /\ n.inPage = modal.inPage /\ n.waits = {} /\ n.fade = modal.fade
      /\ n.hasBackdrop = modal.hasBackdrop /\ n.overflow = modal.overflow
      /\ n.spoilt = modal.spoilt
  BY <1>1, <1>2 DEF AModal
<1>4. ModalMoves(n)
  BY <1>1, <1>3 DEF ModalGood, ModalMoves
<1>5. ModalIsClean(n)
  BY <1>1, <1>3 DEF ModalGood, ModalMoves, ModalIsClean
<1> QED
  BY <1>3, <1>4, <1>5 DEF ModalGood, n

\* The backdrop is there: the dialog moves.
LEMMA EnterEndGood ==
    ASSUME ModalGood(modal), ModalEnterEnd PROVE ModalGood(modal')
<1> DEFINE n == modal'
<1>1. /\ modal \in AModal /\ modal.waits = {"enter"} /\ modal.shown /\ modal.fade /\ modal.busy
  BY DEF ModalGood, ModalMoves, ModalEnterEnd
<1>2. n = [modal EXCEPT !.display = TRUE, !.waits = {"shown"}]
  BY <1>1 DEF ModalEnterEnd, ended, showElement, AModal
<1> HIDE DEF n
<1>3. /\ n \in AModal /\ n.shown = modal.shown /\ n.busy = modal.busy /\ n.display = TRUE
      /\ n.open = modal.open /\ n.padded = modal.padded /\ n.backdrop = modal.backdrop
      /\ n.inPage = modal.inPage /\ n.waits = {"shown"} /\ n.fade = modal.fade
      /\ n.hasBackdrop = modal.hasBackdrop /\ n.overflow = modal.overflow
      /\ n.spoilt = modal.spoilt
  BY <1>1, <1>2 DEF AModal
<1>4. ModalMoves(n)
  BY <1>1, <1>3 DEF ModalGood, ModalMoves
<1>5. ModalIsClean(n)
  BY <1>1, <1>3 DEF ModalGood, ModalMoves, ModalIsClean
<1> QED
  BY <1>3, <1>4, <1>5 DEF ModalGood, n

\* The old backdrop has faded; what its handler removes is the backdrop of now.
LEMMA LeaveEndGood ==
    ASSUME ModalGood(modal), ModalLeaveEnd PROVE ModalGood(modal')
<1> DEFINE n == modal'
           pg == modal.inPage \ {modal.backdrop}
<1>1. /\ modal \in AModal
      /\ \/ modal.shown /\ modal.busy /\ modal.spoilt /\ modal.waits = {"enter", "leave"}
         \/ ~modal.shown /\ modal.waits = {"leave"}
  <2>1. modal \in AModal /\ "leave" \in modal.waits
    BY DEF ModalGood, ModalLeaveEnd
  <2>2. /\ modal.shown => modal.waits = {"enter", "leave"}
        /\ ~modal.shown => modal.waits = {"leave"}
    BY <2>1 DEF ModalGood, ModalMoves
  <2>3. modal.shown => modal.waits # {} /\ modal.waits # {"leave"}
    BY <2>2
  <2>4. modal.shown => modal.busy /\ modal.spoilt
    BY <2>1, <2>3 DEF ModalGood, ModalMoves, ModalIsClean
  <2>5. CASE modal.shown
    BY <2>1, <2>2, <2>4, <2>5
  <2>6. CASE ~modal.shown
    BY <2>1, <2>2, <2>6
  <2> QED
    BY <2>5, <2>6
<1>2. (modal.waits \ {"leave"}) \ {"enter"} = {}
  BY <1>1
<1>3. n = [modal EXCEPT !.waits = (modal.waits \ {"leave"}) \ {"enter"}, !.inPage = pg,
                        !.backdrop = NoBackdrop, !.open = FALSE, !.padded = FALSE]
  BY <1>1 DEF ModalLeaveEnd, ended, restored, removeBackdrop, AModal
<1>4. /\ pg \in SUBSET Backdrops /\ (~modal.shown => \A b, c \in pg : b = c)
      /\ ~modal.spoilt => pg = {} /\ ~modal.display
  BY <1>1 DEF AModal, ModalGood, ModalMoves, ModalIsClean
<1> HIDE DEF n, pg
<1>5. /\ n \in AModal /\ n.shown = modal.shown /\ n.busy = modal.busy /\ n.display = modal.display
      /\ ~n.open /\ ~n.padded /\ n.backdrop = NoBackdrop
      /\ n.inPage = pg /\ n.waits = {} /\ n.fade = modal.fade
      /\ n.hasBackdrop = modal.hasBackdrop /\ n.overflow = modal.overflow
      /\ n.spoilt = modal.spoilt
  BY <1>1, <1>2, <1>3, <1>4 DEF AModal
<1>6. ModalMoves(n)
  <2>1. ~(n.shown /\ n.busy) => \A b, c \in n.inPage \ {n.backdrop} : b = c
    BY <1>1, <1>4, <1>5
  <2> QED
    BY <1>5, <2>1 DEF ModalMoves
<1>7. ModalIsClean(n)
  BY <1>1, <1>4, <1>5 DEF ModalIsClean
<1> QED
  BY <1>5, <1>6, <1>7 DEF ModalGood, n

\* Two elements are free: then one is in the page at most.
LEMMA OneBackdropLeft ==
    ASSUME modal \in AModal, Cardinality(Backdrops \ modal.inPage) >= 2
    PROVE  \A b, c \in modal.inPage : b = c
<1> SUFFICES ASSUME NEW b \in modal.inPage, NEW c \in modal.inPage, b # c PROVE FALSE
  OBVIOUS
<1> DEFINE free == Backdrops \ modal.inPage
<1>1. b \in {1, 2, 3} /\ c \in {1, 2, 3} /\ free \subseteq {1, 2, 3} \ {b, c}
  BY DEF AModal, Backdrops
<1>2. \A x, y \in free : x = y
  BY <1>1
<1>3. free \subseteq Backdrops /\ IsFiniteSet(Backdrops)
  <2>1. 1 \in Int /\ 3 \in Int
    OBVIOUS
  <2>2. IsFiniteSet(1..3)
    BY <2>1, FS_Interval
  <2> QED
    BY <2>2 DEF Backdrops
<1>4. Cardinality(free) <= 1 /\ Cardinality(free) \in Nat
  BY <1>2, <1>3, AtMostOne, FS_Subset, FS_CardinalityType
<1> QED
  BY <1>4

LEMMA DisposeGood ==
    ASSUME ModalGood(modal), DisposeModal PROVE ModalGood(modal')
<1> DEFINE n == modal'
           sp == modal.shown \/ modal.waits # {} \/ modal.display \/ modal.open \/ modal.inPage # {}
<1>1. modal \in AModal /\ \A b, c \in modal.inPage : b = c
  BY OneBackdropLeft DEF ModalGood, DisposeModal
<1>2. n = [modal EXCEPT !.shown = FALSE, !.busy = FALSE, !.backdrop = NoBackdrop, !.waits = {},
                        !.ignore = FALSE, !.mouseup = FALSE, !.spoilt = sp]
  BY DEF DisposeModal
<1>3. sp \in BOOLEAN /\ (~sp => ~modal.display /\ ~modal.open /\ modal.inPage = {})
  BY <1>1 DEF AModal
<1> HIDE DEF n, sp
<1>4. /\ n \in AModal /\ ~n.shown /\ ~n.busy /\ n.display = modal.display
      /\ n.open = modal.open /\ n.padded = modal.padded /\ n.backdrop = NoBackdrop
      /\ n.inPage = modal.inPage /\ n.waits = {} /\ n.fade = modal.fade
      /\ n.hasBackdrop = modal.hasBackdrop /\ n.overflow = modal.overflow /\ n.spoilt = sp
  BY <1>1, <1>2, <1>3 DEF AModal
<1>5. modal.padded => modal.open
  BY DEF ModalGood, ModalMoves
<1>6. ModalMoves(n)
  BY <1>1, <1>4, <1>5 DEF ModalMoves
<1>7. ModalIsClean(n)
  BY <1>3, <1>4, <1>5 DEF ModalIsClean
<1> QED
  BY <1>4, <1>6, <1>7 DEF ModalGood, n

\* A show, of a modal that neither moves nor is shown.
LEMMA ShowGood ==
    ASSUME ModalGood(modal), ShowModal PROVE ModalGood(modal')
<1>1. CASE modal' = showModal(modal)
  <2>1. CASE modal.hasBackdrop
    BY <1>1, <2>1, ShowBackdropGood DEF ShowModal
  <2>2. CASE ~modal.hasBackdrop
    BY <1>1, <2>2, ShowAloneGood DEF ShowModal
  <2> QED
    BY <2>1, <2>2
<1>2. CASE modal' = showPrevented(modal)
  BY <1>2, PreventedGood DEF ShowModal
<1> QED
  BY <1>1, <1>2 DEF ShowModal

\* The mouse goes down and up: only where it did is remembered.
LEMMA DragGood ==
    ASSUME ModalGood(modal), ModalDrag PROVE ModalGood(modal')
<1>1. modal \in AModal /\ modal.ignore \in BOOLEAN /\ modal.hasBackdrop \in BOOLEAN
  BY DEF ModalGood, AModal
<1>2. modal = [modal EXCEPT !.ignore = modal.ignore]
  BY <1>1 DEF AModal
<1>3. CASE modal' = [modal EXCEPT !.mouseup = TRUE]
  <2>1. modal' = [modal EXCEPT !.mouseup = TRUE, !.ignore = modal.ignore]
    BY <1>1, <1>3 DEF AModal
  <2> QED
    BY <1>1, <2>1, MouseGood
<1>4. CASE modal' = [modal EXCEPT !.mouseup = FALSE]
  <2>1. modal' = [modal EXCEPT !.mouseup = FALSE, !.ignore = modal.ignore]
    BY <1>1, <1>4 DEF AModal
  <2> QED
    BY <1>1, <2>1, MouseGood
<1>5. CASE modal' = [modal EXCEPT !.mouseup = FALSE, !.ignore = ~modal.hasBackdrop]
  <2>1. (~modal.hasBackdrop) \in BOOLEAN
    BY <1>1
  <2> QED
    BY <1>5, <2>1, MouseGood
<1> QED
  BY <1>3, <1>4, <1>5 DEF ModalDrag

\* A click beside the dialog hides it, or is ignored.
LEMMA ClickGood ==
    ASSUME ModalGood(modal), ClickBackdrop PROVE ModalGood(modal')
<1> DEFINE ig == modal.ignore \/ modal.mouseup
           up == [modal EXCEPT !.mouseup = FALSE, !.ignore = ig]
<1>1. modal \in AModal /\ ig \in BOOLEAN
  BY DEF ModalGood, AModal
<1>2. up = [modal EXCEPT !.mouseup = FALSE, !.ignore = @ \/ modal.mouseup]
  BY <1>1 DEF AModal
<1>3. ModalGood(up) /\ up.shown = modal.shown /\ up.busy = modal.busy
  BY <1>1, MouseGood
<1>4. \/ modal' = up
      \/ modal' = [up EXCEPT !.ignore = FALSE]
      \/ ~up.busy /\ modal' = hideElement(up)
  BY <1>2 DEF ClickBackdrop
<1>5. up \in AModal /\ up.mouseup \in BOOLEAN
  BY <1>3 DEF ModalGood, AModal
<1>6. [up EXCEPT !.ignore = FALSE] = [up EXCEPT !.mouseup = up.mouseup, !.ignore = FALSE]
  BY <1>5 DEF AModal
<1>7. ModalGood([up EXCEPT !.mouseup = up.mouseup, !.ignore = FALSE])
  BY <1>3, <1>5, MouseGood
<1>8. modal.shown
  BY DEF ClickBackdrop
<1> HIDE DEF up
<1>9. ~up.busy => ModalGood(hideElement(up))
  BY <1>3, <1>8, HideElementGood
<1> QED
  BY <1>3, <1>4, <1>6, <1>7, <1>9

LEMMA ModalInvStep == ModalInv /\ [ModalNext]_modal => ModalInv'
<1> SUFFICES ASSUME ModalGood(modal), [ModalNext]_modal PROVE ModalGood(modal')
  BY DEF ModalInv
<1>1. CASE ShowModal
  BY <1>1, ShowGood
<1>2. CASE HideModal
  BY <1>2, HideElementGood DEF HideModal
<1>3. CASE ModalDrag
  BY <1>3, DragGood
<1>4. CASE ClickBackdrop
  BY <1>4, ClickGood
<1>5. CASE DisposeModal
  BY <1>5, DisposeGood
<1>6. CASE ModalElementEnd
  BY <1>6, ElementEndGood
<1>7. CASE ModalDialogEnd
  BY <1>7, DialogEndGood
<1>8. CASE ModalEnterEnd
  BY <1>8, EnterEndGood
<1>9. CASE ModalLeaveEnd
  BY <1>9, LeaveEndGood
<1>10. CASE UNCHANGED modal
  BY <1>10
<1> QED
  BY <1>1, <1>2, <1>3, <1>4, <1>5, <1>6, <1>7, <1>8, <1>9, <1>10 DEF ModalNext

\* When nothing moves, the page is as the modal says: displayed over its one backdrop, on a
\* body that does not scroll, or gone without a trace.  However the ends of the transitions,
\* clicks, drags and disposals come, and for a modal with each choice of options.
THEOREM ModalsRest == ModalSpec => []ModalAtRest
<1>1. ModalInv => ModalAtRest
  <2> SUFFICES ASSUME ModalGood(modal), modal.waits = {}, ~modal.spoilt
               PROVE  /\ modal.display = modal.shown /\ modal.open = modal.shown
                      /\ modal.padded = (modal.shown /\ modal.overflow)
                      /\ modal.inPage = IF modal.shown /\ modal.hasBackdrop
                                        THEN {modal.backdrop} ELSE {}
    BY DEF ModalAtRest, ModalInv
  <2>1. /\ modal.display \in BOOLEAN /\ modal.shown \in BOOLEAN /\ modal.open \in BOOLEAN
        /\ modal.padded \in BOOLEAN /\ modal.overflow \in BOOLEAN /\ modal.hasBackdrop \in BOOLEAN
    BY DEF ModalGood, AModal
  <2>2. /\ modal.display <=> modal.shown
        /\ modal.open <=> modal.shown
        /\ modal.padded <=> modal.shown /\ modal.overflow
        /\ modal.backdrop # NoBackdrop <=> modal.shown /\ modal.hasBackdrop
        /\ modal.inPage = IF modal.backdrop = NoBackdrop THEN {} ELSE {modal.backdrop}
    BY DEF ModalGood, ModalIsClean
  <2> QED
    BY <2>1, <2>2
<1> QED
  BY <1>1, ModalInvInit, ModalInvStep, PTL DEF ModalSpec
--------------------------------------------------------------------------------
(* Tab *)

\* The panes before the first handler and after each one.
HandlersShow(h, shown, from, seq) ==
    /\ h \in [0..Len(seq) -> SUBSET Tabs] /\ h[0] = shown
    /\ \A k \in 0..Len(seq) - 1 : h[k + 1] = transitionComplete(h[k], from, seq[k + 1])
    /\ handlersRun(shown, from, seq) = h[Len(seq)]

LEMMA HandlersRunInOrder ==
    ASSUME NEW shown \in SUBSET Tabs, NEW from, NEW seq \in Seq(Tabs)
    PROVE  \E h : HandlersShow(h, shown, from, seq)
<1> DEFINE n == Len(seq)
           X == SUBSET Tabs
           F == [p \in X \X Tabs |-> transitionComplete(p[1], from, p[2])]
           f == CHOOSE f : f = [s \in SUBSET DOMAIN seq |->
                                  IF s = {} THEN shown
                                  ELSE transitionComplete(f[s \ {Max(s)}], from, seq[Max(s)])]
<1>1. n \in Nat /\ DOMAIN seq = 1..n
  OBVIOUS
<1>2. F \in [X \X Tabs -> X]
  BY DEF transitionComplete
<1>3. PICK g \in [SUBSET (1..n) -> X] : FoldsBy(g, F, shown, seq, n)
  BY <1>2, FoldExists
<1>4. g = [s \in SUBSET DOMAIN seq |-> IF s = {} THEN shown
                                       ELSE transitionComplete(g[s \ {Max(s)}], from, seq[Max(s)])]
  <2>1. ASSUME NEW s \in SUBSET (1..n)
        PROVE  g[s] = IF s = {} THEN shown
                      ELSE transitionComplete(g[s \ {Max(s)}], from, seq[Max(s)])
    <3>1. CASE s # {}
      <4>1. g[s] = F[<<g[s \ {Max(s)}], seq[Max(s)]>>]
        BY <1>3, <3>1 DEF FoldsBy
      <4>2. Max(s) \in s
        BY <1>1, <3>1, LastOfSet
      <4>3. Max(s) \in 1..n
        BY <4>2
      <4>4. s \ {Max(s)} \in SUBSET (1..n)
        OBVIOUS
      <4>5. seq[Max(s)] \in Tabs
        BY <1>1, <4>3
      <4> QED
        BY <1>3, <4>1, <4>4, <4>5, <3>1
    <3>2. CASE s = {}
      BY <1>3, <3>2 DEF FoldsBy
    <3> QED
      BY <3>1, <3>2
  <2> QED
    BY <1>1, <1>3, <2>1
<1>5. f = [s \in SUBSET DOMAIN seq |-> IF s = {} THEN shown
                                       ELSE transitionComplete(f[s \ {Max(s)}], from, seq[Max(s)])]
  BY <1>4
<1>6. handlersRun(shown, from, seq) = f[1..n]
  BY <1>1 DEF handlersRun, FoldLeft, MapThenFoldSet
<1> HIDE DEF f
<1> DEFINE h == [k \in 0..n |-> f[1..k]]
<1>7. \A k \in 0..n - 1 : h[k + 1] = transitionComplete(h[k], from, seq[k + 1])
  <2> TAKE k \in 0..n - 1
  <2>1. /\ k \in 0..n /\ k + 1 \in 0..n
        /\ 1..k + 1 \in SUBSET (1..n) /\ 1..k + 1 # {}
        /\ Max(1..k + 1) = k + 1 /\ (1..k + 1) \ {k + 1} = 1..k
    BY <1>1, LastOfSegment
  <2>2. f[1..k + 1] = transitionComplete(f[1..k], from, seq[k + 1])
    BY <1>1, <1>5, <2>1
  <2> QED
    BY <2>1, <2>2
<1>8. h[0] = shown
  <2>1. 1..0 = {} /\ 0 \in 0..n
    BY <1>1
  <2> QED
    BY <1>5, <2>1
<1> DEFINE K == {k \in Nat : k <= n => h[k] \in X}
<1>9. 0 \in K
  BY <1>8
<1>10. \A k \in Nat : k \in K => k + 1 \in K
  <2> SUFFICES ASSUME NEW k \in Nat, k \in K, k + 1 <= n PROVE h[k + 1] \in X
    OBVIOUS
  <2>1. k \in 0..n - 1 /\ h[k] \in X /\ seq[k + 1] \in Tabs
    BY <1>1
  <2> HIDE DEF h
  <2> QED
    BY <1>7, <2>1 DEF transitionComplete
<1>11. \A k \in 0..n : h[k] \in X
  <2> HIDE DEF K, h
  <2>1. Nat \subseteq K
    BY <1>9, <1>10, EveryNumber
  <2> QED
    BY <2>1, <1>1 DEF K
<1>12. h \in [0..n -> X] /\ h[n] = f[1..n]
  BY <1>1, <1>11
<1> HIDE DEF h
<1>13. HandlersShow(h, shown, from, seq)
  BY <1>6, <1>7, <1>8, <1>12 DEF HandlersShow
<1> QED
  BY <1>13

\* The pane of the last click comes when nothing fades any more, and until a click meets a
\* fade there is one pane and at most one handler.
TabInv ==
    /\ TabTypeOK
    /\ fading = <<>> => activeLink \in panes
    /\ fading # <<>> => tabsFade /\ fading[Len(fading)] = activeLink
    /\ ~hasty => (\E p \in Tabs : panes = {p}) /\ Len(fading) <= 1

TabFacts ==
    /\ activeLink \in Tabs /\ panes \in SUBSET Tabs /\ fading \in Seq(Tabs)
    /\ Len(fading) <= MaxHasty /\ tabsFade \in BOOLEAN /\ hasty \in BOOLEAN

LEMMA TabTypes == TabTypeOK <=> TabFacts
<1>1. MaxHasty \in Nat
  BY TabAssumption
<1> QED
  BY <1>1, BoundedSequences DEF TabTypeOK, TabFacts

LEMMA TabInvInit == TabInit => TabInv
<1> SUFFICES ASSUME TabInit PROVE TabInv
  OBVIOUS
<1>1. fading \in Seq(Tabs) /\ Len(fading) = 0 /\ MaxHasty \in Nat
  BY TabAssumption DEF TabInit
<1>2. Len(fading) <= MaxHasty
  BY <1>1
<1>3. activeLink \in Tabs /\ panes \in SUBSET Tabs /\ tabsFade \in BOOLEAN /\ hasty \in BOOLEAN
  BY DEF TabInit
<1>4. TabFacts
  BY <1>1, <1>2, <1>3 DEF TabFacts
<1> QED
  BY <1>1, <1>4, TabTypes DEF TabInit, TabInv

\* The only pane is the active pane.
LEMMA OnlyPane ==
    ASSUME NEW p \in Tabs, panes = {p} PROVE activePane = p
<1>1. p \in Nat
  BY TabAssumption
<1>2. p \in panes /\ \A q \in panes : p <= q
  BY <1>1
<1> QED
  BY <1>2 DEF activePane

LEMMA TabInvStep == TabInv /\ [TabNext]_tabVars => TabInv'
<1> SUFFICES ASSUME TabInv, [TabNext]_tabVars PROVE TabInv'
  OBVIOUS
<1>1. TabFacts /\ MaxHasty \in Nat
  BY TabTypes, TabAssumption DEF TabInv
<1>2. ASSUME NEW t \in Tabs, ShowTab(t), tabsFade PROVE TabInv'
  <2>1. /\ activeLink' = t /\ panes' = panes /\ tabsFade' = tabsFade
        /\ fading' = Append(fading, t) /\ hasty' \in BOOLEAN
        /\ hasty' <=> hasty \/ fading # <<>>
        /\ Len(fading) < MaxHasty
    BY <1>2 DEF ShowTab
  <2>2. /\ fading' \in Seq(Tabs) /\ Len(fading') = Len(fading) + 1
        /\ Len(fading) \in Nat /\ fading' # <<>> /\ fading'[Len(fading')] = t
    BY <1>1, <2>1 DEF TabFacts
  <2>3. TabFacts'
    <3>1. Len(fading') <= MaxHasty
      BY <1>1, <2>1, <2>2
    <3> QED
      BY <1>1, <2>1, <2>2, <3>1 DEF TabFacts
  <2>4. ~hasty' => Len(fading') = 1 /\ ~hasty
    BY <1>1, <2>1, <2>2 DEF TabFacts
  <2>5. TabTypeOK'
    BY <2>3, TabTypes, PTL
  <2> QED
    BY <1>2, <2>1, <2>2, <2>4, <2>5 DEF TabInv
<1>3. ASSUME NEW t \in Tabs, ShowTab(t), ~tabsFade PROVE TabInv'
  <2>1. /\ activeLink' = t /\ panes' = (panes \ {activePane}) \union {t}
        /\ tabsFade' = tabsFade /\ fading' = fading /\ hasty' = hasty
    BY <1>3 DEF ShowTab, transitionComplete
  <2>2. TabFacts'
    BY <1>1, <2>1 DEF TabFacts
  <2>3. TabTypeOK'
    BY <2>2, TabTypes, PTL
  <2>4. fading = <<>>
    BY <1>3 DEF TabInv
  <2>5. ASSUME ~hasty PROVE panes' = {t}
    <3>1. PICK p \in Tabs : panes = {p}
      BY <2>5 DEF TabInv
    <3>2. activePane = p
      BY <3>1, OnlyPane
    <3> QED
      BY <2>1, <3>1, <3>2
  <2> QED
    BY <2>1, <2>3, <2>4, <2>5 DEF TabInv
<1>4. CASE TabTransitionEnd
  <2> DEFINE n == Len(fading)
  <2>1. /\ activeLink' = activeLink /\ tabsFade' = tabsFade /\ hasty' = hasty
        /\ fading # <<>> /\ fading' = <<>>
        /\ panes' = handlersRun(panes, activePane, fading)
    BY <1>4 DEF TabTransitionEnd
  <2>2. /\ n \in Nat /\ n # 0 /\ n - 1 \in 0..n - 1 /\ fading[n] = activeLink
    <3>1. fading \in Seq(Tabs) /\ fading # <<>>
      BY <1>1, <2>1 DEF TabFacts
    <3>2. n \in Nat /\ n # 0
      BY <3>1, EmptySeq
    <3>3. fading[n] = activeLink
      BY <2>1 DEF TabInv
    <3> QED
      BY <3>2, <3>3
  <2>3. PICK h : HandlersShow(h, panes, activePane, fading)
    <3>1. panes \in SUBSET Tabs /\ fading \in Seq(Tabs)
      BY <1>1 DEF TabFacts
    <3> QED
      BY <3>1, HandlersRunInOrder
  <2>4. panes' = transitionComplete(h[n - 1], activePane, activeLink) /\ h[n - 1] \in SUBSET Tabs
    BY <2>1, <2>2, <2>3 DEF HandlersShow
  <2>5. Len(fading') = 0 /\ fading' \in Seq(Tabs)
    BY <2>1, EmptySeq
  <2>6. TabFacts'
    <3>1. panes' \in SUBSET Tabs
      BY <1>1, <2>4 DEF TabFacts, transitionComplete
    <3>2. Len(fading') <= MaxHasty
      BY <1>1, <2>5
    <3> QED
      BY <1>1, <2>1, <2>5, <3>1, <3>2 DEF TabFacts
  <2>7. TabTypeOK'
    BY <2>6, TabTypes, PTL
  <2>8. activeLink \in panes'
    BY <2>4 DEF transitionComplete
  <2>9. ASSUME ~hasty PROVE panes' = {activeLink}
    <3>1. PICK p \in Tabs : panes = {p}
      BY <2>9 DEF TabInv
    <3>2. n = 1
      <4>1. n <= 1
        BY <2>9 DEF TabInv
      <4> QED
        BY <2>2, <4>1
    <3>3. activePane = p /\ h[n - 1] = {p}
      BY <2>3, <3>1, <3>2, OnlyPane DEF HandlersShow
    <3> QED
      BY <2>4, <3>3 DEF transitionComplete
  <2> QED
    BY <1>1, <2>1, <2>7, <2>8, <2>9, <2>5 DEF TabInv, TabFacts
<1>5. CASE UNCHANGED tabVars
  <2>1. TabTypeOK'
    BY <1>5 DEF TabInv, TabTypeOK, tabVars
  <2> QED
    BY <1>5, <2>1 DEF TabInv, tabVars
<1> QED
  BY <1>2, <1>3, <1>4, <1>5 DEF TabNext

\* However many clicks come during the fades, when nothing fades the pane of the active link
\* is shown; and it alone, unless a click came during a fade.  For any number of tabs.
THEOREM TabsShowTheirPane == TabSpec => []TabShowsItsPane
<1>1. TabInv => TabShowsItsPane
  BY DEF TabInv, TabShowsItsPane
<1> QED
  BY <1>1, TabInvInit, TabInvStep, PTL DEF TabSpec
--------------------------------------------------------------------------------
(* Carousel *)

ACarousel ==
    [active : SUBSET Item, indicator : Item, from : Item, next : Item \union {NoItem},
     sliding : BOOLEAN, slid : BOOLEAN, queued : Seq(Item), paused : BOOLEAN,
     interval : BOOLEAN, timers : Int, touch : BOOLEAN, hover : BOOLEAN, disposed : BOOLEAN,
     animated : BOOLEAN, wrap : BOOLEAN, auto : BOOLEAN]

\* The timers it can clear are the timers that run.
TimersAgree(c) == c.timers = IF c.interval THEN 1 ELSE 0

\* One item is active, and the indicators show it or the one a slide brings; until it is
\* disposed a carousel slides just while an item comes, and its timers agree; and what waits
\* can count on a slid event.
CarouselGood(c) ==
    /\ c \in ACarousel
    /\ \E i \in Item : /\ c.active = {i}
                       /\ c.next = NoItem => c.indicator = i
                       /\ c.next # NoItem => c.indicator = c.next /\ c.from = i /\ c.next # i
    /\ ~c.disposed => TimersAgree(c) /\ (c.sliding <=> c.next # NoItem)
    /\ c.disposed => c.queued = <<>>
    /\ c.queued # <<>> => c.next # NoItem \/ c.slid

\* n is c with other timers.
Timed(c, n) ==
    \E p \in BOOLEAN, i \in BOOLEAN :
        n = [c EXCEPT !.paused = p, !.interval = i, !.timers = IF i THEN 1 ELSE 0]

LEMMA TimedParts ==
    ASSUME NEW c \in ACarousel, NEW n, Timed(c, n)
    PROVE  /\ n \in ACarousel /\ TimersAgree(n)
           /\ n.active = c.active /\ n.indicator = c.indicator /\ n.from = c.from
           /\ n.next = c.next /\ n.sliding = c.sliding /\ n.slid = c.slid
           /\ n.queued = c.queued /\ n.disposed = c.disposed /\ n.animated = c.animated
<1>1. PICK p \in BOOLEAN, i \in BOOLEAN :
        n = [c EXCEPT !.paused = p, !.interval = i, !.timers = IF i THEN 1 ELSE 0]
  BY DEF Timed
<1>2. (IF i THEN 1 ELSE 0) \in Int
  OBVIOUS
<1> QED
  BY <1>1, <1>2 DEF ACarousel, TimersAgree

LEMMA TimedTwice ==
    ASSUME NEW c \in ACarousel, NEW n, NEW m, Timed(c, n), Timed(n, m) PROVE Timed(c, m)
<1>1. PICK p \in BOOLEAN, i \in BOOLEAN :
        n = [c EXCEPT !.paused = p, !.interval = i, !.timers = IF i THEN 1 ELSE 0]
  BY DEF Timed
<1>2. PICK q \in BOOLEAN, j \in BOOLEAN :
        m = [n EXCEPT !.paused = q, !.interval = j, !.timers = IF j THEN 1 ELSE 0]
  BY DEF Timed
<1>3. m = [c EXCEPT !.paused = q, !.interval = j, !.timers = IF j THEN 1 ELSE 0]
  BY <1>1, <1>2 DEF ACarousel
<1> QED
  BY <1>3 DEF Timed

LEMMA TimedGood ==
    ASSUME NEW c, CarouselGood(c), NEW n, Timed(c, n) PROVE CarouselGood(n)
<1>1. c \in ACarousel
  BY DEF CarouselGood
<1>2. /\ n \in ACarousel /\ TimersAgree(n)
      /\ n.active = c.active /\ n.indicator = c.indicator /\ n.from = c.from
      /\ n.next = c.next /\ n.sliding = c.sliding /\ n.slid = c.slid
      /\ n.queued = c.queued /\ n.disposed = c.disposed
  BY <1>1, TimedParts
<1> QED
  BY <1>2 DEF CarouselGood

\* cycle restarts one timer at most.
LEMMA CycleTimes ==
    ASSUME NEW c \in ACarousel, TimersAgree(c), NEW event \in BOOLEAN
    PROVE  Timed(c, cycle(c, event))
<1> DEFINE p == event /\ c.paused
           i == c.auto /\ ~p
           idle == [c EXCEPT !.paused = p, !.interval = FALSE, !.timers = 0]
<1>1. p \in BOOLEAN /\ i \in BOOLEAN
  BY DEF ACarousel
<1>2. c.timers = IF c.interval THEN 1 ELSE 0
  BY DEF TimersAgree
<1>3. idle = [c EXCEPT !.paused = event /\ @, !.interval = FALSE,
                       !.timers = IF c.interval THEN @ - 1 ELSE @]
  BY <1>2 DEF ACarousel
<1>4. i <=> c.auto /\ ~p
  OBVIOUS
<1> HIDE DEF p, i
<1>7. (idle.paused <=> p) /\ idle.timers = 0 /\ idle \in ACarousel
  <2>1. idle \in ACarousel
    BY <1>1, 0 \in Int, FALSE \in BOOLEAN DEF ACarousel
  <2>2. idle.paused = p
    BY DEF ACarousel
  <2>3. idle.timers = 0
    BY DEF ACarousel
  <2> QED
    BY <2>1, <2>2, <2>3
<1>5. cycle(c, event) = IF c.auto /\ ~idle.paused
                        THEN [idle EXCEPT !.interval = TRUE, !.timers = @ + 1] ELSE idle
  BY <1>3 DEF cycle
<1>6. cycle(c, event) = [c EXCEPT !.paused = p, !.interval = i, !.timers = IF i THEN 1 ELSE 0]
  <2>1. CASE i
    <3>1. cycle(c, event) = [idle EXCEPT !.interval = TRUE, !.timers = 1]
      BY <1>4, <1>5, <1>7, <2>1
    <3> QED
      BY <2>1, <3>1 DEF ACarousel
  <2>2. CASE ~i
    BY <1>4, <1>5, <1>7, <2>2 DEF ACarousel
  <2> QED
    BY <2>1, <2>2
<1> QED
  BY <1>1, <1>6 DEF Timed

\* pause stops the timer, and what cycle starts for it.
LEMMA PauseTimes ==
    ASSUME NEW c \in ACarousel, TimersAgree(c), NEW event \in BOOLEAN
    PROVE  Timed(c, pause(c, event)) /\ pause(c, event).interval = FALSE
<1> DEFINE p == c.paused \/ ~event
           stopped == [c EXCEPT !.paused = p]
           again == IF c.next # NoItem THEN cycle(stopped, TRUE) ELSE stopped
           n == pause(c, event)
<1>1. p \in BOOLEAN
  BY DEF ACarousel
<1>2. stopped \in ACarousel /\ TimersAgree(stopped)
      /\ stopped = [c EXCEPT !.paused = @ \/ ~event]
  BY <1>1 DEF ACarousel, TimersAgree
<1>3. stopped = [c EXCEPT !.paused = p, !.interval = c.interval,
                          !.timers = IF c.interval THEN 1 ELSE 0]
  BY DEF ACarousel, TimersAgree
<1>4. Timed(c, stopped)
  BY <1>1, <1>3 DEF Timed, ACarousel
<1>5. n = [again EXCEPT !.interval = FALSE, !.timers = IF again.interval THEN @ - 1 ELSE @]
  BY <1>2 DEF pause
<1> HIDE DEF stopped, p
<1>6. Timed(c, again)
  BY <1>2, <1>4, CycleTimes, TimedTwice
<1>7. again \in ACarousel /\ TimersAgree(again)
  BY <1>6, TimedParts
<1> HIDE DEF again, n
<1>8. n = [again EXCEPT !.paused = again.paused, !.interval = FALSE, !.timers = 0]
  <2>1. 0 = IF again.interval THEN again.timers - 1 ELSE again.timers
    BY <1>7 DEF TimersAgree
  <2>2. n = [again EXCEPT !.interval = FALSE, !.timers = 0]
    BY <1>5, <2>1
  <2> QED
    BY <1>7, <2>2 DEF ACarousel
<1>9. Timed(again, n) /\ n.interval = FALSE
  BY <1>7, <1>8 DEF Timed, ACarousel
<1> QED
  BY <1>6, <1>9, TimedTwice DEF n

\* The one active item.
LEMMA OnlyItem ==
    ASSUME NEW c \in ACarousel, NEW i \in Item, c.active = {i} PROVE activeItem(c) = i
<1>1. i \in Int
  BY CarouselAssumption DEF Item
<1>2. i \in c.active /\ \A j \in c.active : i <= j
  BY <1>1
<1> QED
  BY <1>2 DEF activeItem

LEMMA DirectionItem ==
    ASSUME NEW c, CarouselGood(c), NEW delta \in {1, -1}
    PROVE  getItemByDirection(c, delta) \in Item
<1>1. PICK i \in Item : c.active = {i}
  BY DEF CarouselGood
<1>2. activeItem(c) = i /\ Items \in Nat \ {0} /\ i \in Int /\ delta \in Int
  BY <1>1, OnlyItem, CarouselAssumption DEF CarouselGood, Item
<1>3. (i + delta) % Items \in 0..Items - 1
  BY <1>2
<1> QED
  BY <1>1, <1>2, <1>3 DEF getItemByDirection, Item

\* The end of a slide, whenever it comes.
LEMMA ArriveGood ==
    ASSUME NEW c, CarouselGood(c), c.next # NoItem
    PROVE  LET n == arrive(c)
           IN /\ n \in ACarousel /\ n.next = NoItem /\ n.sliding = FALSE
              /\ n.active = {c.next} /\ n.indicator = c.next
              /\ n.interval = c.interval /\ n.timers = c.timers /\ n.slid = c.slid
              /\ n.queued = c.queued /\ n.disposed = c.disposed
<1>1. PICK i \in Item : /\ c.active = {i} /\ c.from = i /\ c.next # i /\ c.indicator = c.next
  BY DEF CarouselGood
<1>2. c \in ACarousel /\ c.next \in Item
  BY DEF CarouselGood, ACarousel
<1>3. (c.active \union {c.next}) \ {c.from} = {c.next}
  BY <1>1
<1>4. arrive(c) = [c EXCEPT !.active = {c.next}, !.next = NoItem, !.sliding = FALSE]
  BY <1>2, <1>3 DEF arrive, ACarousel
<1>5. arrive(c) \in ACarousel
  <2>1. {c.next} \in SUBSET Item /\ NoItem \in Item \union {NoItem}
    BY <1>2
  <2> QED
    BY <1>2, <1>4, <2>1, FALSE \in BOOLEAN DEF ACarousel
<1> QED
  BY <1>1, <1>2, <1>4, <1>5 DEF ACarousel

\* A slide that no listener prevents: n is the carousel while or after it.
SlidTo(c, item, n) ==
    /\ n \in ACarousel /\ TimersAgree(n)
    /\ n.indicator = item /\ n.slid = c.slid /\ n.queued = c.queued /\ n.disposed = c.disposed
    /\ \/ /\ n.active = c.active /\ n.next = item /\ c.active = {n.from} /\ n.sliding = TRUE
       \/ n.active = {item} /\ n.next = NoItem /\ n.sliding = FALSE

LEMMA SlideSlides ==
    ASSUME NEW c, CarouselGood(c), ~c.disposed, ~c.sliding, NEW item \in Item \ c.active
    PROVE  SlidTo(c, item, slide(c, item, FALSE))
<1> DEFINE ready == [c EXCEPT !.sliding = TRUE]
           still == IF c.interval THEN pause(ready, FALSE) ELSE ready
           moving == [still EXCEPT !.indicator = item, !.from = activeItem(c), !.next = item]
           moved == IF c.animated THEN moving ELSE arrive(moving)
           n == IF c.interval THEN cycle(moved, FALSE) ELSE moved
<1>1. /\ c \in ACarousel /\ c.next = NoItem /\ TimersAgree(c) /\ item \in Item
      /\ NoItem \notin Item
  BY CarouselAssumption DEF CarouselGood, NoItem, Item
<1>2. PICK i \in Item : c.active = {i} /\ activeItem(c) = i
  BY <1>1, OnlyItem DEF CarouselGood
<1>3. slide(c, item, FALSE) = n
  BY DEF slide
<1>4. /\ ready \in ACarousel /\ TimersAgree(ready) /\ ready.active = c.active
      /\ ready.slid = c.slid /\ ready.queued = c.queued /\ ready.disposed = c.disposed
      /\ ready.sliding = TRUE
  BY <1>1 DEF ACarousel, TimersAgree
<1> HIDE DEF ready
<1>5. /\ still \in ACarousel /\ TimersAgree(still) /\ still.active = c.active
      /\ still.slid = c.slid /\ still.queued = c.queued /\ still.disposed = c.disposed
      /\ still.sliding = TRUE
  <2>1. CASE c.interval
    <3>1. Timed(ready, still)
      BY <1>4, <2>1, PauseTimes
    <3> QED
      BY <1>4, <3>1, TimedParts
  <2>2. CASE ~c.interval
    BY <1>4, <2>2
  <2> QED
    BY <2>1, <2>2
<1> HIDE DEF still
<1>6. /\ moving \in ACarousel /\ TimersAgree(moving) /\ moving.active = {i}
      /\ moving.indicator = item /\ moving.from = i /\ moving.next = item
      /\ moving.slid = c.slid /\ moving.queued = c.queued /\ moving.disposed = c.disposed
      /\ moving.sliding = TRUE
  BY <1>1, <1>2, <1>5 DEF ACarousel, TimersAgree
<1>7. CarouselGood(moving)
  BY <1>1, <1>2, <1>6 DEF CarouselGood
<1> HIDE DEF moving
<1>8. SlidTo(c, item, moved)
  <2>1. CASE c.animated
    BY <1>2, <1>6, <2>1 DEF SlidTo
  <2>2. CASE ~c.animated
    <3> DEFINE a == arrive(moving)
    <3>1. /\ a \in ACarousel /\ a.next = NoItem /\ a.sliding = FALSE
          /\ a.active = {item} /\ a.indicator = item
          /\ a.interval = moving.interval /\ a.timers = moving.timers /\ a.slid = c.slid
          /\ a.queued = c.queued /\ a.disposed = c.disposed
      BY <1>1, <1>6, <1>7, ArriveGood
    <3>2. TimersAgree(a)
      BY <1>6, <3>1 DEF TimersAgree
    <3> HIDE DEF a
    <3>3. SlidTo(c, item, a)
      BY <3>1, <3>2 DEF SlidTo
    <3> QED
      BY <2>2, <3>3 DEF a
  <2> QED
    BY <2>1, <2>2
<1> HIDE DEF moved
<1>9. SlidTo(c, item, n)
  <2>1. CASE c.interval
    <3>1. Timed(moved, n)
      BY <1>8, <2>1, CycleTimes DEF SlidTo
    <3>2. moved \in ACarousel
      BY <1>8 DEF SlidTo
    <3> HIDE DEF n
    <3>3. /\ n \in ACarousel /\ TimersAgree(n)
          /\ n.active = moved.active /\ n.indicator = moved.indicator /\ n.from = moved.from
          /\ n.next = moved.next /\ n.sliding = moved.sliding /\ n.slid = moved.slid
          /\ n.queued = moved.queued /\ n.disposed = moved.disposed
      BY <3>1, <3>2, TimedParts
    <3> QED
      BY <1>8, <3>3 DEF SlidTo
  <2>2. CASE ~c.interval
    BY <1>8, <2>2
  <2> QED
    BY <2>1, <2>2
<1> QED
  BY <1>3, <1>9

LEMMA SlideGood ==
    ASSUME NEW c, CarouselGood(c), ~c.disposed, ~c.sliding, NEW item \in Item,
           NEW prevented \in BOOLEAN
    PROVE  LET n == slide(c, item, prevented)
           IN CarouselGood(n) /\ n.slid = c.slid /\ n.queued = c.queued /\ ~n.disposed
<1> DEFINE n == slide(c, item, prevented)
<1>1. /\ c \in ACarousel /\ c.next = NoItem /\ NoItem \notin Item
  BY CarouselAssumption DEF CarouselGood, NoItem, Item
<1>2. CASE item \in c.active
  <2>1. n = [c EXCEPT !.sliding = FALSE]
    BY <1>2 DEF slide
  <2>2. c.sliding = FALSE
    BY <1>1 DEF ACarousel
  <2>3. n = c
    BY <1>1, <2>1, <2>2 DEF ACarousel
  <2> QED
    BY <2>3
<1>3. CASE item \notin c.active /\ prevented
  <2>1. n = c
    BY <1>3 DEF slide
  <2> QED
    BY <2>1
<1>4. CASE item \notin c.active /\ ~prevented
  <2>1. prevented = FALSE
    BY <1>4
  <2>2. SlidTo(c, item, n)
    BY <1>4, <2>1, SlideSlides
  <2> HIDE DEF n
  <2>3. PICK i \in Item : c.active = {i} /\ item # i
    BY <1>4 DEF CarouselGood
  <2>4. c.queued # <<>> => c.slid
    BY <1>1 DEF CarouselGood
  <2>5. \E j \in Item : /\ n.active = {j}
                        /\ n.next = NoItem => n.indicator = j
                        /\ n.next # NoItem => n.indicator = n.next /\ n.from = j /\ n.next # j
    <3>1. CASE n.active = {item} /\ n.next = NoItem
      BY <2>2, <3>1 DEF SlidTo
    <3>2. CASE n.active = c.active /\ n.next = item /\ c.active = {n.from}
      BY <1>1, <2>2, <2>3, <3>2 DEF SlidTo
    <3> QED
      BY <2>2, <3>1, <3>2 DEF SlidTo
  <2>6. n.sliding <=> n.next # NoItem
    BY <1>1, <2>2 DEF SlidTo
  <2> QED
    <3>1. /\ n \in ACarousel /\ TimersAgree(n) /\ n.slid = c.slid /\ n.queued = c.queued
          /\ n.disposed = c.disposed
      BY <2>2 DEF SlidTo
    <3>2. n.queued # <<>> => n.slid
      BY <2>4, <3>1
    <3>3. CarouselGood(n)
      BY <2>5, <2>6, <3>1, <3>2 DEF CarouselGood
    <3> QED
      BY <3>1, <3>3 DEF n
<1> QED
  BY <1>2, <1>3, <1>4

\* Requests for an item: in the slide they wait, at most one more than before.
LEMMA ToGood ==
    ASSUME NEW c, CarouselGood(c), ~c.disposed, NEW item \in Item, NEW prevented \in BOOLEAN
    PROVE  LET n == to(c, item, prevented)
           IN /\ CarouselGood(n) /\ n.slid = c.slid /\ ~n.disposed
              /\ Len(n.queued) <= Len(c.queued) + 1
<1> DEFINE n == to(c, item, prevented)
<1>1. /\ c \in ACarousel /\ TimersAgree(c) /\ c.queued \in Seq(Item) /\ Len(c.queued) \in Nat
  <2>1. c \in ACarousel /\ TimersAgree(c)
    BY DEF CarouselGood
  <2>2. c.queued \in Seq(Item)
    BY <2>1 DEF ACarousel
  <2> QED
    BY <2>1, <2>2
<1>2. CASE c.sliding
  <2> DEFINE q == Append(c.queued, item)
  <2>1. n = [c EXCEPT !.queued = q]
    BY <1>2 DEF to
  <2>2. q \in Seq(Item) /\ Len(q) = Len(c.queued) + 1
    BY <1>1
  <2> HIDE DEF q, n
  <2>3. /\ n \in ACarousel /\ n.active = c.active /\ n.indicator = c.indicator
        /\ n.from = c.from /\ n.next = c.next /\ n.sliding = c.sliding /\ n.slid = c.slid
        /\ n.queued = q /\ n.disposed = c.disposed /\ n.interval = c.interval
        /\ n.timers = c.timers
    BY <1>1, <2>1, <2>2 DEF ACarousel
  <2>4. n.next # NoItem
    BY <1>2, <2>3 DEF CarouselGood
  <2>5. TimersAgree(n)
    BY <1>1, <2>3 DEF TimersAgree
  <2>6. \E i \in Item : /\ n.active = {i}
                        /\ n.next = NoItem => n.indicator = i
                        /\ n.next # NoItem => n.indicator = n.next /\ n.from = i /\ n.next # i
    BY <2>3 DEF CarouselGood
  <2>7. n.sliding <=> n.next # NoItem
    BY <2>3 DEF CarouselGood
  <2>8. CarouselGood(n)
    BY <2>3, <2>4, <2>5, <2>6, <2>7 DEF CarouselGood
  <2>9. Len(n.queued) <= Len(c.queued) + 1
    BY <1>1, <2>2, <2>3
  <2> QED
    BY <2>3, <2>8, <2>9 DEF n
<1>3. CASE ~c.sliding /\ item \in c.active
  <2> DEFINE p == pause(c, FALSE)
  <2>1. Timed(c, p)
    BY <1>1, PauseTimes
  <2>2. CarouselGood(p)
    BY <2>1, TimedGood
  <2>3. /\ p \in ACarousel /\ TimersAgree(p) /\ p.slid = c.slid /\ p.queued = c.queued
        /\ p.disposed = c.disposed
    BY <1>1, <2>1, TimedParts
  <2>4. n = cycle(p, FALSE)
    BY <1>3 DEF to
  <2> HIDE DEF p, n
  <2>5. Timed(p, n)
    BY <2>3, <2>4, CycleTimes
  <2>6. CarouselGood(n)
    BY <2>2, <2>5, TimedGood
  <2>7. n.slid = c.slid /\ n.queued = c.queued /\ n.disposed = c.disposed
    BY <2>3, <2>5, TimedParts
  <2>8. Len(n.queued) <= Len(c.queued) + 1
    BY <1>1, <2>7
  <2> QED
    BY <2>6, <2>7, <2>8 DEF n
<1>4. CASE ~c.sliding /\ item \notin c.active
  <2>1. n = slide(c, item, prevented)
    BY <1>4 DEF to
  <2>2. CarouselGood(n) /\ n.slid = c.slid /\ n.queued = c.queued /\ ~n.disposed
    BY <1>4, <2>1, SlideGood
  <2> HIDE DEF n
  <2>3. Len(n.queued) <= Len(c.queued) + 1
    BY <1>1, <2>2
  <2> QED
    BY <2>2, <2>3 DEF n
<1> QED
  BY <1>2, <1>3, <1>4

\* The carousel before the first of the requests that waited and after each one.
RequestsRun(h, c, items, prevented) ==
    /\ h[0] = c
    /\ \A k \in 0..Len(items) - 1 : h[k + 1] = to(h[k], items[k + 1], prevented)
    /\ served(c, items, prevented) = h[Len(items)]

Serving == {c \in ACarousel : CarouselGood(c) /\ ~c.slid /\ ~c.disposed}

LEMMA ToServes ==
    ASSUME NEW c \in Serving, NEW item \in Item, NEW prevented \in BOOLEAN
    PROVE  to(c, item, prevented) \in Serving
<1> DEFINE n == to(c, item, prevented)
<1>1. CarouselGood(n) /\ n.slid = c.slid /\ ~n.disposed
  BY ToGood DEF Serving
<1> HIDE DEF n
<1>2. n \in ACarousel
  BY <1>1 DEF CarouselGood
<1> QED
  BY <1>1, <1>2 DEF Serving, n

LEMMA RequestsRunInOrder ==
    ASSUME NEW c \in Serving, NEW items \in Seq(Item), NEW prevented \in BOOLEAN
    PROVE  \E h : RequestsRun(h, c, items, prevented)
<1> DEFINE n == Len(items)
           F == [p \in Serving \X Item |-> to(p[1], p[2], prevented)]
           f == CHOOSE f : f = [s \in SUBSET DOMAIN items |->
                                  IF s = {} THEN c
                                  ELSE to(f[s \ {Max(s)}], items[Max(s)], prevented)]
<1>1. n \in Nat /\ DOMAIN items = 1..n
  OBVIOUS
<1>2. F \in [Serving \X Item -> Serving]
  BY ToServes
<1>3. PICK g \in [SUBSET (1..n) -> Serving] : FoldsBy(g, F, c, items, n)
  BY <1>2, FoldExists
<1>4. g = [s \in SUBSET DOMAIN items |->
             IF s = {} THEN c ELSE to(g[s \ {Max(s)}], items[Max(s)], prevented)]
  <2>1. ASSUME NEW s \in SUBSET (1..n)
        PROVE  g[s] = IF s = {} THEN c ELSE to(g[s \ {Max(s)}], items[Max(s)], prevented)
    <3>1. CASE s # {}
      <4>1. g[s] = F[<<g[s \ {Max(s)}], items[Max(s)]>>]
        BY <1>3, <3>1 DEF FoldsBy
      <4>2. Max(s) \in s
        BY <1>1, <3>1, LastOfSet
      <4>3. Max(s) \in 1..n
        BY <4>2
      <4>4. s \ {Max(s)} \in SUBSET (1..n)
        OBVIOUS
      <4>5. items[Max(s)] \in Item
        BY <1>1, <4>3
      <4> QED
        BY <1>3, <4>1, <4>4, <4>5, <3>1
    <3>2. CASE s = {}
      BY <1>3, <3>2 DEF FoldsBy
    <3> QED
      BY <3>1, <3>2
  <2> QED
    BY <1>1, <1>3, <2>1
<1>5. f = [s \in SUBSET DOMAIN items |->
             IF s = {} THEN c ELSE to(f[s \ {Max(s)}], items[Max(s)], prevented)]
  BY <1>4
<1>6. served(c, items, prevented) = f[1..n]
  BY <1>1 DEF served, FoldLeft, MapThenFoldSet
<1> HIDE DEF f
<1> DEFINE h == [k \in 0..n |-> f[1..k]]
<1>7. \A k \in 0..n - 1 : h[k + 1] = to(h[k], items[k + 1], prevented)
  <2> TAKE k \in 0..n - 1
  <2>1. /\ k \in 0..n /\ k + 1 \in 0..n
        /\ 1..k + 1 \in SUBSET (1..n) /\ 1..k + 1 # {}
        /\ Max(1..k + 1) = k + 1 /\ (1..k + 1) \ {k + 1} = 1..k
    BY <1>1, LastOfSegment
  <2>2. f[1..k + 1] = to(f[1..k], items[k + 1], prevented)
    BY <1>1, <1>5, <2>1
  <2> QED
    BY <2>1, <2>2
<1>8. h[0] = c
  <2>1. 1..0 = {} /\ 0 \in 0..n
    BY <1>1
  <2> QED
    BY <1>5, <2>1
<1>9. h[n] = f[1..n]
  BY <1>1
<1> HIDE DEF h
<1>10. RequestsRun(h, c, items, prevented)
  BY <1>6, <1>7, <1>8, <1>9 DEF RequestsRun
<1> QED
  BY <1>10

\* All requests run: a request waits again for every one that waited, at the most.
LEMMA ServedGood ==
    ASSUME NEW c \in Serving, c.queued = <<>>, NEW items \in Seq(Item), NEW prevented \in BOOLEAN
    PROVE  LET n == served(c, items, prevented)
           IN CarouselGood(n) /\ Len(n.queued) <= Len(items)
<1>1. PICK h : RequestsRun(h, c, items, prevented)
  BY RequestsRunInOrder
<1>2. Len(items) \in Nat
  OBVIOUS
<1> DEFINE P(k) == h[k] \in Serving /\ Len(h[k].queued) <= k
           K == {k \in Nat : k <= Len(items) => P(k)}
<1>3. P(0)
  BY <1>1 DEF RequestsRun
<1>4. ASSUME NEW k \in Nat, P(k), k + 1 <= Len(items) PROVE P(k + 1)
  <2>1. k \in 0..Len(items) - 1 /\ items[k + 1] \in Item
    BY <1>2, <1>4
  <2>2. h[k + 1] = to(h[k], items[k + 1], prevented)
    BY <1>1, <2>1 DEF RequestsRun
  <2>3. h[k + 1] \in Serving
    BY <1>4, <2>1, <2>2, ToServes
  <2>4. Len(h[k + 1].queued) <= Len(h[k].queued) + 1
    BY <1>4, <2>1, <2>2, ToGood DEF Serving
  <2>5. h[k].queued \in Seq(Item) /\ h[k + 1].queued \in Seq(Item)
    BY <1>4, <2>3 DEF Serving, ACarousel
  <2>6. Len(h[k].queued) \in Nat /\ Len(h[k + 1].queued) \in Nat
    BY <2>5
  <2> QED
    BY <1>4, <2>3, <2>4, <2>6
<1> HIDE DEF P
<1>5. 0 \in K
  BY <1>3
<1>6. \A k \in Nat : k \in K => k + 1 \in K
  <2> SUFFICES ASSUME NEW k \in Nat, k \in K, k + 1 <= Len(items) PROVE P(k + 1)
    OBVIOUS
  <2>1. k <= Len(items)
    BY <1>2
  <2> QED
    BY <1>4, <2>1
<1> HIDE DEF K
<1>7. Len(items) \in K
  BY <1>2, <1>5, <1>6, EveryNumber
<1>8. P(Len(items))
  BY <1>2, <1>7 DEF K
<1> QED
  BY <1>1, <1>8 DEF P, RequestsRun, Serving

CarouselInv == CarouselGood(carousel) /\ Len(carousel.queued) <= MaxQueued

LEMMA CarouselTypes == CarouselInv => CarouselTypeOK
<1> SUFFICES ASSUME CarouselInv PROVE CarouselTypeOK
  OBVIOUS
<1>1. carousel \in ACarousel /\ Len(carousel.queued) <= MaxQueued /\ MaxQueued \in Nat
  BY CarouselAssumption DEF CarouselInv, CarouselGood
<1>2. carousel.queued \in Seq(Item)
  BY <1>1 DEF ACarousel
<1>3. carousel.queued \in BoundedSeq(Item, MaxQueued)
  BY <1>1, <1>2, BoundedSequences
<1> QED
  BY <1>1, <1>3 DEF ACarousel, CarouselTypeOK

LEMMA CarouselInvInit == CarouselInit => CarouselInv
<1> SUFFICES ASSUME NEW animated \in BOOLEAN, NEW wrap \in BOOLEAN, NEW auto \in BOOLEAN,
                    carousel = [active |-> {0}, indicator |-> 0, from |-> 0, next |-> NoItem,
                        sliding |-> FALSE, slid |-> FALSE, queued |-> <<>>, paused |-> FALSE,
                        interval |-> auto, timers |-> IF auto THEN 1 ELSE 0, touch |-> FALSE,
                        hover |-> FALSE, disposed |-> FALSE, animated |-> animated,
                        wrap |-> wrap, auto |-> auto]
             PROVE  CarouselInv
  BY DEF CarouselInit
<1>1. 0 \in Item /\ MaxQueued \in Nat
  BY CarouselAssumption DEF Item
<1>2. carousel \in ACarousel
  <2>1. (IF auto THEN 1 ELSE 0) \in Int /\ <<>> \in Seq(Item) /\ {0} \in SUBSET Item
    BY <1>1
  <2> QED
    BY <1>1, <2>1 DEF ACarousel
<1>3. /\ carousel.active = {0} /\ carousel.indicator = 0 /\ carousel.next = NoItem
      /\ ~carousel.sliding /\ ~carousel.disposed /\ carousel.queued = <<>>
      /\ carousel.interval = auto /\ carousel.timers = IF auto THEN 1 ELSE 0
  OBVIOUS
<1>4. TimersAgree(carousel)
  BY <1>3 DEF TimersAgree
<1>5. CarouselGood(carousel)
  BY <1>1, <1>2, <1>3, <1>4 DEF CarouselGood
<1>6. Len(carousel.queued) <= MaxQueued
  BY <1>1, <1>3
<1> QED
  BY <1>5, <1>6 DEF CarouselInv

\* A pause or a restart of the timers, by a control, the mouse or a touch.
LEMMA TimedInv ==
    ASSUME CarouselInv, Timed(carousel, carousel') PROVE CarouselInv'
<1>1. carousel \in ACarousel /\ CarouselGood(carousel)
  BY DEF CarouselInv, CarouselGood
<1>2. CarouselGood(carousel') /\ carousel'.queued = carousel.queued
  BY <1>1, TimedGood, TimedParts
<1> QED
  BY <1>2 DEF CarouselInv

\* hover and touch mean nothing to the rest.
LEMMA MarkedInv ==
    ASSUME NEW c, CarouselGood(c), NEW n,
           \E b \in BOOLEAN : n = [c EXCEPT !.hover = b] \/ n = [c EXCEPT !.touch = b]
    PROVE  CarouselGood(n) /\ n.queued = c.queued
<1>1. c \in ACarousel
  BY DEF CarouselGood
<1>2. /\ n \in ACarousel /\ n.active = c.active /\ n.indicator = c.indicator
      /\ n.from = c.from /\ n.next = c.next /\ n.sliding = c.sliding /\ n.slid = c.slid
      /\ n.queued = c.queued /\ n.disposed = c.disposed /\ n.interval = c.interval
      /\ n.timers = c.timers
  BY <1>1 DEF ACarousel
<1>3. TimersAgree(c) <=> TimersAgree(n)
  BY <1>2 DEF TimersAgree
<1> QED
  BY <1>2, <1>3 DEF CarouselGood

LEMMA StepInv ==
    ASSUME CarouselInv, ~carousel.disposed, NEW delta \in {1, -1}, NEW prevented \in BOOLEAN,
           carousel' = step(carousel, delta, prevented)
    PROVE  CarouselInv'
<1>1. CASE carousel.sliding
  <2>1. carousel' = carousel
    BY <1>1 DEF step
  <2> QED
    BY <2>1 DEF CarouselInv
<1>2. CASE ~carousel.sliding
  <2> DEFINE item == getItemByDirection(carousel, delta)
  <2>1. item \in Item /\ CarouselGood(carousel)
    BY DirectionItem DEF CarouselInv
  <2>2. carousel' = slide(carousel, item, prevented)
    BY <1>2 DEF step
  <2> HIDE DEF item
  <2>3. CarouselGood(carousel') /\ carousel'.queued = carousel.queued
    BY <1>2, <2>1, <2>2, SlideGood
  <2> QED
    BY <2>3 DEF CarouselInv
<1> QED
  BY <1>1, <1>2

LEMMA TransitionEndInv ==
    ASSUME CarouselInv, CarouselTransitionEnd PROVE CarouselInv'
<1> DEFINE a == arrive(carousel)
           n == carousel'
<1>1. CarouselGood(carousel) /\ carousel \in ACarousel /\ carousel.next # NoItem
  BY DEF CarouselInv, CarouselGood, CarouselTransitionEnd
<1>2. carousel.next \in Item
  BY <1>1 DEF ACarousel
<1>3. /\ a \in ACarousel /\ a.next = NoItem /\ a.sliding = FALSE
      /\ a.active = {carousel.next} /\ a.indicator = carousel.next
      /\ a.interval = carousel.interval /\ a.timers = carousel.timers
      /\ a.slid = carousel.slid /\ a.queued = carousel.queued
      /\ a.disposed = carousel.disposed
  BY <1>1, ArriveGood
<1>4. n = [a EXCEPT !.slid = ~carousel.disposed]
  BY DEF CarouselTransitionEnd
<1>5. (~carousel.disposed) \in BOOLEAN
  OBVIOUS
<1> HIDE DEF a, n
<1>6. /\ n \in ACarousel /\ n.next = NoItem /\ n.sliding = FALSE
      /\ n.active = {carousel.next} /\ n.indicator = carousel.next
      /\ n.interval = carousel.interval /\ n.timers = carousel.timers
      /\ (n.slid <=> ~carousel.disposed) /\ n.queued = carousel.queued
      /\ n.disposed = carousel.disposed
  BY <1>3, <1>4, <1>5 DEF ACarousel
<1>7. n.disposed \/ TimersAgree(n)
  BY <1>1, <1>6 DEF TimersAgree, CarouselGood
<1>8. n.disposed => n.queued = <<>>
  BY <1>1, <1>6 DEF CarouselGood
<1>9. CarouselGood(n)
  BY <1>2, <1>6, <1>7, <1>8 DEF CarouselGood
<1> QED
  BY <1>6, <1>9 DEF CarouselInv, n

\* Nothing waited: then nothing runs.
LEMMA ServedNone == ASSUME NEW c, NEW prevented PROVE served(c, <<>>, prevented) = c
<1> DEFINE items == <<>>
           g == [s \in SUBSET {} |-> c]
           f == CHOOSE f : f = [s \in SUBSET DOMAIN items |->
                                  IF s = {} THEN c
                                  ELSE to(f[s \ {Max(s)}], items[Max(s)], prevented)]
<1>1. DOMAIN items = {}
  OBVIOUS
<1>2. g = [s \in SUBSET DOMAIN items |->
             IF s = {} THEN c ELSE to(g[s \ {Max(s)}], items[Max(s)], prevented)]
  BY <1>1
<1>3. f = [s \in SUBSET DOMAIN items |->
             IF s = {} THEN c ELSE to(f[s \ {Max(s)}], items[Max(s)], prevented)]
  BY <1>2
<1>4. served(c, items, prevented) = f[{}]
  BY <1>1 DEF served, FoldLeft, MapThenFoldSet
<1> HIDE DEF f
<1>5. f[{}] = c
  BY <1>1, <1>3
<1> QED
  BY <1>4, <1>5

LEMMA SlidInv == ASSUME CarouselInv, CarouselSlid PROVE CarouselInv'
<1> DEFINE c == [carousel EXCEPT !.slid = FALSE, !.queued = <<>>]
<1>1. carousel \in ACarousel /\ CarouselGood(carousel) /\ carousel.queued \in Seq(Item)
      /\ Len(carousel.queued) \in Nat
  <2>1. carousel \in ACarousel /\ CarouselGood(carousel)
    BY DEF CarouselInv, CarouselGood
  <2>2. carousel.queued \in Seq(Item)
    BY <2>1 DEF ACarousel
  <2> QED
    BY <2>1, <2>2
<1>2. PICK prevented \in BOOLEAN : carousel' = served(c, carousel.queued, prevented)
  BY DEF CarouselSlid
<1>3. /\ c \in ACarousel /\ c.active = carousel.active /\ c.indicator = carousel.indicator
      /\ c.from = carousel.from /\ c.next = carousel.next /\ c.sliding = carousel.sliding
      /\ ~c.slid /\ c.queued = <<>> /\ c.disposed = carousel.disposed
      /\ c.interval = carousel.interval /\ c.timers = carousel.timers
  <2>1. <<>> \in Seq(Item)
    OBVIOUS
  <2> QED
    BY <1>1, <2>1 DEF ACarousel
<1> HIDE DEF c
<1>4. TimersAgree(carousel) <=> TimersAgree(c)
  BY <1>3 DEF TimersAgree
<1>5. CarouselGood(c)
  BY <1>1, <1>3, <1>4 DEF CarouselGood
<1>6. CASE carousel.disposed
  <2>1. carousel.queued = <<>>
    BY <1>1, <1>6 DEF CarouselGood
  <2>2. served(c, <<>>, prevented) = c
    BY ServedNone
  <2> QED
    BY <1>2, <1>3, <1>5, <2>1, <2>2 DEF CarouselInv
<1>7. CASE ~carousel.disposed
  <2>1. c \in Serving
    BY <1>3, <1>5, <1>7 DEF Serving
  <2>2. CarouselGood(carousel') /\ Len(carousel'.queued) <= Len(carousel.queued)
    BY <1>1, <1>2, <1>3, <2>1, ServedGood
  <2>3. carousel'.queued \in Seq(Item)
    BY <2>2 DEF CarouselGood, ACarousel
  <2>4. Len(carousel'.queued) \in Nat /\ MaxQueued \in Nat
    BY <2>3, CarouselAssumption
  <2> QED
    BY <1>1, <2>2, <2>4 DEF CarouselInv
<1> QED
  BY <1>6, <1>7

LEMMA CarouselDisposeInv == ASSUME CarouselInv, CarouselDispose PROVE CarouselInv'
<1> DEFINE n == carousel'
<1>1. carousel \in ACarousel /\ CarouselGood(carousel)
  BY DEF CarouselInv, CarouselGood
<1>2. n = [carousel EXCEPT !.disposed = TRUE, !.interval = FALSE, !.queued = <<>>,
                           !.sliding = FALSE, !.paused = FALSE]
  BY DEF CarouselDispose
<1> HIDE DEF n
<1>3. /\ n \in ACarousel /\ n.active = carousel.active /\ n.indicator = carousel.indicator
      /\ n.from = carousel.from /\ n.next = carousel.next /\ n.queued = <<>> /\ n.disposed
  <2>1. <<>> \in Seq(Item) /\ TRUE \in BOOLEAN /\ FALSE \in BOOLEAN
    OBVIOUS
  <2> QED
    BY <1>1, <1>2, <2>1 DEF ACarousel
<1>4. CarouselGood(n)
  BY <1>1, <1>3 DEF CarouselGood
<1>5. Len(n.queued) = 0 /\ MaxQueued \in Nat
  BY <1>3, CarouselAssumption
<1> QED
  BY <1>4, <1>5 DEF CarouselInv, n

LEMMA CarouselInvStep == CarouselInv /\ [CarouselNext]_carousel => CarouselInv'
<1> SUFFICES ASSUME CarouselInv, [CarouselNext]_carousel PROVE CarouselInv'
  OBVIOUS
<1>1. /\ CarouselGood(carousel) /\ carousel \in ACarousel
      /\ ~carousel.disposed => TimersAgree(carousel)
  BY DEF CarouselInv, CarouselGood
<1>2. CASE CarouselTick
  <2>1. PICK prevented \in BOOLEAN : carousel' = step(carousel, 1, prevented)
    BY <1>2 DEF CarouselTick
  <2> QED
    BY <1>2, <2>1, StepInv DEF CarouselTick
<1>3. CASE CarouselControl
  <2>1. ~carousel.disposed
    BY <1>3 DEF CarouselControl
  <2>2. ASSUME NEW delta \in {1, -1}, NEW prevented \in BOOLEAN,
               carousel' = step(carousel, delta, prevented)
        PROVE  CarouselInv'
    BY <2>1, <2>2, StepInv
  <2>3. CASE carousel' = pause(carousel, FALSE)
    BY <1>1, <2>1, <2>3, PauseTimes, TimedInv
  <2>4. CASE carousel' = cycle(carousel, FALSE)
    BY <1>1, <2>1, <2>4, CycleTimes, TimedInv
  <2> QED
    BY <1>3, <2>2, <2>3, <2>4 DEF CarouselControl
<1>4. CASE CarouselTo
  <2>1. ~carousel.disposed /\ Len(carousel.queued) < MaxQueued
    BY <1>4 DEF CarouselTo
  <2>2. PICK item \in Item, prevented \in BOOLEAN :
          \/ carousel' = to(carousel, item, prevented)
          \/ ~carousel.sliding /\ carousel' = slide(carousel, item, prevented)
    BY <1>4 DEF CarouselTo
  <2>3. carousel.queued \in Seq(Item) /\ Len(carousel.queued) \in Nat /\ MaxQueued \in Nat
    <3>1. carousel.queued \in Seq(Item)
      BY <1>1 DEF ACarousel
    <3> QED
      BY <3>1, CarouselAssumption
  <2>4. CASE carousel' = to(carousel, item, prevented)
    <3>1. CarouselGood(carousel') /\ Len(carousel'.queued) <= Len(carousel.queued) + 1
      BY <1>1, <2>1, <2>4, ToGood
    <3>2. carousel'.queued \in Seq(Item)
      BY <3>1 DEF CarouselGood, ACarousel
    <3>3. Len(carousel'.queued) \in Nat
      BY <3>2
    <3> QED
      BY <2>1, <2>3, <3>1, <3>3 DEF CarouselInv
  <2>5. CASE ~carousel.sliding /\ carousel' = slide(carousel, item, prevented)
    <3>1. CarouselGood(carousel') /\ carousel'.queued = carousel.queued
      BY <1>1, <2>1, <2>5, SlideGood
    <3> QED
      BY <3>1 DEF CarouselInv
  <2> QED
    BY <2>2, <2>4, <2>5
<1>5. CASE CarouselHover
  <2>1. ~carousel.disposed
    BY <1>5 DEF CarouselHover
  <2>2. PICK c : Timed(carousel, c) /\ \E b \in BOOLEAN : carousel' = [c EXCEPT !.hover = b]
    BY <1>1, <1>5, <2>1, CycleTimes, PauseTimes DEF CarouselHover
  <2>3. CarouselGood(c) /\ c.queued = carousel.queued
    BY <1>1, <2>2, TimedGood, TimedParts
  <2>4. CarouselGood(carousel') /\ carousel'.queued = c.queued
    BY <2>2, <2>3, MarkedInv
  <2> QED
    BY <2>3, <2>4 DEF CarouselInv
<1>6. CASE CarouselTouch \/ CarouselTouchTimeout
  <2>1. ~carousel.disposed
    BY <1>6 DEF CarouselTouch, CarouselTouchTimeout
  <2>2. PICK c : Timed(carousel, c) /\ \E b \in BOOLEAN : carousel' = [c EXCEPT !.touch = b]
    BY <1>1, <1>6, <2>1, CycleTimes, PauseTimes DEF CarouselTouch, CarouselTouchTimeout
  <2>3. CarouselGood(c) /\ c.queued = carousel.queued
    BY <1>1, <2>2, TimedGood, TimedParts
  <2>4. CarouselGood(carousel') /\ carousel'.queued = c.queued
    BY <2>2, <2>3, MarkedInv
  <2> QED
    BY <2>3, <2>4 DEF CarouselInv
<1>7. CASE CarouselTransitionEnd
  BY <1>7, TransitionEndInv
<1>8. CASE CarouselSlid
  BY <1>8, SlidInv
<1>9. CASE CarouselDispose
  BY <1>9, CarouselDisposeInv
<1>10. CASE UNCHANGED carousel
  BY <1>10 DEF CarouselInv
<1> QED
  BY <1>2, <1>3, <1>4, <1>5, <1>6, <1>7, <1>8, <1>9, <1>10 DEF CarouselNext

\* However slides, requests, timers, touches and a dispose overlap: one item is active, at rest
\* the one the indicators show, and at most one interval timer runs, the one the carousel can
\* still clear.  For any number of items and of requests that wait.
THEOREM OneItemShows == CarouselSpec => []CarouselShowsOneItem
<1>1. CarouselInv => CarouselShowsOneItem
  <2> SUFFICES ASSUME CarouselInv PROVE CarouselShowsOneItem
    OBVIOUS
  <2>1. PICK i \in Item : carousel.active = {i} /\ (carousel.next = NoItem => carousel.indicator = i)
    BY DEF CarouselInv, CarouselGood
  <2>2. Cardinality(carousel.active) = 1
    BY <2>1, FS_Singleton
  <2>3. ~carousel.disposed => carousel.timers = IF carousel.interval THEN 1 ELSE 0
    BY DEF CarouselInv, CarouselGood, TimersAgree
  <2> QED
    BY <2>1, <2>2, <2>3 DEF CarouselShowsOneItem
<1> QED
  BY <1>1, CarouselInvInit, CarouselInvStep, PTL DEF CarouselSpec

\* A request that waits for a slid event can count on one: a slide is under way whose end
\* triggers it, or it is due.
THEOREM RequestsAreServed == CarouselSpec => []CarouselServes
<1>1. CarouselInv => CarouselServes
  BY DEF CarouselInv, CarouselGood, CarouselServes
<1> QED
  BY <1>1, CarouselInvInit, CarouselInvStep, PTL DEF CarouselSpec

--------------------------------------------------------------------------------
(* Tooltip *)

Handler == {"shown", "hidden"}

ATooltip ==
    [hover : {"", "show", "out"}, triggers : SUBSET Triggers, over : SUBSET {"hover", "focus"},
     timer : {"none", "show", "hide"}, enabled : BOOLEAN, show : BOOLEAN, fade : BOOLEAN,
     inPage : BOOLEAN, described : BOOLEAN, placed : BOOLEAN, waits : Seq(Handler),
     why : SUBSET Reasons, animated : BOOLEAN, delayed : BOOLEAN, content : BOOLEAN]

LEMMA WaitsOf == ASSUME NEW t, t \in ATooltip PROVE t.waits \in Seq(Handler) /\ Len(t.waits) \in Nat
<1>1. t.waits \in Seq(Handler)
  BY DEF ATooltip
<1> QED
  BY <1>1

HasShown(w) == \E i \in 1..Len(w) : w[i] = "shown"

\* Handlers wait for a tip that is animated; while a show waits the tip fades and has a place.
TooltipSound(t) ==
    /\ t \in ATooltip /\ (t.fade => t.animated) /\ (t.waits # <<>> => t.animated)
    /\ HasShown(t.waits) => t.fade /\ t.placed

Exempt(t) == "crossed" \in t.why \/ "unfixed" \in t.why

\* The tip is where its class says: shown, in the page, pointed at and placed; or hidden and
\* out of the page.
Shows(t)   == t.inPage /\ t.described /\ t.placed
Settled(t) == (t.inPage => "left" \in t.why) /\ (t.described => "disposed" \in t.why)

TooltipGood(t) ==
    /\ TooltipSound(t)
    /\ Exempt(t) => t.waits \in {<<>>, <<"hidden">>}
    /\ ~Exempt(t) /\ t.show =>
          Shows(t) /\ (t.waits # <<>> => t.waits[Len(t.waits)] = "shown")
    /\ ~Exempt(t) /\ ~t.show =>
          IF t.waits = <<>> THEN Settled(t) ELSE t.waits[Len(t.waits)] = "hidden"

\* What hide does to a tip at once, and to a tip that fades.
LEMMA HiddenAtOnce ==
    ASSUME NEW t, t \in ATooltip, ~t.fade
    PROVE  LET n == hidden(t)
           IN /\ n \in ATooltip /\ ~n.show /\ n.hover = "" /\ n.waits = t.waits
              /\ n.timer = t.timer /\ ~n.fade /\ n.animated = t.animated
              /\ n.delayed = t.delayed /\ ~n.placed /\ Settled(n) /\ n.why \subseteq {"left"}
<1> DEFINE stays == t.inPage /\ t.hover = "show"
           why == IF stays THEN {"left"} ELSE {}
           n == hidden(t)
<1>1. /\ stays \in BOOLEAN /\ why \in SUBSET Reasons /\ why \subseteq {"left"}
      /\ stays => "left" \in why
  BY DEF Reasons
<1>2. n = [t EXCEPT !.show = FALSE, !.triggers = {}, !.inPage = stays, !.described = FALSE,
                    !.placed = FALSE, !.why = why, !.hover = ""]
  BY DEF hidden, hideComplete, ATooltip
<1> HIDE DEF stays, why, n
<1>3. /\ {} \in SUBSET Triggers /\ FALSE \in BOOLEAN /\ "" \in {"", "show", "out"}
  OBVIOUS
<1>4. n \in ATooltip
  BY <1>1, <1>2, <1>3 DEF ATooltip
<1>5. /\ ~n.show /\ n.hover = "" /\ n.waits = t.waits /\ n.timer = t.timer
      /\ ~n.fade /\ n.animated = t.animated /\ n.delayed = t.delayed /\ ~n.placed
      /\ n.inPage = stays /\ ~n.described /\ n.why = why
  BY <1>2 DEF ATooltip
<1> QED
  BY <1>1, <1>4, <1>5 DEF Settled, n

LEMMA HiddenLater ==
    ASSUME NEW t, t \in ATooltip, t.fade
    PROVE  LET n == hidden(t)
           IN /\ n \in ATooltip /\ ~n.show /\ n.hover = "" /\ n.waits = Append(t.waits, "hidden")
              /\ n.timer = t.timer /\ n.fade /\ n.animated = t.animated
              /\ n.delayed = t.delayed /\ n.placed = t.placed /\ n.inPage = t.inPage
              /\ n.described = t.described /\ n.why = {}
<1> DEFINE w == Append(t.waits, "hidden")
           n == hidden(t)
<1>1. w \in Seq(Handler)
  BY WaitsOf DEF Handler
<1>2. n = [t EXCEPT !.show = FALSE, !.triggers = {}, !.why = {}, !.waits = w, !.hover = ""]
  BY DEF hidden, ATooltip
<1> HIDE DEF w, n
<1>3. /\ {} \in SUBSET Triggers /\ {} \in SUBSET Reasons /\ FALSE \in BOOLEAN
      /\ "" \in {"", "show", "out"}
  OBVIOUS
<1>4. n \in ATooltip
  BY <1>1, <1>2, <1>3 DEF ATooltip
<1>5. /\ ~n.show /\ n.hover = "" /\ n.waits = w /\ n.timer = t.timer /\ n.fade
      /\ n.animated = t.animated /\ n.delayed = t.delayed /\ n.placed = t.placed
      /\ n.inPage = t.inPage /\ n.described = t.described /\ n.why = {}
  BY <1>2 DEF ATooltip
<1> QED
  BY <1>4, <1>5 DEF n, w

\* A sequence that gets one handler more.
LEMMA OneMore ==
    ASSUME NEW w \in Seq(Handler), NEW x \in Handler
    PROVE  LET v == Append(w, x)
           IN /\ v \in Seq(Handler) /\ Len(v) = Len(w) + 1 /\ v # <<>> /\ v[Len(v)] = x
              /\ x = "hidden" => (HasShown(v) => HasShown(w))
<1> DEFINE v == Append(w, x)
<1>1. /\ v \in Seq(Handler) /\ Len(v) = Len(w) + 1 /\ v # <<>> /\ v[Len(v)] = x
      /\ Len(w) \in Nat
  OBVIOUS
<1>2. ASSUME x = "hidden", NEW i \in 1..Len(v), v[i] = "shown" PROVE HasShown(w)
  <2>1. i # Len(v)
    BY <1>1, <1>2
  <2>2. i \in 1..Len(w) /\ v[i] = w[i]
    BY <1>1, <2>1
  <2> QED
    BY <1>2, <2>2 DEF HasShown
<1> HIDE DEF v
<1>3. x = "hidden" => (HasShown(v) => HasShown(w))
  BY <1>2 DEF HasShown
<1> QED
  BY <1>1, <1>3 DEF v

LEMMA OnlyHides ==
    ASSUME NEW w \in Seq(Handler), ~HasShown(w), w # <<>> PROVE w[Len(w)] = "hidden"
<1>1. Len(w) \in 1..Len(w)
  BY EmptySeq
<1>2. w[Len(w)] \in Handler
  BY <1>1
<1> QED
  BY <1>1, <1>2 DEF HasShown, Handler

LEMMA HiddenGood ==
    ASSUME NEW t, TooltipSound(t)
    PROVE  LET n == hidden(t)
           IN /\ TooltipGood(n) /\ n.timer = t.timer /\ Len(n.waits) <= Len(t.waits) + 1
<1> DEFINE n == hidden(t)
<1>1. t \in ATooltip /\ t.waits \in Seq(Handler) /\ "hidden" \in Handler
  BY DEF TooltipSound, ATooltip, Handler
<1>2. Len(t.waits) \in Nat
  BY <1>1
<1>3. CASE t.fade
  <2> DEFINE w == Append(t.waits, "hidden")
  <2>1. /\ n \in ATooltip /\ ~n.show /\ n.waits = w /\ n.timer = t.timer /\ n.fade
        /\ n.animated = t.animated /\ n.placed = t.placed /\ n.why = {}
    BY <1>1, <1>3, HiddenLater
  <2>2. /\ Len(w) = Len(t.waits) + 1 /\ w # <<>> /\ w[Len(w)] = "hidden"
        /\ HasShown(w) => HasShown(t.waits)
    BY <1>1, OneMore
  <2> HIDE DEF n, w
  <2>3. TooltipSound(n)
    BY <1>3, <2>1, <2>2 DEF TooltipSound
  <2> QED
    BY <1>2, <2>1, <2>2, <2>3 DEF TooltipGood, Exempt, n
<1>4. CASE ~t.fade
  <2>1. /\ n \in ATooltip /\ ~n.show /\ n.waits = t.waits /\ n.timer = t.timer
        /\ ~n.fade /\ n.animated = t.animated /\ Settled(n) /\ n.why \subseteq {"left"}
    BY <1>1, <1>4, HiddenAtOnce
  <2>2. ~HasShown(t.waits)
    BY <1>4 DEF TooltipSound
  <2> HIDE DEF n
  <2>3. TooltipSound(n)
    BY <2>1, <2>2 DEF TooltipSound
  <2>4. n.waits # <<>> => n.waits[Len(n.waits)] = "hidden"
    BY <1>1, <2>1, <2>2, OnlyHides
  <2>5. ~Exempt(n)
    BY <2>1 DEF Exempt
  <2> QED
    BY <1>2, <2>1, <2>3, <2>4, <2>5 DEF TooltipGood, n
<1> QED
  BY <1>3, <1>4

\* What means nothing to where the tip is: who is over the element, what it was entered by,
\* the timer, and that a method was called or a hide prevented.
Matters == {"left", "crossed", "unfixed", "disposed"}

SameTip(t, n) ==
    /\ n \in ATooltip /\ n.show = t.show /\ n.fade = t.fade /\ n.animated = t.animated
    /\ n.waits = t.waits /\ n.inPage = t.inPage /\ n.described = t.described
    /\ n.placed = t.placed /\ \A r \in Matters : r \in n.why <=> r \in t.why

LEMMA SameTipGood ==
    ASSUME NEW t, TooltipGood(t), NEW n, SameTip(t, n) PROVE TooltipGood(n)
<1>1. (Exempt(n) <=> Exempt(t)) /\ (Settled(n) <=> Settled(t)) /\ (Shows(n) <=> Shows(t))
  BY DEF SameTip, Matters, Exempt, Settled, Shows
<1>2. TooltipSound(n)
  BY DEF TooltipGood, TooltipSound, SameTip
<1> QED
  BY <1>1, <1>2 DEF TooltipGood, SameTip

LEMMA HideTipGood ==
    ASSUME NEW t, TooltipGood(t), NEW n, n \in hideTip(t)
    PROVE  TooltipGood(n) /\ n.timer = t.timer /\ Len(n.waits) <= Len(t.waits) + 1
<1>1. t \in ATooltip /\ TooltipSound(t)
  BY DEF TooltipGood, TooltipSound
<1>2. CASE n = hidden(t)
  BY <1>1, <1>2, HiddenGood
<1>3. CASE n = [t EXCEPT !.why = @ \union {"prevented"}]
  <2>1. SameTip(t, n) /\ n.timer = t.timer /\ n.waits = t.waits
    BY <1>1, <1>3 DEF SameTip, ATooltip, Matters, Reasons
  <2>2. Len(t.waits) \in Nat
    BY <1>1, WaitsOf
  <2> QED
    BY <2>1, <2>2, SameTipGood
<1> QED
  BY <1>2, <1>3 DEF hideTip

LEMMA LeaveGood ==
    ASSUME NEW t, TooltipGood(t), NEW n, n \in leave(t)
    PROVE  /\ TooltipGood(n) /\ Len(n.waits) <= Len(t.waits) + 1
           /\ n.timer # "none" => Len(n.waits) <= Len(t.waits)
<1>1. TooltipSound(t) /\ t \in ATooltip
  BY DEF TooltipGood, TooltipSound
<1>2. Len(t.waits) \in Nat
  BY <1>1, WaitsOf
<1>3. CASE isWithActiveTrigger(t)
  BY <1>2, <1>3 DEF leave
<1>4. CASE ~isWithActiveTrigger(t) /\ t.delayed
  <2>1. n = [t EXCEPT !.hover = "out", !.timer = "hide"]
    BY <1>1, <1>4 DEF leave, ATooltip
  <2>2. SameTip(t, n) /\ n.waits = t.waits
    BY <1>1, <2>1 DEF SameTip, ATooltip
  <2> QED
    BY <1>2, <2>2, SameTipGood
<1>5. CASE ~isWithActiveTrigger(t) /\ ~t.delayed
  <2> DEFINE out == [t EXCEPT !.hover = "out", !.timer = "none"]
  <2>1. n \in hideTip(out)
    BY <1>1, <1>5 DEF leave, ATooltip
  <2>2. SameTip(t, out) /\ out.waits = t.waits /\ out.timer = "none"
    BY <1>1 DEF SameTip, ATooltip
  <2> HIDE DEF out
  <2>3. TooltipGood(out)
    BY <2>2, SameTipGood
  <2> QED
    BY <2>1, <2>2, <2>3, HideTipGood
<1> QED
  BY <1>3, <1>4, <1>5

LEMMA ShownEndsGood ==
    ASSUME NEW t, TooltipGood(t), NEW n, n \in shownEnds(t)
    PROVE  TooltipGood(n) /\ Len(n.waits) <= Len(t.waits) + 1
<1> DEFINE done == [t EXCEPT !.hover = ""]
<1>1. t \in ATooltip
  BY DEF TooltipGood, TooltipSound
<1>2. SameTip(t, done) /\ done.waits = t.waits
  BY <1>1 DEF SameTip, ATooltip
<1>3. n \in leave(done) \/ n = done
  BY DEF shownEnds
<1> HIDE DEF done
<1>4. TooltipGood(done)
  BY <1>2, SameTipGood
<1> QED
  BY <1>1, <1>2, <1>3, <1>4, WaitsOf, LeaveGood

LEMMA ShowTipGood ==
    ASSUME NEW t, TooltipGood(t), NEW n, n \in showTip(t)
    PROVE  /\ TooltipGood(n) /\ Len(n.waits) <= Len(t.waits) + 1
           /\ n.timer = t.timer \/ Len(n.waits) <= 1
<1> DEFINE why == t.why \intersect {"called"}
           up == [t EXCEPT !.show = TRUE, !.fade = t.animated, !.inPage = TRUE,
                           !.described = TRUE, !.placed = TRUE, !.why = why]
           w == Append(t.waits, "shown")
<1>1. TooltipSound(t) /\ t \in ATooltip
  BY DEF TooltipGood, TooltipSound
<1>2. t.waits \in Seq(Handler) /\ Len(t.waits) \in Nat /\ "shown" \in Handler
  BY <1>1, WaitsOf DEF Handler
<1>3. why \in SUBSET Reasons /\ "crossed" \notin why /\ "unfixed" \notin why
  BY <1>1 DEF ATooltip
<1>4. n \in showTip(t) => n = t \/ n \in IF t.animated THEN {[up EXCEPT !.waits = w]}
                                         ELSE shownEnds(up)
  BY DEF showTip, shownTip
<1> HIDE DEF why, w
<1>5. up \in ATooltip
  BY <1>1, <1>3, TRUE \in BOOLEAN DEF ATooltip
<1>6. /\ up.show /\ up.fade = t.animated /\ Shows(up) /\ up.why = why /\ up.waits = t.waits
      /\ up.animated = t.animated /\ up.timer = t.timer
  BY <1>1 DEF ATooltip, Shows
<1> HIDE DEF up
<1>7. CASE n = t
  BY <1>2, <1>7
<1>8. CASE t.animated /\ n = [up EXCEPT !.waits = w]
  <2>1. w \in Seq(Handler) /\ Len(w) = Len(t.waits) + 1 /\ w # <<>> /\ w[Len(w)] = "shown"
    BY <1>2, OneMore DEF w
  <2>2. /\ n \in ATooltip /\ n.show /\ n.fade /\ n.animated /\ Shows(n) /\ n.why = why
        /\ n.waits = w /\ n.timer = t.timer
    BY <1>5, <1>6, <1>8, <2>1 DEF ATooltip, Shows
  <2>3. TooltipSound(n) /\ ~Exempt(n)
    BY <1>3, <2>2 DEF TooltipSound, Exempt, Shows
  <2>4. TooltipGood(n)
    BY <2>1, <2>2, <2>3 DEF TooltipGood
  <2> QED
    BY <1>2, <2>1, <2>2, <2>4
<1>9. CASE ~t.animated /\ n \in shownEnds(up)
  <2>1. ~t.fade /\ t.waits = <<>> /\ Len(t.waits) = 0
    BY <1>1, <1>9 DEF TooltipSound
  <2>2. ~HasShown(up.waits)
    BY <1>6, <2>1 DEF HasShown
  <2>3. TooltipGood(up)
    BY <1>3, <1>5, <1>6, <1>9, <2>1, <2>2 DEF TooltipGood, TooltipSound, Exempt
  <2>4. TooltipGood(n) /\ Len(n.waits) <= Len(up.waits) + 1
    BY <1>9, <2>3, ShownEndsGood
  <2> QED
    BY <1>6, <2>1, <2>4
<1> QED
  BY <1>4, <1>7, <1>8, <1>9

LEMMA EnterGood ==
    ASSUME NEW t, TooltipGood(t), NEW n, n \in enter(t)
    PROVE  TooltipGood(n) /\ Len(n.waits) <= Len(t.waits) + 1
<1>1. t \in ATooltip
  BY DEF TooltipGood, TooltipSound
<1>2. Len(t.waits) \in Nat
  BY <1>1, WaitsOf
<1>3. CASE t.show \/ t.hover = "show"
  <2>1. n = [t EXCEPT !.hover = "show"]
    BY <1>3 DEF enter
  <2>2. SameTip(t, n) /\ n.waits = t.waits
    BY <1>1, <2>1 DEF SameTip, ATooltip
  <2> QED
    BY <1>2, <2>2, SameTipGood
<1>4. CASE ~(t.show \/ t.hover = "show") /\ t.delayed
  <2>1. n = [t EXCEPT !.hover = "show", !.timer = "show"]
    BY <1>4 DEF enter
  <2>2. SameTip(t, n) /\ n.waits = t.waits
    BY <1>1, <2>1 DEF SameTip, ATooltip
  <2> QED
    BY <1>2, <2>2, SameTipGood
<1>5. CASE ~(t.show \/ t.hover = "show") /\ ~t.delayed
  <2> DEFINE in == [t EXCEPT !.hover = "show", !.timer = "none"]
  <2>1. n \in showTip(in)
    BY <1>5 DEF enter
  <2>2. SameTip(t, in) /\ in.waits = t.waits
    BY <1>1 DEF SameTip, ATooltip
  <2> HIDE DEF in
  <2>3. TooltipGood(in)
    BY <2>2, SameTipGood
  <2> QED
    BY <2>1, <2>2, <2>3, ShowTipGood
<1> QED
  BY <1>3, <1>4, <1>5

--------------------------------------------------------------------------------
(* Tooltip: the handlers of one end of a transition *)

\* While the handlers run, what waits anew is one hide, of who left before the end of a show.
Running(t) ==
    /\ t \in ATooltip /\ t.waits \in {<<>>, <<"hidden">>}
    /\ t.waits # <<>> => t.hover # "out"

\* A tip with a place is where its class says, and one that is hidden has settled, or waits.
Coming(t) ==
    /\ Running(t) /\ (t.show /\ t.placed => t.inPage /\ t.described)
    /\ ~t.show => t.waits # <<>> \/ Settled(t)

\* A shown tip behind which a hide waits was fixed.
Marked(t) == t.show /\ t.waits # <<>> => "fixed" \in t.why

Arrived(t) == t.show => t.placed \/ "unfixed" \in t.why

LEMMA FirstHide == ASSUME NEW w, w = <<>> PROVE Append(w, "hidden") = <<"hidden">>
  OBVIOUS

LEMMA HideRuns ==
    ASSUME NEW t, t \in ATooltip, t.waits \in {<<>>, <<"hidden">>}, t.fade => t.waits = <<>>
    PROVE  LET n == hidden(t)
           IN /\ Coming(n) /\ ~n.show /\ n.fade = t.fade /\ n.animated = t.animated
              /\ n.delayed = t.delayed /\ (t.fade => n.placed = t.placed)
<1> DEFINE n == hidden(t)
<1>1. t.fade \in BOOLEAN
  BY DEF ATooltip
<1>2. CASE t.fade
  <2>1. /\ n \in ATooltip /\ ~n.show /\ n.hover = "" /\ n.waits = Append(t.waits, "hidden")
        /\ n.fade /\ n.animated = t.animated /\ n.delayed = t.delayed /\ n.placed = t.placed
    BY <1>2, HiddenLater
  <2>2. Append(t.waits, "hidden") = <<"hidden">> /\ <<"hidden">> # <<>>
    BY <1>2, FirstHide
  <2> HIDE DEF n
  <2>3. n.waits = <<"hidden">> /\ n.waits # <<>>
    BY <2>1, <2>2
  <2>4. Coming(n)
    BY <2>1, <2>3 DEF Coming, Running
  <2> QED
    BY <1>2, <2>1, <2>4 DEF n
<1>3. CASE ~t.fade
  <2>1. /\ n \in ATooltip /\ ~n.show /\ n.hover = "" /\ n.waits = t.waits /\ ~n.fade
        /\ n.animated = t.animated /\ n.delayed = t.delayed /\ Settled(n)
    BY <1>3, HiddenAtOnce
  <2> HIDE DEF n
  <2>2. Coming(n)
    BY <2>1 DEF Coming, Running
  <2>3. n.fade \in BOOLEAN
    BY <2>1 DEF ATooltip
  <2> QED
    BY <2>3, <1>1, <1>3, <2>1, <2>2 DEF n
<1> QED
  BY <1>2, <1>3

\* The end of a show, for any tip the handlers leave: it stays as it is, or it goes.
LEMMA ShownEndsRuns ==
    ASSUME NEW t, Running(t), NEW n, n \in shownEnds(t)
    PROVE  /\ Running(n) /\ n.animated = t.animated /\ n.fade = t.fade
           /\ \/ SameTip(t, n) /\ ("fixed" \in t.why => "fixed" \in n.why)
              \/ Coming(n) /\ ~n.show /\ (t.fade => n.placed = t.placed)
<1> DEFINE done == [t EXCEPT !.hover = ""]
           out == [done EXCEPT !.hover = "out", !.timer = "none"]
<1>1. t \in ATooltip
  BY DEF Running
<1>2. /\ SameTip(t, done) /\ done.hover = "" /\ done.why = t.why /\ done.delayed = t.delayed
      /\ Running(done)
  BY <1>1 DEF SameTip, ATooltip, Running
<1>3. n \in IF t.hover = "out" THEN leave(done) ELSE {done}
  BY DEF shownEnds
<1>4. done.hover = "" /\ done \in ATooltip
  BY <1>2 DEF SameTip
<1> HIDE DEF done
<1>5. CASE n = done
  BY <1>2, <1>5 DEF SameTip
<1>6. CASE t.hover = "out" /\ n \in leave(done)
  <2>1. t.waits = <<>> /\ done.waits = <<>>
    BY <1>2, <1>6 DEF Running, SameTip
  <2>2. CASE isWithActiveTrigger(done)
    BY <1>5, <1>6, <2>2 DEF leave
  <2>3. CASE ~isWithActiveTrigger(done) /\ done.delayed
    <3>1. n = [done EXCEPT !.hover = "out", !.timer = "hide"]
      BY <1>4, <1>6, <2>3 DEF leave, ATooltip
    <3>2. SameTip(done, n) /\ n.why = t.why /\ n.waits = <<>>
      BY <1>2, <1>4, <2>1, <3>1 DEF SameTip, ATooltip
    <3>3. SameTip(t, n) /\ Running(n)
      BY <1>2, <3>2 DEF SameTip, Running
    <3> QED
      BY <1>2, <3>2, <3>3 DEF SameTip
  <2>4. CASE ~isWithActiveTrigger(done) /\ ~done.delayed
    <3>1. n \in hideTip(out)
      BY <1>4, <1>6, <2>4 DEF leave, ATooltip
    <3>2. SameTip(done, out) /\ out.why = t.why /\ out.waits = <<>>
      BY <1>2, <1>4, <2>1 DEF SameTip, ATooltip
    <3> HIDE DEF out
    <3>3. SameTip(t, out)
      BY <1>2, <3>2 DEF SameTip
    <3>4. CASE n = [out EXCEPT !.why = @ \union {"prevented"}]
      <4>1. /\ SameTip(out, n) /\ (\A r \in out.why : r \in n.why) /\ n.waits = <<>>
        BY <3>2, <3>4 DEF SameTip, ATooltip, Reasons, Matters
      <4>2. SameTip(t, n) /\ Running(n)
        BY <3>3, <4>1 DEF SameTip, Running
      <4> QED
        BY <3>2, <4>1, <4>2 DEF SameTip
    <3>5. CASE n = hidden(out)
      <4>1. out \in ATooltip /\ out.fade = t.fade /\ out.animated = t.animated
            /\ out.placed = t.placed
        BY <3>3 DEF SameTip
      <4>2. /\ Coming(n) /\ ~n.show /\ n.fade = out.fade /\ n.animated = out.animated
            /\ (out.fade => n.placed = out.placed)
        BY <3>2, <3>5, <4>1, HideRuns
      <4> QED
        BY <4>1, <4>2 DEF Coming
    <3> QED
      BY <3>1, <3>4, <3>5 DEF hideTip
  <2> QED
    BY <2>2, <2>3, <2>4
<1> QED
  BY <1>3, <1>5, <1>6

\* The end of a show takes nothing back.
LEMMA ShownEndsComes ==
    ASSUME NEW t, Coming(t), NEW n, n \in shownEnds(t)
    PROVE  /\ Coming(n) /\ n.animated = t.animated
           /\ (Marked(t) => Marked(n)) /\ (Arrived(t) => Arrived(n))
<1>1. Running(t)
  BY DEF Coming
<1>2. /\ Running(n) /\ n.animated = t.animated
      /\ \/ SameTip(t, n) /\ ("fixed" \in t.why => "fixed" \in n.why)
         \/ Coming(n) /\ ~n.show
  BY <1>1, ShownEndsRuns
<1>3. CASE SameTip(t, n) /\ ("fixed" \in t.why => "fixed" \in n.why)
  <2>1. (Settled(n) <=> Settled(t)) /\ ("unfixed" \in n.why <=> "unfixed" \in t.why)
    BY <1>3 DEF SameTip, Settled, Matters
  <2> QED
    BY <1>2, <1>3, <2>1 DEF SameTip, Coming, Marked, Arrived
<1>4. CASE Coming(n) /\ ~n.show
  BY <1>2, <1>4 DEF Marked, Arrived
<1> QED
  BY <1>2, <1>3, <1>4

LEMMA HideCompletes ==
    ASSUME NEW t, Running(t)
    PROVE  LET n == hideComplete(t)
           IN /\ Running(n) /\ n.animated = t.animated /\ n.fade = t.fade /\ n.show = t.show
              /\ n.waits = t.waits /\ ~n.placed /\ Settled(n)
              /\ \A r \in Reasons \ {"left"} : r \in n.why <=> r \in t.why
<1> DEFINE stays == t.inPage /\ t.hover = "show"
           why == IF stays THEN t.why \union {"left"} ELSE t.why \ {"left"}
           n == hideComplete(t)
<1>1. t \in ATooltip
  BY DEF Running
<1>2. /\ stays \in BOOLEAN /\ why \in SUBSET Reasons /\ (stays => "left" \in why)
      /\ \A r \in Reasons \ {"left"} : r \in why <=> r \in t.why
  BY <1>1 DEF ATooltip, Reasons
<1>3. n = [t EXCEPT !.inPage = stays, !.described = FALSE, !.placed = FALSE, !.why = why]
  BY <1>1 DEF hideComplete, ATooltip
<1> HIDE DEF stays, why, n
<1>4. n \in ATooltip
  BY <1>1, <1>2, <1>3, FALSE \in BOOLEAN DEF ATooltip
<1>5. /\ n.animated = t.animated /\ n.fade = t.fade /\ n.show = t.show /\ n.waits = t.waits
      /\ n.hover = t.hover /\ ~n.placed /\ n.inPage = stays /\ ~n.described /\ n.why = why
  BY <1>1, <1>3 DEF ATooltip
<1>6. Running(n) /\ Settled(n)
  BY <1>2, <1>4, <1>5 DEF Running, Settled
<1> QED
  BY <1>2, <1>5, <1>6 DEF n

LEMMA HideComes ==
    ASSUME NEW t, Running(t)
    PROVE  LET n == hideComplete(t)
           IN Coming(n) /\ n.animated = t.animated /\ (Marked(t) => Marked(n))
<1> DEFINE n == hideComplete(t)
<1>1. /\ Running(n) /\ n.animated = t.animated /\ n.show = t.show /\ n.waits = t.waits
      /\ ~n.placed /\ Settled(n) /\ \A r \in Reasons \ {"left"} : r \in n.why <=> r \in t.why
  BY HideCompletes
<1>2. "fixed" \in Reasons \ {"left"}
  BY DEF Reasons
<1> HIDE DEF n
<1>3. Coming(n) /\ n.animated = t.animated /\ (Marked(t) => Marked(n))
  BY <1>1, <1>2 DEF Coming, Marked
<1> QED
  BY <1>3 DEF n

\* A show that nothing prevents puts the tip in its place, and ends.
LEMMA FixShows ==
    ASSUME NEW t, Running(t), ~t.animated, NEW n, n \in shownTip(t)
    PROVE  Coming(n) /\ ~n.animated /\ Arrived(n)
<1> DEFINE why == t.why \intersect {"called"}
           up == [t EXCEPT !.show = TRUE, !.fade = t.animated, !.inPage = TRUE,
                           !.described = TRUE, !.placed = TRUE, !.why = why]
<1>1. t \in ATooltip
  BY DEF Running
<1>2. n \in shownEnds(up)
  BY DEF shownTip
<1>3. why \in SUBSET Reasons
  BY <1>1 DEF ATooltip
<1> HIDE DEF why
<1>4. up \in ATooltip
  BY <1>1, <1>3, TRUE \in BOOLEAN DEF ATooltip
<1>5. /\ up.show /\ up.inPage /\ up.described /\ up.placed /\ up.waits = t.waits
      /\ up.hover = t.hover /\ up.animated = t.animated
  BY <1>1 DEF ATooltip
<1> HIDE DEF up
<1>6. Coming(up) /\ Arrived(up)
  BY <1>4, <1>5 DEF Coming, Running, Arrived
<1> QED
  BY <1>2, <1>5, <1>6, ShownEndsComes

LEMMA FixComes ==
    ASSUME NEW t, Running(t), t.animated, NEW n, n \in fixTransition(t)
    PROVE  /\ Running(n) /\ n.animated /\ (Marked(t) => Marked(n)) /\ Arrived(n)
           /\ Coming(t) => Coming(n)
<1>1. t \in ATooltip /\ t.waits \in {<<>>, <<"hidden">>}
  BY DEF Running
<1>2. CASE t.placed
  <2>1. n = t
    BY <1>2 DEF fixTransition
  <2> QED
    BY <1>2, <2>1 DEF Arrived
<1>3. CASE ~t.placed
  <2> DEFINE bare == [t EXCEPT !.fade = FALSE, !.animated = FALSE]
             kept == [bare EXCEPT !.why = @ \union {"unfixed"}]
  <2>1. PICK u \in showTip(hidden(bare)) \union showTip(kept) :
           n = [u EXCEPT !.animated = TRUE, !.why = @ \union {"fixed"}]
    BY <1>3 DEF fixTransition
  <2>2. /\ bare \in ATooltip /\ ~bare.fade /\ ~bare.animated /\ bare.waits = t.waits
        /\ bare.hover = t.hover /\ bare.why = t.why /\ bare.show = t.show
        /\ bare.placed = t.placed /\ bare.inPage = t.inPage /\ bare.described = t.described
    BY <1>1, FALSE \in BOOLEAN DEF ATooltip
  <2> HIDE DEF bare
  <2>3. /\ kept \in ATooltip /\ ~kept.animated /\ kept.waits = t.waits /\ kept.hover = t.hover
        /\ kept.show = t.show /\ kept.placed = t.placed /\ kept.inPage = t.inPage
        /\ kept.described = t.described /\ kept.why = t.why \union {"unfixed"}
    BY <2>2 DEF ATooltip, Reasons
  <2> HIDE DEF kept
  <2>4. Running(kept) /\ Arrived(kept) /\ (Coming(t) => Coming(kept))
    <3>1. (Settled(t) => Settled(kept)) /\ Running(kept)
      BY <2>3 DEF Settled, Running
    <3> QED
      BY <2>3, <3>1 DEF Coming, Arrived
  <2> DEFINE gone == hidden(bare)
  <2>5. Coming(gone) /\ Arrived(gone) /\ ~gone.animated
    <3>1. /\ Coming(gone) /\ ~gone.show /\ gone.animated = bare.animated
      BY <1>1, <2>2, HideRuns
    <3> HIDE DEF gone
    <3> QED
      BY <2>2, <3>1 DEF Arrived
  <2>6. Running(u) /\ Arrived(u) /\ (Coming(t) => Coming(u))
    <3>1. \/ u = gone \/ u \in shownTip(gone)
          \/ u = kept \/ u \in shownTip(kept)
      BY <2>1 DEF showTip
    <3> HIDE DEF gone
    <3>2. Running(gone) /\ Running(kept)
      BY <2>4, <2>5 DEF Coming
    <3>3. CASE u = gone
      BY <2>5, <3>2, <3>3
    <3>4. CASE u = kept
      BY <2>4, <3>4
    <3>5. CASE u \in shownTip(gone) \/ u \in shownTip(kept)
      <4>1. Coming(u) /\ Arrived(u)
        BY <2>3, <2>5, <3>2, <3>5, FixShows
      <4> QED
        BY <4>1 DEF Coming
    <3> QED
      BY <3>1, <3>3, <3>4, <3>5
  <2>7. u \in ATooltip
    BY <2>6 DEF Running
  <2>8. u.why \union {"fixed"} \in SUBSET Reasons
    BY <2>7 DEF ATooltip, Reasons
  <2>9. n \in ATooltip
    BY <2>1, <2>7, <2>8, TRUE \in BOOLEAN DEF ATooltip
  <2>10. /\ n.animated /\ n.why = u.why \union {"fixed"} /\ n.show = u.show
         /\ n.placed = u.placed /\ n.inPage = u.inPage /\ n.described = u.described
         /\ n.waits = u.waits /\ n.hover = u.hover
    BY <2>1, <2>7 DEF ATooltip
  <2>11. (Settled(u) => Settled(n)) /\ Running(n)
    BY <2>6, <2>9, <2>10 DEF Settled, Running
  <2> QED
    BY <2>6, <2>10, <2>11 DEF Coming, Marked, Arrived
<1> QED
  BY <1>2, <1>3

\* The end of a show fixes what it finds without a place.
LEMMA ShowComes ==
    ASSUME NEW t, Running(t), t.animated, NEW n, n \in showComplete(t)
    PROVE  /\ Running(n) /\ n.animated
           /\ Coming(t) => Coming(n) /\ (Marked(t) => Marked(n)) /\ Arrived(n)
<1>1. PICK u \in fixTransition(t) : n \in shownEnds(u)
  BY DEF showComplete
<1>2. /\ Running(u) /\ u.animated /\ (Marked(t) => Marked(u)) /\ Arrived(u)
      /\ Coming(t) => Coming(u)
  BY <1>1, FixComes
<1>3. Running(n) /\ n.animated
  BY <1>1, <1>2, ShownEndsRuns
<1> QED
  BY <1>1, <1>2, <1>3, ShownEndsComes

\* A hidden tip that has its place is not touched.
LEMMA ShowEndsHidden ==
    ASSUME NEW t, Running(t), ~t.show, t.placed, t.fade, NEW n, n \in showComplete(t)
    PROVE  Running(n) /\ ~n.show /\ n.placed /\ n.fade /\ n.animated = t.animated
<1>1. n \in shownEnds(t)
  BY DEF showComplete, fixTransition
<1>2. /\ Running(n) /\ n.animated = t.animated /\ n.fade = t.fade
      /\ \/ SameTip(t, n) /\ ("fixed" \in t.why => "fixed" \in n.why)
         \/ Coming(n) /\ ~n.show /\ (t.fade => n.placed = t.placed)
  BY <1>1, ShownEndsRuns
<1> QED
  BY <1>2 DEF SameTip

LEMMA StepRuns ==
    ASSUME NEW t, Running(t), t.animated, NEW w \in Handler, NEW n, n \in completed(t, w)
    PROVE  Running(n) /\ n.animated
<1>1. CASE w = "shown"
  BY <1>1, ShowComes DEF completed
<1>2. CASE w # "shown"
  <2>1. n = hideComplete(t)
    BY <1>2 DEF completed
  <2> QED
    BY <2>1, HideCompletes
<1> QED
  BY <1>1, <1>2

\* The tooltips there may be before the first of the handlers and after each one.
HandlersComplete(H, t, waits) ==
    /\ H[0] = {t}
    /\ \A k \in 0..Len(waits) - 1 :
          H[k + 1] = UNION {completed(u, waits[k + 1]) : u \in H[k]}
    /\ completedAll(t, waits) = H[Len(waits)]

LEMMA HandlersCompleteInOrder ==
    ASSUME NEW t, Running(t), t.animated, NEW waits \in Seq(Handler)
    PROVE  \E H : HandlersComplete(H, t, waits)
<1> DEFINE n == Len(waits)
           onward(U, w) == UNION {completed(u, w) : u \in U}
           X == SUBSET {u \in ATooltip : Running(u) /\ u.animated}
           F == [p \in X \X Handler |-> onward(p[1], p[2])]
           f == CHOOSE f : f = [s \in SUBSET DOMAIN waits |->
                                  IF s = {} THEN {t}
                                  ELSE onward(f[s \ {Max(s)}], waits[Max(s)])]
<1>1. n \in Nat /\ DOMAIN waits = 1..n
  OBVIOUS
<1>2. ASSUME NEW U \in X, NEW w \in Handler PROVE onward(U, w) \in X
  <2>1. ASSUME NEW u \in U, NEW m \in completed(u, w) PROVE Running(m) /\ m.animated /\ m \in ATooltip
    <3>1. Running(m) /\ m.animated
      BY <2>1, StepRuns
    <3> QED
      BY <3>1 DEF Running
  <2> QED
    BY <2>1
<1>3. {t} \in X
  BY DEF Running
<1>4. completedAll(t, waits) = FoldLeft(LAMBDA U, w : onward(U, w), {t}, waits)
  BY DEF completedAll
<1> HIDE DEF X, onward
<1>5. F \in [X \X Handler -> X]
  BY <1>2
<1>6. PICK g \in [SUBSET (1..n) -> X] : FoldsBy(g, F, {t}, waits, n)
  BY <1>3, <1>5, FoldExists
<1>7. g = [s \in SUBSET DOMAIN waits |->
             IF s = {} THEN {t} ELSE onward(g[s \ {Max(s)}], waits[Max(s)])]
  <2>1. ASSUME NEW s \in SUBSET (1..n)
        PROVE  g[s] = IF s = {} THEN {t} ELSE onward(g[s \ {Max(s)}], waits[Max(s)])
    <3>1. CASE s # {}
      <4>1. g[s] = F[<<g[s \ {Max(s)}], waits[Max(s)]>>]
        BY <1>6, <3>1 DEF FoldsBy
      <4>2. Max(s) \in s
        BY <1>1, <3>1, LastOfSet
      <4>3. Max(s) \in 1..n
        BY <4>2
      <4>4. s \ {Max(s)} \in SUBSET (1..n)
        OBVIOUS
      <4>5. waits[Max(s)] \in Handler
        BY <1>1, <4>3
      <4> QED
        BY <1>6, <4>1, <4>4, <4>5, <3>1
    <3>2. CASE s = {}
      BY <1>6, <3>2 DEF FoldsBy
    <3> QED
      BY <3>1, <3>2
  <2> QED
    BY <1>1, <1>6, <2>1
<1>8. f = [s \in SUBSET DOMAIN waits |->
             IF s = {} THEN {t} ELSE onward(f[s \ {Max(s)}], waits[Max(s)])]
  BY <1>7
<1>9. completedAll(t, waits) = f[1..n]
  BY <1>1, <1>4 DEF FoldLeft, MapThenFoldSet
<1> HIDE DEF f
<1> DEFINE H == [k \in 0..n |-> f[1..k]]
<1>10. \A k \in 0..n - 1 : H[k + 1] = onward(H[k], waits[k + 1])
  <2> TAKE k \in 0..n - 1
  <2>1. /\ k \in 0..n /\ k + 1 \in 0..n
        /\ 1..k + 1 \in SUBSET (1..n) /\ 1..k + 1 # {}
        /\ Max(1..k + 1) = k + 1 /\ (1..k + 1) \ {k + 1} = 1..k
    BY <1>1, LastOfSegment
  <2>2. f[1..k + 1] = onward(f[1..k], waits[k + 1])
    BY <1>1, <1>8, <2>1
  <2> QED
    BY <2>1, <2>2
<1>11. H[0] = {t}
  <2>1. 1..0 = {} /\ 0 \in 0..n
    BY <1>1
  <2> QED
    BY <1>8, <2>1
<1>12. H[n] = f[1..n]
  BY <1>1
<1> HIDE DEF H
<1>13. HandlersComplete(H, t, waits)
  BY <1>9, <1>10, <1>11, <1>12 DEF HandlersComplete, onward
<1> QED
  BY <1>13

\* What each handler keeps, all of them keep.
LEMMA EveryHandler ==
    ASSUME NEW t, NEW waits \in Seq(Handler), NEW H, HandlersComplete(H, t, waits),
           NEW G, t \in G[0],
           \A k \in 0..Len(waits) - 1 :
              \A u \in G[k] : \A m \in completed(u, waits[k + 1]) : m \in G[k + 1]
    PROVE  \A k \in 0..Len(waits) : \A u \in H[k] : u \in G[k]
<1> DEFINE n == Len(waits)
           P(k) == \A u \in H[k] : u \in G[k]
           K == {k \in Nat : k <= n => P(k)}
<1>1. n \in Nat
  OBVIOUS
<1>2. P(0)
  BY DEF HandlersComplete
<1>3. ASSUME NEW k \in Nat, P(k), k + 1 <= n PROVE P(k + 1)
  <2>1. k \in 0..n - 1
    BY <1>1, <1>3
  <2>2. H[k + 1] = UNION {completed(u, waits[k + 1]) : u \in H[k]}
    BY <2>1 DEF HandlersComplete
  <2> QED
    BY <1>3, <2>1, <2>2
<1> HIDE DEF P
<1>4. 0 \in K
  BY <1>2
<1>5. \A k \in Nat : k \in K => k + 1 \in K
  <2> SUFFICES ASSUME NEW k \in Nat, k \in K, k + 1 <= n PROVE P(k + 1)
    OBVIOUS
  <2>1. k <= n
    BY <1>1
  <2> QED
    BY <1>3, <2>1
<1> HIDE DEF K
<1>6. \A k \in 0..n : k \in K
  BY <1>4, <1>5, EveryNumber
<1>7. \A k \in 0..n : P(k)
  BY <1>1, <1>6 DEF K
<1> QED
  BY <1>7 DEF P

\* The last handler, and what it finds.
LEMMA LastHandler ==
    ASSUME NEW t, NEW waits \in Seq(Handler), waits # <<>>,
           NEW H, HandlersComplete(H, t, waits), NEW r, r \in completedAll(t, waits)
    PROVE  /\ Len(waits) \in Nat \ {0}
           /\ \E u \in H[Len(waits) - 1] : r \in completed(u, waits[Len(waits)])
<1> DEFINE n == Len(waits)
<1>1. n \in Nat /\ n # 0
  BY EmptySeq
<1>2. n - 1 \in 0..n - 1 /\ (n - 1) + 1 = n
  BY <1>1
<1>3. H[n] = UNION {completed(u, waits[n]) : u \in H[n - 1]}
  <2>1. \A k \in 0..n - 1 : H[k + 1] = UNION {completed(u, waits[k + 1]) : u \in H[k]}
    BY DEF HandlersComplete
  <2>2. H[(n - 1) + 1] = UNION {completed(u, waits[(n - 1) + 1]) : u \in H[n - 1]}
    BY <1>2, <2>1
  <2> QED
    BY <1>2, <2>2
<1>4. r \in H[n]
  BY DEF HandlersComplete
<1> QED
  BY <1>1, <1>3, <1>4

\* A show is the last that waits: the tip arrives, or goes.
LEMMA ShownLast ==
    ASSUME NEW t, Coming(t), Marked(t), t.animated,
           NEW waits \in Seq(Handler), waits # <<>>, waits[Len(waits)] = "shown",
           NEW r, r \in completedAll(t, waits)
    PROVE  Coming(r) /\ Marked(r) /\ Arrived(r) /\ r.animated
<1> DEFINE n == Len(waits)
           good == {u \in ATooltip : Coming(u) /\ Marked(u) /\ u.animated}
           G == [k \in 0..n |-> good]
<1>1. PICK H : HandlersComplete(H, t, waits)
  BY HandlersCompleteInOrder DEF Coming
<1>2. n \in Nat \ {0}
  BY <1>1, LastHandler
<1>3. PICK u \in H[n - 1] : r \in completed(u, waits[n])
  BY <1>1, LastHandler
<1>4. ASSUME NEW k \in 0..n - 1, NEW v \in good, NEW m \in completed(v, waits[k + 1])
      PROVE  m \in good
  <2>1. Coming(v) /\ Marked(v) /\ v.animated /\ Running(v)
    BY DEF Coming
  <2>2. CASE waits[k + 1] = "shown"
    <3>1. m \in showComplete(v)
      BY <2>2 DEF completed
    <3>2. Coming(m) /\ Marked(m) /\ m.animated
      BY <2>1, <3>1, ShowComes
    <3> QED
      BY <3>2 DEF Coming, Running
  <2>3. CASE waits[k + 1] # "shown"
    <3>1. m = hideComplete(v)
      BY <2>3 DEF completed
    <3>2. Coming(m) /\ Marked(m) /\ m.animated
      BY <2>1, <3>1, HideComes
    <3> QED
      BY <3>2 DEF Coming, Running
  <2> QED
    BY <2>2, <2>3
<1>5. t \in good
  BY DEF Coming, Running
<1> HIDE DEF good
<1>6. \A k \in 0..n - 1 : G[k] = good /\ G[k + 1] = good
  BY <1>2
<1>7. G[0] = good /\ n - 1 \in 0..n /\ G[n - 1] = good
  BY <1>2
<1> HIDE DEF G
<1>8. \A k \in 0..n - 1 : \A v \in G[k] : \A m \in completed(v, waits[k + 1]) : m \in G[k + 1]
  BY <1>4, <1>6
<1>9. \A k \in 0..n : \A v \in H[k] : v \in G[k]
  <2>1. t \in G[0]
    BY <1>5, <1>7
  <2> QED
    BY <1>1, <1>8, <2>1, EveryHandler
<1>10. u \in good
  BY <1>7, <1>9
<1>11. Coming(u) /\ Marked(u) /\ u.animated /\ Running(u)
  BY <1>10 DEF good, Coming
<1>12. r \in showComplete(u)
  BY <1>3 DEF completed
<1> QED
  BY <1>11, <1>12, ShowComes

\* A hide is the last that waits, and no hide before a show: the tip stays hidden.
LEMMA HiddenLast ==
    ASSUME NEW t, Running(t), t.animated, ~t.show,
           NEW waits \in Seq(Handler), waits # <<>>, waits[Len(waits)] = "hidden",
           HasShown(waits) => t.fade /\ t.placed,
           \A i, j \in 1..Len(waits) : i < j => ~(waits[i] = "hidden" /\ waits[j] = "shown"),
           NEW r, r \in completedAll(t, waits)
    PROVE  Running(r) /\ r.animated /\ ~r.show /\ Settled(r)
<1> DEFINE n == Len(waits)
           spared(k) == (\A i \in 1..k : waits[i] = "shown") /\ HasShown(waits)
           good(k) == {u \in ATooltip : /\ Running(u) /\ u.animated /\ ~u.show
                                        /\ spared(k) => u.fade /\ u.placed}
           G == [k \in 0..n |-> good(k)]
<1>1. PICK H : HandlersComplete(H, t, waits)
  BY HandlersCompleteInOrder
<1>2. n \in Nat \ {0}
  BY <1>1, LastHandler
<1>3. PICK u \in H[n - 1] : r \in completed(u, waits[n])
  BY <1>1, LastHandler
<1>4. ASSUME NEW k \in 0..n - 1, NEW v \in good(k), NEW m \in completed(v, waits[k + 1])
      PROVE  m \in good(k + 1)
  <2>1. /\ Running(v) /\ v.animated /\ ~v.show /\ (spared(k) => v.fade /\ v.placed)
        /\ k \in Nat /\ k + 1 \in 1..n
    BY <1>2
  <2>2. CASE waits[k + 1] = "shown"
    <3>1. m \in showComplete(v)
      BY <2>2 DEF completed
    <3>2. spared(k)
      <4>1. HasShown(waits)
        BY <2>1, <2>2 DEF HasShown
      <4>2. \A i \in 1..k : waits[i] \in Handler /\ waits[i] # "hidden"
        <5> TAKE i \in 1..k
        <5>1. i \in 1..n /\ i < k + 1
          BY <1>2, <2>1
        <5>2. waits[i] \in Handler
          BY <5>1
        <5> QED
          BY <2>1, <2>2, <5>1, <5>2
      <4> QED
        BY <4>1, <4>2 DEF Handler
    <3>3. Running(m) /\ ~m.show /\ m.placed /\ m.fade /\ m.animated = v.animated
      BY <2>1, <3>1, <3>2, ShowEndsHidden
    <3> QED
      BY <2>1, <3>3 DEF Running
  <2>3. CASE waits[k + 1] # "shown"
    <3>1. m = hideComplete(v)
      BY <2>3 DEF completed
    <3>2. Running(m) /\ ~m.show /\ m.animated = v.animated
      BY <2>1, <3>1, HideCompletes
    <3>3. ~spared(k + 1)
      <4>1. k + 1 \in 1..k + 1
        BY <2>1
      <4> QED
        BY <2>3, <4>1
    <3> QED
      BY <2>1, <3>2, <3>3 DEF Running
  <2> QED
    BY <2>2, <2>3
<1>5. t \in good(0)
  BY DEF Running
<1> HIDE DEF good
<1>6. \A k \in 0..n - 1 : G[k] = good(k) /\ G[k + 1] = good(k + 1)
  BY <1>2
<1>7. G[0] = good(0) /\ n - 1 \in 0..n /\ G[n - 1] = good(n - 1)
  BY <1>2
<1> HIDE DEF G
<1>8. \A k \in 0..n - 1 : \A v \in G[k] : \A m \in completed(v, waits[k + 1]) : m \in G[k + 1]
  BY <1>4, <1>6
<1>9. \A k \in 0..n : \A v \in H[k] : v \in G[k]
  <2>1. t \in G[0]
    BY <1>5, <1>7
  <2> QED
    BY <1>1, <1>8, <2>1, EveryHandler
<1>10. u \in good(n - 1)
  BY <1>7, <1>9
<1>11. Running(u) /\ u.animated /\ ~u.show
  BY <1>10 DEF good
<1>12. r = hideComplete(u)
  BY <1>3 DEF completed
<1> QED
  BY <1>11, <1>12, HideCompletes

LEMMA AllRun ==
    ASSUME NEW t, Running(t), t.animated, NEW waits \in Seq(Handler), waits # <<>>,
           NEW r, r \in completedAll(t, waits)
    PROVE  Running(r) /\ r.animated
<1> DEFINE n == Len(waits)
           good == {u \in ATooltip : Running(u) /\ u.animated}
           G == [k \in 0..n |-> good]
<1>1. PICK H : HandlersComplete(H, t, waits)
  BY HandlersCompleteInOrder
<1>2. n \in Nat \ {0}
  BY <1>1, LastHandler
<1>3. r \in H[n]
  BY <1>1 DEF HandlersComplete
<1>4. ASSUME NEW k \in 0..n - 1, NEW v \in good, NEW m \in completed(v, waits[k + 1])
      PROVE  m \in good
  <2>1. waits[k + 1] \in Handler
    BY <1>2
  <2>2. Running(m) /\ m.animated
    BY <1>4, <2>1, StepRuns
  <2> QED
    BY <2>2 DEF Running
<1>5. t \in good
  BY DEF Running
<1> HIDE DEF good
<1>6. \A k \in 0..n - 1 : G[k] = good /\ G[k + 1] = good
  BY <1>2
<1>7. G[0] = good /\ n \in 0..n /\ G[n] = good
  BY <1>2
<1> HIDE DEF G
<1>8. \A k \in 0..n - 1 : \A v \in G[k] : \A m \in completed(v, waits[k + 1]) : m \in G[k + 1]
  BY <1>4, <1>6
<1>9. \A k \in 0..n : \A v \in H[k] : v \in G[k]
  <2>1. t \in G[0]
    BY <1>5, <1>7
  <2> QED
    BY <1>1, <1>8, <2>1, EveryHandler
<1> QED
  BY <1>3, <1>7, <1>9 DEF good

\* What the handlers leave, with the mark that a hide waits behind a fixed show.
LEMMA EndsGood ==
    ASSUME NEW r, Running(r), r.animated, NEW mark \in SUBSET {"crossed"},
           NEW n, n = [r EXCEPT !.why = @ \union mark],
           \/ Exempt(n)
           \/ Coming(r) /\ Marked(r) /\ Arrived(r) /\ ("fixed" \in r.why => r.waits = <<>>)
           \/ ~r.show /\ (r.waits # <<>> \/ Settled(r))
    PROVE  TooltipGood(n) /\ n.waits \in {<<>>, <<"hidden">>}
<1>1. r \in ATooltip /\ r.waits \in {<<>>, <<"hidden">>}
  BY DEF Running
<1>2. r.why \union mark \in SUBSET Reasons
  BY <1>1 DEF ATooltip, Reasons
<1>3. n \in ATooltip
  BY <1>1, <1>2 DEF ATooltip
<1>4. /\ n.animated /\ n.show = r.show /\ n.inPage = r.inPage /\ n.described = r.described
      /\ n.placed = r.placed /\ n.waits = r.waits /\ n.why = r.why \union mark
  BY <1>1 DEF ATooltip
<1>5. ~HasShown(n.waits)
  BY <1>1, <1>4 DEF HasShown
<1>6. TooltipSound(n)
  BY <1>3, <1>4, <1>5 DEF TooltipSound
<1>7. n.waits # <<>> => n.waits[Len(n.waits)] = "hidden"
  BY <1>1, <1>4
<1>8. (Settled(r) => Settled(n)) /\ ("unfixed" \in r.why => Exempt(n))
  BY <1>4 DEF Settled, Exempt
<1>9. CASE Exempt(n)
  BY <1>1, <1>4, <1>6, <1>9 DEF TooltipGood
<1>10. CASE ~Exempt(n) /\ r.show
  <2>1. r.waits = <<>> /\ Shows(n)
    BY <1>4, <1>8, <1>10 DEF Coming, Marked, Arrived, Shows
  <2> QED
    BY <1>4, <1>6, <1>10, <2>1 DEF TooltipGood
<1>11. CASE ~Exempt(n) /\ ~r.show
  <2>1. r.waits # <<>> \/ Settled(n)
    BY <1>8, <1>11 DEF Coming
  <2> QED
    BY <1>1, <1>4, <1>6, <1>7, <1>11, <2>1 DEF TooltipGood
<1> QED
  BY <1>9, <1>10, <1>11

Within(t) == Len(t.waits) <= IF t.timer = "none" THEN MaxWaits + 1 ELSE MaxWaits

TooltipInv == TooltipGood(tooltip) /\ Within(tooltip)

LEMMA TooltipFacts ==
    ASSUME TooltipGood(tooltip)
    PROVE  /\ tooltip \in ATooltip /\ tooltip.waits \in Seq(Handler)
           /\ Len(tooltip.waits) \in Nat /\ MaxWaits \in Nat \ {0}
<1>1. tooltip \in ATooltip
  BY DEF TooltipGood, TooltipSound
<1>2. tooltip.waits \in Seq(Handler)
  BY <1>1 DEF ATooltip
<1> QED
  BY <1>1, <1>2, TooltipAssumption

LEMMA TooltipTypes == TooltipInv => TooltipTypeOK
<1> SUFFICES ASSUME TooltipInv PROVE TooltipTypeOK
  OBVIOUS
<1>1. /\ tooltip \in ATooltip /\ tooltip.waits \in Seq(Handler)
      /\ Len(tooltip.waits) \in Nat /\ MaxWaits \in Nat \ {0}
  BY TooltipFacts DEF TooltipInv
<1>2. 2 * MaxWaits \in Nat /\ Len(tooltip.waits) <= 2 * MaxWaits
  BY <1>1 DEF TooltipInv, Within
<1>3. tooltip.waits \in BoundedSeq(Handler, 2 * MaxWaits)
  BY <1>1, <1>2, BoundedSequences
<1> QED
  BY <1>1, <1>3 DEF ATooltip, TooltipTypeOK, Handler

LEMMA NothingWaits == <<>> \in Seq(Handler) /\ ~HasShown(<<>>)
  BY DEF HasShown

LEMMA LittleWaits == ASSUME NEW t, t.waits \in {<<>>, <<"hidden">>} PROVE Within(t)
<1> DEFINE l == Len(t.waits)
<1>1. l \in {0, 1}
  OBVIOUS
<1>2. \A k \in {0, 1} : k <= MaxWaits /\ k <= MaxWaits + 1
  BY TooltipAssumption
<1> HIDE DEF l
<1>3. l <= MaxWaits /\ l <= MaxWaits + 1
  BY <1>1, <1>2
<1> QED
  BY <1>3 DEF Within, l

LEMMA GoodInit ==
    ASSUME TooltipGood(tooltip), tooltip.waits = <<>> PROVE TooltipInv
<1>1. Within(tooltip)
  BY LittleWaits
<1> QED
  BY <1>1 DEF TooltipInv

LEMMA TooltipInvInit == TooltipInit => TooltipInv
<1> SUFFICES ASSUME NEW animated \in BOOLEAN, NEW delayed \in BOOLEAN, NEW content \in BOOLEAN,
                    tooltip = [hover |-> "", triggers |-> {}, over |-> {}, timer |-> "none",
                        enabled |-> TRUE, show |-> FALSE, fade |-> FALSE, inPage |-> FALSE,
                        described |-> FALSE, placed |-> FALSE, waits |-> <<>>, why |-> {},
                        animated |-> animated, delayed |-> delayed, content |-> content]
             PROVE  TooltipInv
  BY DEF TooltipInit
<1>1. tooltip \in ATooltip
  BY NothingWaits DEF ATooltip
<1>2. /\ tooltip.waits = <<>> /\ ~tooltip.fade /\ ~tooltip.show /\ ~tooltip.inPage
      /\ ~tooltip.described /\ tooltip.why = {}
  OBVIOUS
<1>3. ~HasShown(tooltip.waits)
  BY <1>2, NothingWaits
<1>4. TooltipGood(tooltip)
  BY <1>1, <1>2, <1>3 DEF TooltipGood, TooltipSound, Exempt, Settled
<1> QED
  BY <1>2, <1>4, GoodInit

\* What the mouse, the focus, a click or a call does while the tooltip is calm.
LEMMA CalmInv ==
    ASSUME TooltipInv, calm, NEW t, SameTip(tooltip, t), TooltipGood(tooltip'),
           Len(tooltip'.waits) <= Len(t.waits) + 1
    PROVE  TooltipInv'
<1>1. Len(tooltip.waits) \in Nat /\ MaxWaits \in Nat \ {0}
  BY TooltipFacts DEF TooltipInv
<1>2. tooltip'.waits \in Seq(Handler)
  BY DEF TooltipGood, TooltipSound, ATooltip
<1>3. Len(tooltip'.waits) \in Nat
  BY <1>2
<1>4. Len(t.waits) = Len(tooltip.waits)
  BY DEF SameTip
<1>5. Len(tooltip'.waits) <= MaxWaits
  BY <1>1, <1>3, <1>4 DEF calm
<1>6. Within(tooltip')
  BY <1>1, <1>3, <1>5 DEF Within
<1> QED
  BY <1>6 DEF TooltipInv

\* What the handlers leave of a good tooltip whose handlers are taken off.
LEMMA HandlersGood ==
    ASSUME NEW t0, TooltipGood(t0), t0.waits # <<>>,
           NEW r, r \in completedAll([t0 EXCEPT !.waits = <<>>], t0.waits),
           NEW n, n = [r EXCEPT !.why = @ \union IF crossing(t0.waits, r) THEN {"crossed"}
                                                  ELSE {}]
    PROVE  TooltipGood(n) /\ n.waits \in {<<>>, <<"hidden">>}
<1> DEFINE t == [t0 EXCEPT !.waits = <<>>]
           w == t0.waits
           mark == IF crossing(w, r) THEN {"crossed"} ELSE {}
<1>1. /\ TooltipSound(t0) /\ t0 \in ATooltip /\ t0.animated /\ w \in Seq(Handler)
      /\ Len(w) \in Nat
  BY WaitsOf DEF TooltipGood, TooltipSound
<1>2. t \in ATooltip
  BY <1>1, NothingWaits DEF ATooltip
<1>3. /\ t.show = t0.show /\ t.inPage = t0.inPage /\ t.described = t0.described
      /\ t.placed = t0.placed /\ t.waits = <<>> /\ t.fade = t0.fade /\ t.animated
      /\ t.why = t0.why
  BY <1>1 DEF ATooltip
<1>4. r \in completedAll(t, w) /\ n = [r EXCEPT !.why = @ \union mark]
  OBVIOUS
<1>5. mark \in SUBSET {"crossed"} /\ (crossing(w, r) => "crossed" \in mark)
  OBVIOUS
<1> HIDE DEF t, mark
<1>6. Running(t)
  BY <1>2, <1>3 DEF Running
<1>7. Running(r) /\ r.animated
  BY <1>1, <1>3, <1>4, <1>6, AllRun
<1>8. n.why = r.why \union mark
  <2>1. r \in ATooltip
    BY <1>7 DEF Running
  <2> QED
    BY <1>4, <2>1 DEF ATooltip
<1>9. CASE Exempt(t0)
  <2>1. w = <<"hidden">>
    BY <1>9 DEF TooltipGood
  <2>2. PICK H : HandlersComplete(H, t, w)
    BY <1>1, <1>3, <1>6, HandlersCompleteInOrder
  <2>3. Len(w) = 1 /\ w[1] = "hidden" /\ 1 - 1 = 0
    BY <2>1
  <2>4. PICK u \in H[0] : r \in completed(u, "hidden")
    BY <1>1, <1>4, <2>2, <2>3, LastHandler
  <2>5. H[0] = {t}
    BY <2>2 DEF HandlersComplete
  <2>6. r = hideComplete(t)
    BY <2>4, <2>5 DEF completed
  <2>7. \A x \in Reasons \ {"left"} : x \in r.why <=> x \in t.why
    BY <1>6, <2>6, HideCompletes
  <2>8. Exempt(n)
    BY <1>3, <1>8, <1>9, <2>7 DEF Exempt, Reasons
  <2> QED
    BY <1>4, <1>5, <1>7, <2>8, EndsGood
<1>10. CASE crossing(w, r)
  <2>1. Exempt(n)
    BY <1>5, <1>8, <1>10 DEF Exempt
  <2> QED
    BY <1>4, <1>5, <1>7, <2>1, EndsGood
<1>11. CASE ~Exempt(t0) /\ ~crossing(w, r) /\ w[Len(w)] = "shown"
  <2>1. t0.show /\ Shows(t0)
    <3>1. "shown" # "hidden"
      OBVIOUS
    <3> QED
      BY <1>11, <3>1 DEF TooltipGood
  <2>2. Coming(t) /\ Marked(t)
    BY <1>3, <1>6, <2>1 DEF Coming, Marked, Shows
  <2>3. Coming(r) /\ Marked(r) /\ Arrived(r)
    BY <1>1, <1>3, <1>4, <1>11, <2>2, ShownLast
  <2>4. "fixed" \in r.why => r.waits = <<>>
    BY <1>11 DEF crossing
  <2> QED
    BY <1>4, <1>5, <1>7, <2>3, <2>4, EndsGood
<1>12. CASE ~Exempt(t0) /\ ~crossing(w, r) /\ w[Len(w)] # "shown"
  <2>1. Len(w) \in 1..Len(w)
    BY <1>1, EmptySeq
  <2>2. w[Len(w)] \in Handler
    BY <1>1, <2>1
  <2>3. w[Len(w)] = "hidden"
    BY <1>12, <2>2 DEF Handler
  <2>4. ~t0.show
    BY <1>12 DEF TooltipGood
  <2>5. \A i, j \in 1..Len(w) : i < j => ~(w[i] = "hidden" /\ w[j] = "shown")
    <3> SUFFICES ASSUME NEW i \in 1..Len(w), NEW j \in 1..Len(w), i < j,
                        w[i] = "hidden", w[j] = "shown"
                 PROVE  FALSE
      OBVIOUS
    <3>1. j # Len(w)
      BY <1>12
    <3>2. j < Len(w) /\ DOMAIN w = 1..Len(w)
      BY <1>1, <3>1
    <3> QED
      BY <1>12, <2>1, <2>3, <3>2 DEF crossing
  <2>6. HasShown(w) => t.fade /\ t.placed
    BY <1>1, <1>3 DEF TooltipSound
  <2>7. ~r.show /\ Settled(r)
    BY <1>1, <1>3, <1>4, <1>6, <2>3, <2>4, <2>5, <2>6, HiddenLast
  <2> QED
    BY <1>4, <1>5, <1>7, <2>7, EndsGood
<1> QED
  BY <1>9, <1>10, <1>11, <1>12

LEMMA TransitionEndGood ==
    ASSUME TooltipInv, TooltipTransitionEnd PROVE TooltipInv'
<1> DEFINE t == [tooltip EXCEPT !.waits = <<>>]
<1>1. PICK r \in completedAll(t, tooltip.waits) :
         tooltip' = [r EXCEPT !.why = @ \union IF crossing(tooltip.waits, r) THEN {"crossed"}
                                               ELSE {}]
  BY DEF TooltipTransitionEnd
<1>2. PICK t0 : t0 = tooltip
  OBVIOUS
<1>3. PICK n : n = tooltip'
  OBVIOUS
<1>4. /\ TooltipGood(t0) /\ t0.waits # <<>> /\ r \in completedAll([t0 EXCEPT !.waits = <<>>], t0.waits)
      /\ n = [r EXCEPT !.why = @ \union IF crossing(t0.waits, r) THEN {"crossed"} ELSE {}]
  BY <1>1, <1>2, <1>3 DEF TooltipInv, TooltipTransitionEnd
<1>5. TooltipGood(n) /\ n.waits \in {<<>>, <<"hidden">>}
  BY <1>4, HandlersGood
<1>6. Within(n)
  BY <1>5, LittleWaits
<1> QED
  BY <1>3, <1>5, <1>6 DEF TooltipInv

\* The timer: what it was set for, if nothing overtook it.
LEMMA TimeoutInv == ASSUME TooltipInv, TooltipTimeout PROVE TooltipInv'
<1> DEFINE t == [tooltip EXCEPT !.timer = "none"]
           n == tooltip'
<1>1. /\ tooltip \in ATooltip /\ Len(tooltip.waits) \in Nat /\ MaxWaits \in Nat \ {0}
      /\ TooltipGood(tooltip) /\ Within(tooltip)
  BY TooltipFacts DEF TooltipInv
<1>2. SameTip(tooltip, t) /\ t.timer = "none"
  BY <1>1 DEF SameTip, ATooltip
<1>3. Len(tooltip.waits) <= MaxWaits
  BY <1>1 DEF TooltipTimeout, Within
<1>4. n \in showTip(t) \/ n \in hideTip(t) \/ n = t
  BY DEF TooltipTimeout
<1> HIDE DEF t, n
<1>5. TooltipGood(t) /\ t.waits = tooltip.waits
  BY <1>1, <1>2, SameTipGood DEF SameTip
<1>6. /\ TooltipGood(n) /\ Len(n.waits) <= Len(t.waits) + 1
      /\ n.timer = "none" \/ Len(n.waits) <= 1
  <2>1. CASE n \in showTip(t)
    BY <1>2, <1>5, <2>1, ShowTipGood
  <2>2. CASE n \in hideTip(t)
    BY <1>2, <1>5, <2>2, HideTipGood
  <2>3. CASE n = t
    BY <1>1, <1>2, <1>5, <2>3
  <2> QED
    BY <1>4, <2>1, <2>2, <2>3
<1>7. Len(n.waits) \in Nat
  BY <1>6, WaitsOf DEF TooltipGood, TooltipSound
<1>8. Within(n)
  <2>1. Len(n.waits) <= MaxWaits + 1 /\ (Len(n.waits) <= 1 => Len(n.waits) <= MaxWaits)
    BY <1>1, <1>3, <1>5, <1>6, <1>7
  <2> QED
    BY <1>6, <2>1 DEF Within
<1> QED
  BY <1>6, <1>8 DEF TooltipInv, n

LEMMA DisposeInv == ASSUME TooltipInv, DisposeTooltip PROVE TooltipInv'
<1> DEFINE why == IF tooltip.described THEN {"disposed"} ELSE {}
           n == tooltip'
<1>1. tooltip \in ATooltip /\ MaxWaits \in Nat \ {0}
  BY TooltipFacts DEF TooltipInv
<1>2. /\ why \in SUBSET Reasons /\ (tooltip.described => "disposed" \in why)
      /\ why \subseteq {"disposed"}
  BY DEF Reasons
<1>3. n = [tooltip EXCEPT !.hover = "", !.triggers = {}, !.timer = "none", !.enabled = TRUE,
                          !.show = FALSE, !.fade = FALSE, !.inPage = FALSE, !.placed = FALSE,
                          !.waits = <<>>, !.why = why]
  BY DEF DisposeTooltip
<1> HIDE DEF why, n
<1>4. n \in ATooltip
  BY <1>1, <1>2, <1>3, NothingWaits, TRUE \in BOOLEAN, FALSE \in BOOLEAN DEF ATooltip
<1>5. /\ ~n.show /\ ~n.fade /\ ~n.inPage /\ n.waits = <<>> /\ n.why = why
      /\ n.described = tooltip.described
  BY <1>1, <1>3 DEF ATooltip
<1>6. ~HasShown(n.waits)
  BY <1>5 DEF HasShown
<1>7. TooltipGood(n)
  BY <1>2, <1>4, <1>5, <1>6 DEF TooltipGood, TooltipSound, Exempt, Settled
<1>8. Within(n)
  BY <1>5, LittleWaits
<1> QED
  BY <1>7, <1>8 DEF TooltipInv, n

LEMMA TooltipInvStep == TooltipInv /\ [TooltipNext]_tooltip => TooltipInv'
<1> SUFFICES ASSUME TooltipInv, [TooltipNext]_tooltip PROVE TooltipInv'
  OBVIOUS
<1>1. /\ tooltip \in ATooltip /\ TooltipGood(tooltip) /\ tooltip.waits \in Seq(Handler)
      /\ Len(tooltip.waits) \in Nat
  BY TooltipFacts DEF TooltipInv
<1>2. ASSUME NEW trigger \in {"hover", "focus"}, TooltipEnter(trigger) PROVE TooltipInv'
  <2> DEFINE t == [tooltip EXCEPT !.over = @ \union {trigger}, !.triggers = @ \union {trigger}]
  <2>1. SameTip(tooltip, t)
    BY <1>1 DEF SameTip, ATooltip, Triggers
  <2>2. tooltip' \in enter(t)
    BY <1>2 DEF TooltipEnter
  <2> HIDE DEF t
  <2>3. TooltipGood(tooltip') /\ Len(tooltip'.waits) <= Len(t.waits) + 1
    BY <1>1, <2>1, <2>2, SameTipGood, EnterGood
  <2> QED
    BY <1>2, <2>1, <2>3, CalmInv DEF TooltipEnter
<1>3. ASSUME NEW trigger \in {"hover", "focus"}, TooltipLeave(trigger) PROVE TooltipInv'
  <2> DEFINE t == [tooltip EXCEPT !.over = @ \ {trigger}, !.triggers = @ \ {trigger}]
  <2>1. SameTip(tooltip, t)
    BY <1>1 DEF SameTip, ATooltip
  <2>2. tooltip' \in leave(t)
    BY <1>3 DEF TooltipLeave
  <2> HIDE DEF t
  <2>3. TooltipGood(tooltip') /\ Len(tooltip'.waits) <= Len(t.waits) + 1
    BY <1>1, <2>1, <2>2, SameTipGood, LeaveGood
  <2> QED
    BY <1>3, <2>1, <2>3, CalmInv DEF TooltipLeave
<1>4. CASE TooltipClick
  <2> DEFINE triggers == IF "click" \in tooltip.triggers THEN tooltip.triggers \ {"click"}
                         ELSE tooltip.triggers \union {"click"}
             t == [tooltip EXCEPT !.triggers = triggers]
  <2>1. triggers \in SUBSET Triggers
    BY <1>1 DEF ATooltip, Triggers
  <2>2. t = [tooltip EXCEPT !.triggers = IF "click" \in @ THEN @ \ {"click"}
                                         ELSE @ \union {"click"}]
    BY <1>1 DEF ATooltip
  <2> HIDE DEF triggers
  <2>3. SameTip(tooltip, t)
    BY <1>1, <2>1 DEF SameTip, ATooltip
  <2>4. tooltip' \in enter(t) \/ tooltip' \in leave(t)
    BY <1>4, <2>2 DEF TooltipClick
  <2> HIDE DEF t
  <2>5. TooltipGood(tooltip') /\ Len(tooltip'.waits) <= Len(t.waits) + 1
    BY <1>1, <2>3, <2>4, SameTipGood, EnterGood, LeaveGood
  <2> QED
    BY <1>4, <2>3, <2>5, CalmInv DEF TooltipClick
<1>5. CASE TooltipCall
  <2> DEFINE t == [tooltip EXCEPT !.why = @ \union {"called"}]
  <2>1. SameTip(tooltip, t) /\ SameTip(tooltip, tooltip)
    BY <1>1 DEF SameTip, ATooltip, Matters, Reasons
  <2>2. \/ tooltip' \in enter(t)
        \/ tooltip' \in leave(tooltip)
        \/ tooltip' \in showTip(t)
    BY <1>5 DEF TooltipCall
  <2> HIDE DEF t
  <2>3. t.waits = tooltip.waits /\ TooltipGood(t)
    BY <1>1, <2>1, SameTipGood DEF SameTip
  <2>4. TooltipGood(tooltip') /\ Len(tooltip'.waits) <= Len(t.waits) + 1
    BY <1>1, <2>2, <2>3, EnterGood, LeaveGood, ShowTipGood
  <2> QED
    BY <1>5, <2>1, <2>4, CalmInv DEF TooltipCall
<1>6. CASE TooltipEnable
  <2>1. SameTip(tooltip, tooltip') /\ tooltip'.timer = tooltip.timer
    BY <1>1, <1>6 DEF TooltipEnable, SameTip, ATooltip
  <2>2. TooltipGood(tooltip') /\ tooltip'.waits = tooltip.waits
    BY <1>1, <2>1, SameTipGood DEF SameTip
  <2> QED
    BY <2>1, <2>2 DEF TooltipInv, Within
<1>7. CASE TooltipModalHides
  <2>1. tooltip' \in hideTip(tooltip) /\ calm
    BY <1>7 DEF TooltipModalHides
  <2>2. TooltipGood(tooltip') /\ Len(tooltip'.waits) <= Len(tooltip.waits) + 1
    BY <1>1, <2>1, HideTipGood
  <2>3. SameTip(tooltip, tooltip)
    BY <1>1 DEF SameTip
  <2> QED
    BY <2>1, <2>2, <2>3, CalmInv
<1>8. CASE DisposeTooltip
  BY <1>8, DisposeInv
<1>9. CASE TooltipTimeout
  BY <1>9, TimeoutInv
<1>10. CASE TooltipTransitionEnd
  BY <1>10, TransitionEndGood
<1>11. CASE UNCHANGED tooltip
  BY <1>11 DEF TooltipInv
<1> QED
  BY <1>2, <1>3, <1>4, <1>5, <1>6, <1>7, <1>8, <1>9, <1>10, <1>11 DEF TooltipNext

\* When no handler waits, the tip is in the page exactly while it shows and the element points
\* at it exactly while it shows, but for the four ways the property names: whatever order the
\* mouse, calls, timers, listeners and the ends of transitions come in, and however many
\* handlers wait.
THEOREM TooltipsRest == TooltipSpec => []TooltipAtRest
<1>1. TooltipInv => TooltipAtRest
  <2> SUFFICES ASSUME TooltipInv, tooltip.waits = <<>>,
                      tooltip.why \intersect {"crossed", "unfixed"} = {}
               PROVE  /\ "left" \notin tooltip.why => tooltip.inPage = tooltip.show
                      /\ "disposed" \notin tooltip.why => tooltip.described = tooltip.show
    BY DEF TooltipAtRest
  <2>1. tooltip.show \in BOOLEAN /\ tooltip.inPage \in BOOLEAN /\ tooltip.described \in BOOLEAN
    BY TooltipFacts DEF TooltipInv, ATooltip
  <2>2. ~Exempt(tooltip)
    BY DEF Exempt
  <2>3. CASE tooltip.show
    BY <2>1, <2>2, <2>3 DEF TooltipInv, TooltipGood, Shows
  <2>4. CASE ~tooltip.show
    BY <2>1, <2>2, <2>4 DEF TooltipInv, TooltipGood, Settled
  <2> QED
    BY <2>3, <2>4
<1> QED
  BY <1>1, TooltipInvInit, TooltipInvStep, PTL DEF TooltipSpec

--------------------------------------------------------------------------------
(* ScrollSpy *)

\* A bounded set of numbers has a last.
LEMMA HasLast ==
    ASSUME NEW n \in Nat, NEW S \in SUBSET (1..n), S # {}
    PROVE  \E m \in S : \A k \in S : k <= m
<1>1. PICK d \in {n - k : k \in S} : \A e \in {n - k : k \in S} : d <= e
  <2>1. {n - k : k \in S} \in SUBSET Nat /\ {n - k : k \in S} # {}
    <3>1. \A k \in S : n - k \in Nat
      OBVIOUS
    <3> QED
      BY <3>1
  <2> QED
    BY <2>1, HasFirst
<1>2. PICK m \in S : d = n - m
  BY <1>1
<1>3. \A k \in S : n - m <= n - k
  BY <1>1, <1>2
<1> QED
  BY <1>3

\* Pairs of an offset and a link, and their order.
Sightings == Nat \X Nat
Before(p, q) == p[1] < q[1] \/ (p[1] = q[1] /\ p[2] < q[2])

LEMMA FirstSighting ==
    ASSUME NEW S \in SUBSET Sightings, S # {}
    PROVE  \E m \in S : \A p \in S \ {m} : Before(m, p)
<1>1. PICK a \in {p[1] : p \in S} : \A k \in {p[1] : p \in S} : a <= k
  <2>1. {p[1] : p \in S} \in SUBSET Nat /\ {p[1] : p \in S} # {}
    BY DEF Sightings
  <2> QED
    BY <2>1, HasFirst
<1> DEFINE T == {p \in S : p[1] = a}
<1>2. PICK b \in {p[2] : p \in T} : \A k \in {p[2] : p \in T} : b <= k
  <2>1. {p[2] : p \in T} \in SUBSET Nat /\ {p[2] : p \in T} # {}
    BY <1>1 DEF Sightings
  <2> QED
    BY <2>1, HasFirst
<1>3. PICK m \in T : m[2] = b
  BY <1>2
<1>4. ASSUME NEW p \in S \ {m} PROVE Before(m, p)
  <2>1. /\ p = <<p[1], p[2]>> /\ p[1] \in Nat /\ p[2] \in Nat
        /\ m = <<m[1], m[2]>> /\ m[1] \in Nat /\ m[2] \in Nat
    BY <1>3 DEF Sightings
  <2>2. m[1] = a /\ m[2] = b /\ a <= p[1]
    BY <1>1, <1>3
  <2>3. CASE p[1] = a
    <3>1. b <= p[2]
      BY <1>2, <2>3
    <3>2. p[2] # b
      BY <2>1, <2>2, <2>3
    <3> QED
      BY <2>1, <2>2, <2>3, <3>1, <3>2 DEF Before
  <2>4. CASE p[1] # a
    BY <2>1, <2>2, <2>4 DEF Before
  <2> QED
    BY <2>3, <2>4
<1> QED
  BY <1>3, <1>4

\* What is sorted has a sorted sequence of its number of elements.
Orders(seq, n) == \A i, j \in 1..n : i < j => Before(seq[i], seq[j])

LEMMA SortedExists ==
    ASSUME NEW S \in SUBSET Sightings, IsFiniteSet(S)
    PROVE  \E seq \in [1..Cardinality(S) -> S] : Orders(seq, Cardinality(S))
<1> DEFINE P(n) == \A R \in SUBSET S : Cardinality(R) = n =>
                       \E seq \in [1..n -> R] : Orders(seq, n)
           K == {n \in Nat : P(n)}
<1>1. 0 \in K
  <2> SUFFICES ASSUME NEW R \in SUBSET S, Cardinality(R) = 0
               PROVE  \E seq \in [1..0 -> R] : Orders(seq, 0)
    OBVIOUS
  <2>1. [i \in 1..0 |-> i] \in [1..0 -> R] /\ Orders([i \in 1..0 |-> i], 0)
    BY DEF Orders
  <2> QED
    BY <2>1
<1>2. ASSUME NEW n \in Nat, n \in K PROVE n + 1 \in K
  <2> SUFFICES ASSUME NEW R \in SUBSET S, Cardinality(R) = n + 1
               PROVE  \E seq \in [1..n + 1 -> R] : Orders(seq, n + 1)
    OBVIOUS
  <2>1. IsFiniteSet(R) /\ R # {} /\ R \in SUBSET Sightings
    BY FS_Subset, FS_EmptySet
  <2>2. PICK m \in R : \A p \in R \ {m} : Before(m, p)
    BY <2>1, FirstSighting
  <2>3. Cardinality(R \ {m}) = n /\ R \ {m} \in SUBSET S
    <3>1. Cardinality(R \ {m}) = Cardinality(R) - 1
      BY <2>1, FS_RemoveElement
    <3> QED
      BY <3>1
  <2>4. PICK seq \in [1..n -> R \ {m}] : Orders(seq, n)
    BY <1>2, <2>3
  <2> DEFINE new == [i \in 1..n + 1 |-> IF i = 1 THEN m ELSE seq[i - 1]]
  <2>5. new \in [1..n + 1 -> R]
    OBVIOUS
  <2>6. ASSUME NEW i \in 1..n + 1, NEW j \in 1..n + 1, i < j PROVE Before(new[i], new[j])
    <3>1. j - 1 \in 1..n /\ new[j] = seq[j - 1] /\ seq[j - 1] \in R \ {m}
      BY <2>6
    <3>2. CASE i = 1
      BY <2>2, <3>1, <3>2
    <3>3. CASE i # 1
      <4>1. i - 1 \in 1..n /\ new[i] = seq[i - 1] /\ i - 1 < j - 1
        BY <2>6, <3>3
      <4> QED
        BY <2>4, <3>1, <4>1 DEF Orders
    <3> QED
      BY <3>2, <3>3
  <2> HIDE DEF new
  <2>7. Orders(new, n + 1)
    BY <2>6 DEF Orders
  <2> QED
    BY <2>5, <2>7
<1>3. Cardinality(S) \in Nat
  BY FS_CardinalityType
<1> HIDE DEF P
<1>4. P(Cardinality(S))
  BY <1>1, <1>2, <1>3, EveryNumber
<1> QED
  BY <1>4 DEF P

\* A sorted sequence of all of a set's elements has every one of them.
LEMMA SortedHasAll ==
    ASSUME NEW S \in SUBSET Sightings, IsFiniteSet(S),
           NEW seq \in [1..Cardinality(S) -> S], Orders(seq, Cardinality(S)),
           NEW p \in S
    PROVE  \E i \in 1..Cardinality(S) : seq[i] = p
<1> DEFINE n == Cardinality(S)
<1>1. n \in Nat
  BY FS_CardinalityType
<1>2. ASSUME NEW i \in 1..n, NEW j \in 1..n, i < j PROVE seq[i] # seq[j]
  <2>1. Before(seq[i], seq[j]) /\ seq[i] \in Sightings
    BY <1>2 DEF Orders
  <2> QED
    BY <2>1 DEF Before, Sightings
<1>3. ASSUME NEW i \in 1..n, NEW j \in 1..n, seq[i] = seq[j] PROVE i = j
  <2>1. i \in Int /\ j \in Int
    OBVIOUS
  <2> QED
    BY <1>2, <1>3, <2>1
<1>4. seq \in Injection(1..n, S)
  BY <1>3, Fun_IsInj
<1>5. Cardinality(1..n) = n
  BY <1>1, FS_Interval
<1>6. seq \in Surjection(1..n, S)
  BY <1>4, <1>5, FS_Injection
<1> QED
  BY <1>6 DEF Surjection

\* What a page shows: where its sections are, how high and how far scrolled it is.
AView(s) ==
    /\ s.place \in [Sections -> {Hidden} \union 0..MaxHeight]
    /\ s.height \in Int /\ s.scroll \in Int

\* A sorted sequence of the sections in sight.
Measures(q, s) ==
    /\ q \in Seq(Sightings)
    /\ \A i \in 1..Len(q) :
           q[i][2] \in Sections /\ s.place[q[i][2]] # Hidden /\ q[i][1] = s.place[q[i][2]]
    /\ Orders(q, Len(q))
    /\ \A x \in Sections : s.place[x] # Hidden => \E i \in 1..Len(q) : q[i][2] = x

LEMMA MeasuredMeasures == ASSUME NEW s, AView(s) PROVE Measures(measured(s), s)
<1> DEFINE S == sighted(s)
           n == Cardinality(S)
           q == measured(s)
           seen == {x \in Sections : s.place[x] # Hidden}
           f == [x \in seen |-> <<s.place[x], x>>]
<1>1. IsFiniteSet(S)
  <2>1. f \in [seen -> S] /\ \A p \in S : \E x \in seen : f[x] = p
    BY DEF sighted
  <2>2. f \in Surjection(seen, S)
    BY <2>1, Fun_IsSurj
  <2>3. IsFiniteSet(seen)
    BY FS_Subset, ScrollSpyAssumption
  <2> QED
    BY <2>2, <2>3, FS_Surjection
<1>2. S \in SUBSET Sightings
  BY ScrollSpyAssumption DEF sighted, Sightings, AView, Hidden
<1>3. n \in Nat
  BY <1>1, FS_CardinalityType
<1>4. ASSUME NEW seq \in [1..n -> S] PROVE sorted(seq) <=> Orders(seq, n)
  BY DEF sorted, Orders, Before
<1>5. \E seq \in [1..n -> S] : sorted(seq)
  BY <1>1, <1>2, <1>4, SortedExists
<1>6. q \in [1..n -> S] /\ sorted(q)
  BY <1>5 DEF measured
<1>7. Orders(q, n)
  BY <1>4, <1>6
<1> HIDE DEF q, n
<1>8. q \in Seq(Sightings) /\ Len(q) = n
  BY <1>2, <1>3, <1>6
<1>9. ASSUME NEW i \in 1..n
      PROVE  q[i][2] \in Sections /\ s.place[q[i][2]] # Hidden /\ q[i][1] = s.place[q[i][2]]
  <2>1. q[i] \in S
    BY <1>6
  <2> QED
    BY <2>1 DEF sighted
<1>10. ASSUME NEW x \in Sections, s.place[x] # Hidden PROVE \E i \in 1..n : q[i][2] = x
  <2>1. <<s.place[x], x>> \in S
    BY <1>10 DEF sighted
  <2>2. \E i \in 1..n : q[i] = <<s.place[x], x>>
    BY <1>1, <1>2, <1>6, <1>7, <2>1, SortedHasAll DEF n
  <2> QED
    BY <2>2
<1>11. Measures(q, s)
  BY <1>7, <1>8, <1>9, <1>10 DEF Measures
<1> QED
  BY <1>11 DEF q

\* Whether a reader may expect a section: it is in sight, and above the line or at the
\* bottom.
Eligible(s, x) ==
    /\ s.place[x] # Hidden
    /\ s.scroll >= s.height - ViewHeight \/ s.place[x] <= s.scroll + SpyOffset

LEMMA ExpectedIs ==
    ASSUME NEW s, AView(s), NEW x \in Sections, Eligible(s, x),
           \A y \in Sections \ {x} : Eligible(s, y) =>
               s.place[x] > s.place[y] \/ (s.place[x] = s.place[y] /\ x > y)
    PROVE  expected(s) = x
<1> DEFINE later(u, v) == s.place[u] > s.place[v] \/ (s.place[u] = s.place[v] /\ u > v)
           above == {u \in Sections : Eligible(s, u)}
           P(u) == \A y \in above \ {u} : later(u, y)
<1>1. expected(s) = IF above = {} THEN NoSection ELSE CHOOSE u \in above : P(u)
  <2> DEFINE top == s.scroll + SpyOffset
             insight == {u \in Sections : s.place[u] # Hidden}
             raised == IF s.scroll >= s.height - ViewHeight THEN insight
                       ELSE {u \in insight : s.place[u] <= top}
  <2>1. raised = above
    BY DEF Eligible
  <2>2. expected(s) = IF raised = {} THEN NoSection
                      ELSE CHOOSE u \in raised : \A y \in raised \ {u} : later(u, y)
    BY DEF expected
  <2> HIDE DEF raised
  <2> QED
    BY <2>1, <2>2
<1>2. x \in above /\ P(x)
  OBVIOUS
<1>3. ASSUME NEW u \in above, P(u) PROVE u = x
  <2>1. /\ u \in Nat /\ x \in Nat /\ s.place[u] \in Int /\ s.place[x] \in Int
    BY ScrollSpyAssumption DEF AView, Hidden
  <2>2. u # x => later(u, x) /\ later(x, u)
    BY <1>2, <1>3
  <2> QED
    BY <2>1, <2>2
<1> HIDE DEF above, P
<1> QED
  BY <1>1, <1>2, <1>3

LEMMA NoneExpected ==
    ASSUME NEW s, \A x \in Sections : ~Eligible(s, x) PROVE expected(s) = NoSection
  BY DEF expected, Eligible

ATarget == (0..MaxHeight) \X Sections

ASpy ==
    [place : [Sections -> {Hidden} \union 0..MaxHeight], height : Heights, scroll : 0..MaxHeight,
     targets : Seq(ATarget), seen : Heights, marked : Sections \union {NoSection},
     link : Sections \union {NoSection}, processed : BOOLEAN, fresh : BOOLEAN]

\* The page marks what the spy marked, or what one before it left.
Linked(s) == s.link = s.marked \/ (s.fresh /\ s.marked = NoSection)

Marks(s) ==
    s.processed /\ s.targets = measured(s) /\ s.targets # <<>> =>
        /\ s.marked = expected(s)
        /\ s.link = expected(s) \/ (s.fresh /\ expected(s) = NoSection)

LEMMA SpyViews == ASSUME NEW s \in ASpy PROVE AView(s)
  BY ScrollSpyAssumption DEF ASpy, AView, Heights

LEMMA MeasuredTypes == ASSUME NEW s \in ASpy PROVE measured(s) \in Seq(ATarget)
<1> DEFINE q == measured(s)
<1>1. Measures(q, s)
  BY SpyViews, MeasuredMeasures
<1> HIDE DEF q
<1>2. q \in Seq(Sightings) /\ Len(q) \in Nat
  BY <1>1 DEF Measures
<1>3. ASSUME NEW i \in 1..Len(q) PROVE q[i] \in ATarget
  <2>1. q[i] \in Sightings /\ q[i] = <<q[i][1], q[i][2]>>
    BY <1>2, <1>3 DEF Sightings
  <2>2. q[i][2] \in Sections /\ q[i][1] = s.place[q[i][2]] /\ q[i][1] # Hidden
    BY <1>1, <1>3 DEF Measures
  <2>3. q[i][1] \in 0..MaxHeight
    BY <2>2 DEF ASpy
  <2> QED
    BY <2>1, <2>2, <2>3 DEF ATarget
<1>4. q \in Seq(ATarget)
  BY <1>2, <1>3
<1> QED
  BY <1>4 DEF q

LEMMA RefreshTypes == ASSUME NEW s \in ASpy PROVE refresh(s) \in ASpy
<1> DEFINE q == measured(s)
<1>1. q \in Seq(ATarget)
  BY MeasuredTypes
<1>2. refresh(s) = [s EXCEPT !.targets = q, !.seen = s.height]
  BY DEF refresh
<1> HIDE DEF q
<1> QED
  BY <1>1, <1>2 DEF ASpy

LEMMA RefreshFields ==
    ASSUME NEW s \in ASpy
    PROVE  /\ refresh(s).marked = s.marked /\ refresh(s).link = s.link
           /\ refresh(s).fresh = s.fresh /\ refresh(s).place = s.place
           /\ refresh(s).height = s.height /\ refresh(s).scroll = s.scroll
  BY DEF refresh, ASpy

LEMMA TargetParts ==
    ASSUME NEW p \in ATarget
    PROVE  /\ p[1] \in Int /\ p[2] \in Int /\ p[2] \in Sections
<1> DEFINE a == p[1]
           b == p[2]
<1>1. a \in 0..MaxHeight /\ b \in Sections
  BY DEF ATarget
<1>2. \A x \in 0..MaxHeight : x \in Int
  OBVIOUS
<1>3. \A x \in Sections : x \in Int
  BY ScrollSpyAssumption
<1> HIDE DEF a, b
<1>4. a \in Int /\ b \in Int /\ b \in Sections
  BY <1>1, <1>2, <1>3
<1> QED
  BY <1>4 DEF a, b

\* What is found in a measured sequence is the last section above the line, if any.
LEMMA FoundIsLast ==
    ASSUME NEW s \in ASpy, Measures(s.targets, s), s.targets # <<>>,
           NEW top \in Int, s.targets[1][1] <= top
    PROVE  \E k \in 1..Len(s.targets) :
               /\ found(s, top) = {k} /\ s.targets[k][1] <= top
               /\ \A i \in 1..Len(s.targets) : s.targets[i][1] <= top => i <= k
<1> DEFINE q == s.targets
           n == Len(q)
           I == {i \in 1..n : q[i][1] <= top}
<1>1. /\ q \in Seq(ATarget) /\ n \in Nat /\ n >= 1 /\ DOMAIN q = 1..n /\ 1 \in 1..n
  BY DEF ASpy
<1>2. ASSUME NEW i \in 1..n PROVE q[i][1] \in Int /\ q[i][2] \in Int
  <2>1. q[i] \in ATarget
    BY <1>1
  <2> QED
    BY <2>1, TargetParts
<1>3. I \in SUBSET (1..n) /\ I # {}
  BY <1>1
<1>4. PICK k \in I : \A i \in I : i <= k
  BY <1>1, <1>3, HasLast
<1>5. \A i, j \in 1..n : i < j => q[i][1] <= q[j][1]
  BY <1>2 DEF Measures, Orders, Before
<1>6. found(s, top) = {i \in 1..n : top >= q[i][1] /\ (i < n => top < q[i + 1][1])}
  BY <1>1 DEF found
<1> HIDE DEF q
<1>7. k \in found(s, top)
  <2>1. CASE k < n
    <3>1. k + 1 \in 1..n /\ k + 1 \notin I
      BY <1>4, <2>1, <1>1
    <3> QED
      BY <1>2, <1>6, <3>1, <1>4
  <2>2. CASE ~(k < n)
    BY <1>2, <1>6, <2>2, <1>4
  <2> QED
    BY <2>1, <2>2
<1>8. ASSUME NEW i \in found(s, top) PROVE i = k
  <2>1. i \in I /\ i <= k
    BY <1>2, <1>4, <1>6
  <2>2. CASE i < k
    <3>1. i + 1 \in 1..n /\ i < n /\ i + 1 <= k
      BY <1>1, <1>4, <2>1, <2>2
    <3>2. q[i + 1][1] <= q[k][1]
      BY <1>1, <1>2, <1>4, <1>5, <3>1
    <3> QED
      BY <1>2, <1>4, <1>6, <3>1, <3>2
  <2> QED
    BY <2>1, <2>2
<1>9. found(s, top) = {k} /\ q[k][1] <= top /\ \A i \in 1..n : q[i][1] <= top => i <= k
  BY <1>4, <1>7, <1>8
<1> QED
  BY <1>9 DEF q

\* What process marks, with the view u it has measured.
Marking(u, x) ==
    LET top == u.scroll + SpyOffset
    IN \/ top >= SpyOffset + u.height - ViewHeight /\ x = Last(u.targets)[2]
       \/ /\ ~(top >= SpyOffset + u.height - ViewHeight) /\ top < u.targets[1][1]
          /\ x = NoSection
       \/ /\ ~(top >= SpyOffset + u.height - ViewHeight) /\ u.targets[1][1] <= top
          /\ \E k \in 1..Len(u.targets) :
                 /\ u.targets[k][1] <= top /\ x = u.targets[k][2]
                 /\ \A i \in 1..Len(u.targets) : u.targets[i][1] <= top => i <= k

LEMMA MarkingIsExpected ==
    ASSUME NEW u \in ASpy, Measures(u.targets, u), u.targets # <<>>, NEW x, Marking(u, x)
    PROVE  expected(u) = x
<1> DEFINE q == u.targets
           n == Len(q)
           top == u.scroll + SpyOffset
           bottom == u.scroll >= u.height - ViewHeight
<1>1. /\ q \in Seq(ATarget) /\ n \in Nat /\ n >= 1 /\ DOMAIN q = 1..n /\ 1 \in 1..n
      /\ n \in 1..n /\ Last(q) = q[n]
  BY DEF ASpy, Last
<1>2. ASSUME NEW i \in 1..n
      PROVE  /\ q[i][1] \in Int /\ q[i][2] \in Int /\ q[i][2] \in Sections
             /\ u.place[q[i][2]] = q[i][1] /\ u.place[q[i][2]] # Hidden
  <2>1. q[i] \in ATarget
    BY <1>1
  <2>2. q[i][1] \in Int /\ q[i][2] \in Int /\ q[i][2] \in Sections
    BY <2>1, TargetParts
  <2> QED
    BY <2>2 DEF Measures
<1>3. u.scroll \in Int /\ u.height \in Int /\ SpyOffset \in Int /\ ViewHeight \in Int /\ AView(u)
  BY SpyViews, ScrollSpyAssumption DEF AView
<1>4. /\ bottom <=> top >= SpyOffset + u.height - ViewHeight
      /\ top \in Int
  BY <1>3
<1>5. \A i, j \in 1..n : i < j =>
          q[i][1] < q[j][1] \/ (q[i][1] = q[j][1] /\ q[i][2] < q[j][2])
  BY DEF Measures, Orders, Before
<1>6. \A y \in Sections : u.place[y] # Hidden => \E j \in 1..n : q[j][2] = y
  BY DEF Measures
<1>7. \A y \in Sections : Eligible(u, y) <=> u.place[y] # Hidden /\ (bottom \/ u.place[y] <= top)
  BY DEF Eligible
<1>8. \/ bottom /\ x = q[n][2]
      \/ ~bottom /\ top < q[1][1] /\ x = NoSection
      \/ /\ ~bottom
         /\ \E k \in 1..n : /\ q[k][1] <= top /\ x = q[k][2]
                            /\ \A i \in 1..n : q[i][1] <= top => i <= k
  BY <1>1, <1>4 DEF Marking
<1> HIDE DEF q, n, bottom, top
<1>9. CASE ~bottom /\ top < q[1][1] /\ x = NoSection
  <2>1. ASSUME NEW y \in Sections PROVE ~Eligible(u, y)
    <3> SUFFICES ASSUME u.place[y] # Hidden, u.place[y] <= top PROVE FALSE
      BY <1>7, <1>9
    <3>1. PICK j \in 1..n : q[j][2] = y
      BY <1>6
    <3>2. u.place[y] = q[j][1] /\ q[j][1] \in Int /\ q[1][1] \in Int
      BY <1>1, <1>2, <3>1
    <3>3. 1 < j => q[1][1] <= q[j][1]
      BY <1>1, <1>2, <1>5
    <3>4. q[1][1] <= q[j][1]
      BY <1>1, <3>2, <3>3
    <3> QED
      BY <1>4, <1>9, <3>2, <3>4
  <2> QED
    BY <1>9, <2>1, NoneExpected
<1>10. ASSUME NEW k \in 1..n, x = q[k][2], bottom \/ q[k][1] <= top,
              \A i \in 1..n : bottom \/ q[i][1] <= top => i <= k
       PROVE  expected(u) = x
  <2>1. x \in Sections /\ Eligible(u, x) /\ u.place[x] = q[k][1]
    BY <1>2, <1>7, <1>10
  <2>2. ASSUME NEW y \in Sections \ {x}, Eligible(u, y)
        PROVE  u.place[x] > u.place[y] \/ (u.place[x] = u.place[y] /\ x > y)
    <3>1. PICK j \in 1..n : q[j][2] = y
      BY <1>6, <1>7, <2>2
    <3>2. u.place[y] = q[j][1] /\ (bottom \/ q[j][1] <= top)
      BY <1>2, <1>7, <2>2, <3>1
    <3>3. j <= k /\ j # k
      BY <1>10, <2>2, <3>1, <3>2
    <3>4. q[j][1] < q[k][1] \/ (q[j][1] = q[k][1] /\ q[j][2] < q[k][2])
      BY <1>1, <1>5, <3>3
    <3> QED
      BY <1>2, <1>10, <2>1, <3>1, <3>2, <3>4
  <2> QED
    BY <1>3, <2>1, <2>2, ExpectedIs
<1>11. CASE bottom /\ x = q[n][2]
  <2>1. n \in 1..n /\ \A i \in 1..n : i <= n
    BY <1>1
  <2> QED
    BY <1>10, <1>11, <2>1
<1> QED
  BY <1>8, <1>9, <1>10, <1>11

\* Measures and what is expected depend on the view only.
SameView(s, u) == s.place = u.place /\ s.height = u.height /\ s.scroll = u.scroll

LEMMA ProcessGood ==
    ASSUME NEW s0 \in ASpy, Linked(s0)
    PROVE  process(s0) \in ASpy /\ Linked(process(s0)) /\ Marks(process(s0))
<1> DEFINE v == IF s0.seen # s0.height THEN refresh(s0) ELSE s0
           u == [v EXCEPT !.processed = TRUE]
           n == process(s0)
           q == u.targets
           top == u.scroll + SpyOffset
           bottom == top >= SpyOffset + u.height - ViewHeight
<1>1. v \in ASpy /\ Linked(v)
  BY RefreshTypes, RefreshFields DEF Linked
<1> HIDE DEF v
<1>2. u \in ASpy /\ Linked(u) /\ u.processed /\ q \in Seq(ATarget) /\ u.fresh \in BOOLEAN
      /\ u.marked \in Sections \union {NoSection}
  BY <1>1 DEF ASpy, Linked
<1>3. n = IF bottom
          THEN activate(u, IF q = <<>> THEN NoSection ELSE Last(q)[2])
          ELSE IF u.marked # NoSection /\ q # <<>> /\ top < Head(q)[1]
          THEN activate(u, NoSection)
          ELSE IF found(u, top) = {} THEN u
          ELSE activate(u, q[CHOOSE i \in found(u, top) : TRUE][2])
  BY DEF process, v
<1> HIDE DEF u, n
<1>4. ASSUME NEW x \in Sections \union {NoSection}
      PROVE  /\ activate(u, x) \in ASpy /\ Linked(activate(u, x))
             /\ activate(u, x).marked = x /\ activate(u, x).link = x
             /\ SameView(activate(u, x), u) /\ activate(u, x).targets = q
  BY <1>2 DEF activate, ASpy, Linked, SameView
<1>5. \A i \in 1..Len(q) : q[i] \in ATarget /\ q[i][2] \in Sections
  BY <1>2, TargetParts
<1>6. found(u, top) \subseteq 1..Len(q)
  BY <1>2 DEF found
<1>7. q # <<>> => Last(q) = q[Len(q)] /\ Len(q) \in 1..Len(q) /\ Head(q) = q[1] /\ 1 \in 1..Len(q)
  BY <1>2 DEF Last
<1>8. \/ n = u /\ ~bottom /\ found(u, top) = {}
         /\ ~(u.marked # NoSection /\ q # <<>> /\ top < Head(q)[1])
      \/ \E x \in Sections \union {NoSection} : n = activate(u, x)
  <2>1. (IF q = <<>> THEN NoSection ELSE Last(q)[2]) \in Sections \union {NoSection}
    BY <1>5, <1>7
  <2>2. CASE found(u, top) # {}
    <3>1. (CHOOSE i \in found(u, top) : TRUE) \in 1..Len(q)
      BY <1>6, <2>2
    <3>2. q[CHOOSE i \in found(u, top) : TRUE][2] \in Sections \union {NoSection}
      BY <1>5, <3>1
    <3> QED
      BY <1>3, <2>1, <2>2, <3>2
  <2>3. CASE found(u, top) = {}
    BY <1>3, <2>1, <2>3
  <2> QED
    BY <2>2, <2>3
<1>9. n \in ASpy /\ Linked(n) /\ SameView(n, u) /\ n.targets = q
  BY <1>2, <1>4, <1>8 DEF SameView
<1>10. ASSUME n.targets = measured(n), q # <<>> PROVE n.marked = expected(n)
  <2>1. Measures(q, n)
    BY <1>9, <1>10, SpyViews, MeasuredMeasures
  <2>2. Measures(q, u)
    BY <1>9, <2>1 DEF Measures, SameView
  <2>3. top \in Int /\ q[1][1] \in Int
    <3>1. u.scroll \in Int /\ SpyOffset \in Int
      BY <1>2, SpyViews, ScrollSpyAssumption DEF AView
    <3> QED
      BY <1>5, <1>7, <1>10, <3>1, TargetParts
  <2>4. Marking(u, n.marked)
    <3>1. CASE bottom
      <4>1. n.marked = Last(q)[2]
        BY <1>3, <1>4, <1>5, <1>7, <1>10, <3>1
      <4> QED
        BY <3>1, <4>1 DEF Marking
    <3>2. CASE ~bottom /\ q[1][1] <= top
      <4>1. PICK k \in 1..Len(q) :
                /\ found(u, top) = {k} /\ q[k][1] <= top
                /\ \A i \in 1..Len(q) : q[i][1] <= top => i <= k
        BY <1>2, <1>10, <2>2, <2>3, <3>2, FoundIsLast
      <4>2. found(u, top) # {} /\ (CHOOSE i \in found(u, top) : TRUE) = k
        BY <4>1
      <4>3. ~(top < Head(q)[1])
        BY <1>7, <1>10, <2>3, <3>2
      <4>4. n = activate(u, q[k][2])
        BY <1>3, <3>2, <4>2, <4>3
      <4>5. n.marked = q[k][2]
        BY <1>4, <1>5, <4>4
      <4> QED
        BY <3>2, <4>1, <4>5 DEF Marking
    <3>3. CASE ~bottom /\ top < q[1][1]
      <4>1. ASSUME NEW i \in found(u, top) PROVE FALSE
        <5>1. i \in 1..Len(q) /\ q[i][1] <= top /\ q[i][1] \in Int
          BY <1>2, <1>5, <1>6, <2>3, TargetParts DEF found
        <5>2. 1 < i => q[1][1] <= q[i][1]
          BY <1>7, <1>10, <2>2, <2>3, <5>1 DEF Measures, Orders, Before
        <5>3. i \in Int /\ i >= 1
          BY <5>1
        <5>4. q[1][1] <= q[i][1]
          BY <2>3, <5>1, <5>2, <5>3
        <5> QED
          BY <2>3, <3>3, <5>1, <5>4
      <4>2. n.marked = NoSection
        BY <1>3, <1>4, <1>7, <1>10, <3>3, <4>1
      <4> QED
        BY <3>3, <4>2 DEF Marking
    <3> QED
      BY <2>3, <3>1, <3>2, <3>3
  <2>5. Marking(n, n.marked)
    BY <1>9, <2>4 DEF Marking, SameView
  <2> QED
    BY <1>9, <1>10, <2>1, <2>5, MarkingIsExpected
<1>11. Marks(n)
  BY <1>9, <1>10 DEF Marks, Linked
<1> QED
  BY <1>9, <1>11 DEF n

SpyInv == spy \in ASpy /\ Linked(spy) /\ Marks(spy)

LEMMA SpyTypes == SpyInv => ScrollSpyTypeOK
<1> SUFFICES ASSUME SpyInv PROVE ScrollSpyTypeOK
  OBVIOUS
<1>1. spy \in ASpy
  BY DEF SpyInv
<1>2. ToSet(spy.targets) \subseteq ATarget
  BY <1>1 DEF ToSet, ASpy
<1> QED
  BY <1>1, <1>2 DEF ASpy, ATarget, ScrollSpyTypeOK

LEMMA SpyInvInit == ScrollSpyInit => SpyInv
<1> SUFFICES ASSUME NEW place \in [Sections -> {Hidden} \union 0..MaxHeight],
                    NEW height \in Heights,
                    spy = process(refresh([place |-> place, height |-> height, scroll |-> 0,
                              targets |-> <<>>, seen |-> height, marked |-> NoSection,
                              link |-> NoSection, processed |-> TRUE, fresh |-> FALSE]))
             PROVE  SpyInv
  BY DEF ScrollSpyInit
<1> DEFINE s == [place |-> place, height |-> height, scroll |-> 0,
                 targets |-> <<>>, seen |-> height, marked |-> NoSection,
                 link |-> NoSection, processed |-> TRUE, fresh |-> FALSE]
<1>1. <<>> \in Seq(ATarget) /\ 0 \in 0..MaxHeight
  BY ScrollSpyAssumption
<1>2. s \in ASpy /\ Linked(s)
  BY <1>1 DEF ASpy, Linked
<1> HIDE DEF s
<1>3. refresh(s) \in ASpy /\ Linked(refresh(s))
  BY <1>2, RefreshTypes, RefreshFields DEF Linked
<1>4. spy = process(refresh(s))
  BY DEF s
<1> QED
  BY <1>3, <1>4, ProcessGood DEF SpyInv

LEMMA SpyInvStep == SpyInv /\ [ScrollSpyNext]_spy => SpyInv'
<1> SUFFICES ASSUME SpyInv, [ScrollSpyNext]_spy PROVE SpyInv'
  OBVIOUS
<1>1. spy \in ASpy /\ Linked(spy) /\ Marks(spy)
  BY DEF SpyInv
<1>2. ASSUME NEW s \in ASpy, Linked(s), spy' = process(s) PROVE SpyInv'
  BY <1>2, ProcessGood DEF SpyInv
<1>3. ASSUME NEW at \in 0..MaxHeight, Scroll(at) PROVE SpyInv'
  <2> DEFINE s == [spy EXCEPT !.scroll = at]
  <2>1. s \in ASpy /\ Linked(s)
    BY <1>1 DEF ASpy, Linked
  <2>2. spy' = process(s)
    BY <1>3 DEF Scroll
  <2> QED
    BY <1>2, <2>1, <2>2
<1>4. ASSUME NEW at \in 0..MaxHeight, DisposeSpy(at) PROVE SpyInv'
  <2> DEFINE s == [spy EXCEPT !.scroll = at, !.marked = NoSection, !.fresh = TRUE]
  <2>1. s \in ASpy /\ Linked(s)
    BY <1>1 DEF ASpy, Linked
  <2> HIDE DEF s
  <2>2. refresh(s) \in ASpy /\ Linked(refresh(s))
    BY <2>1, RefreshTypes, RefreshFields DEF Linked
  <2>3. spy' = process(refresh(s))
    BY <1>4 DEF DisposeSpy, s
  <2> QED
    BY <1>2, <2>2, <2>3
<1>5. ASSUME NEW x \in Sections, NEW at \in {Hidden} \union 0..MaxHeight, MoveSection(x, at)
      PROVE  SpyInv'
  <2>1. spy' \in ASpy /\ Linked(spy') /\ ~spy'.processed
    BY <1>1, <1>5 DEF MoveSection, ASpy, Linked
  <2> QED
    BY <2>1 DEF SpyInv, Marks
<1>6. ASSUME NEW height \in Heights, Resize(height) PROVE SpyInv'
  <2> DEFINE scroll == IF spy.scroll > height - ViewHeight THEN height - ViewHeight
                       ELSE spy.scroll
  <2>1. scroll \in 0..MaxHeight
    BY <1>1, ScrollSpyAssumption DEF ASpy, Heights
  <2>2. spy' = [spy EXCEPT !.height = height, !.processed = FALSE, !.scroll = scroll]
    BY <1>1, <1>6 DEF Resize, ASpy
  <2> HIDE DEF scroll
  <2>3. spy' \in ASpy /\ Linked(spy') /\ ~spy'.processed
    BY <1>1, <2>1, <2>2 DEF ASpy, Linked
  <2> QED
    BY <2>3 DEF SpyInv, Marks
<1>7. ASSUME RefreshSpy PROVE SpyInv'
  <2> DEFINE s == refresh(spy)
  <2>1. s \in ASpy /\ Linked(s)
    BY <1>1, RefreshTypes, RefreshFields DEF Linked
  <2>2. spy' = [s EXCEPT !.processed = FALSE]
    BY <1>7 DEF RefreshSpy
  <2> HIDE DEF s
  <2>3. spy' \in ASpy /\ Linked(spy') /\ ~spy'.processed
    BY <2>1, <2>2 DEF ASpy, Linked
  <2> QED
    BY <2>3 DEF SpyInv, Marks
<1>8. ASSUME UNCHANGED spy PROVE SpyInv'
  BY <1>1, <1>8 DEF SpyInv
<1> QED
  BY <1>3, <1>4, <1>5, <1>6, <1>7, <1>8 DEF ScrollSpyNext

\* Wherever sections are, move, hide and come back, however the content grows and shrinks,
\* and through any number of spies: after a scroll event the section in view is marked, by
\* the spy and on the page, if the measured offsets are those of the page.
THEOREM SpiesMark == ScrollSpySpec => []ScrollSpyMarks
<1>1. SpyInv => ScrollSpyMarks
  BY DEF SpyInv, Marks, ScrollSpyMarks
<1> QED
  BY <1>1, SpyInvInit, SpyInvStep, PTL DEF ScrollSpySpec

--------------------------------------------------------------------------------
(* All of them *)

WidgetsInv ==
    /\ AlertInv /\ ButtonsInv /\ CarouselInv /\ CollapseInv /\ DropdownInv
    /\ ModalInv /\ TooltipInv /\ SpyInv /\ TabInv

LEMMA WidgetsInvInit == WidgetsInit => WidgetsInv
  BY AlertInvInit, ButtonsInit, CarouselInvInit, CollapseInvInit, DropdownInvInit,
     ModalInvInit, TooltipInvInit, SpyInvInit, TabInvInit DEF WidgetsInit, WidgetsInv

\* A step of a page is a step of its widget, and the others stay as they are.
LEMMA WidgetsSteps ==
    ASSUME [WidgetsNext]_widgetVars
    PROVE  /\ [AlertNext]_alert /\ [ButtonNext]_buttonVars /\ [CarouselNext]_carousel
           /\ [CollapseNext]_collapseVars /\ [DropdownNext]_dropdownVars /\ [ModalNext]_modal
           /\ [TooltipNext]_tooltip /\ [ScrollSpyNext]_spy /\ [TabNext]_tabVars
  BY DEF WidgetsNext, widgetVars, On

LEMMA WidgetsInvStep == WidgetsInv /\ [WidgetsNext]_widgetVars => WidgetsInv'
<1> SUFFICES ASSUME WidgetsInv, [WidgetsNext]_widgetVars PROVE WidgetsInv'
  OBVIOUS
<1> QED
  BY WidgetsSteps, AlertInvStep, ButtonsStep, CarouselInvStep, CollapseInvStep, DropdownInvStep,
     ModalInvStep, TooltipInvStep, SpyInvStep, TabInvStep DEF WidgetsInv

\* Whatever the pages and their bounds, every widget keeps the types of its state: the
\* classes, timers and handlers the model declares are all there are.
THEOREM WidgetsKeepTypes == WidgetsSpec => []WidgetsTypeOK
<1>1. WidgetsInv => WidgetsTypeOK
  <2> SUFFICES ASSUME WidgetsInv PROVE WidgetsTypeOK
    OBVIOUS
  <2>1. AlertTypeOK /\ ButtonTypeOK /\ DropdownTypeOK /\ TabTypeOK
    BY DEF WidgetsInv, AlertInv, ButtonsInv, DropdownInv, TabInv
  <2>2. CarouselTypeOK /\ TooltipTypeOK /\ ScrollSpyTypeOK
    BY CarouselTypes, TooltipTypes, SpyTypes DEF WidgetsInv
  <2>3. ModalTypeOK
    BY ModalTypes DEF WidgetsInv, ModalInv, ModalGood
  <2>4. CollapseTypeOK
    BY DEF WidgetsInv, CollapseInv, CollapseTypeOK, Panel
  <2> QED
    BY <2>1, <2>2, <2>3, <2>4 DEF WidgetsTypeOK
<1> QED
  BY <1>1, WidgetsInvInit, WidgetsInvStep, PTL DEF WidgetsSpec

================================================================================
