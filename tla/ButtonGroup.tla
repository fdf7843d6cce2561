------------------------------ MODULE ButtonGroup ------------------------------
(***************************************************************************)
(* The toggle buttons of a page: one group of radio buttons, check boxes,  *)
(* and plain buttons.  The class active is what the user sees; the input   *)
(* of a button, or its attribute aria-pressed, is what is sent or read.    *)
(***************************************************************************)
EXTENDS Naturals, FiniteSets

CONSTANTS
    Radios,          \* the buttons of the radio group, numbered in document order
    Checkboxes,      \* buttons with a check box
    PlainButtons,    \* buttons without an input
    DisabledInputs   \* buttons whose input is disabled

Buttons == Radios \union Checkboxes \union PlainButtons

ASSUME ButtonsAssumption ==
    /\ Radios \subseteq Nat /\ DisabledInputs \subseteq Radios \union Checkboxes
    /\ Radios \intersect Checkboxes = {} /\ PlainButtons \intersect (Radios \union Checkboxes) = {}

VARIABLES
    activeButtons,  \* those with the class active
    marked,         \* those whose input is checked, or with aria-pressed = "true"
    focused         \* those with the class focus

buttonVars == <<activeButtons, marked, focused>>

ButtonTypeOK == activeButtons \subseteq Buttons /\ marked \subseteq Buttons
                /\ focused \subseteq Buttons

\* The markup of the page agrees with itself: at most one radio button is on.
ButtonInit ==
    /\ \E on \in {{}} \union {{r} : r \in Radios} : activeButtons = on
    /\ marked = activeButtons /\ focused = {}

flipped(set, b) == IF b \in set THEN set \ {b} ELSE set \union {b}

\* rootElement.querySelector('.active'): the first one of the group.
firstActive ==
    {b \in activeButtons \intersect Radios :
        \A other \in activeButtons \intersect Radios : b <= other}

\* Another radio button goes off first, and only then a disabled input ends the
\* call.  Checking an input unchecks the others of its name, input.focus() is last.
ToggleRadio(b) ==
    /\ b \in Radios
    /\ LET others == activeButtons \ firstActive
       IN IF b \in activeButtons \intersect marked
          THEN focused' = {b} /\ UNCHANGED <<activeButtons, marked>>
          ELSE IF b \in DisabledInputs
          THEN activeButtons' = others /\ UNCHANGED <<marked, focused>>
          ELSE /\ marked' = IF b \in others THEN marked \ {b} ELSE (marked \ Radios) \union {b}
               /\ activeButtons' = flipped(others, b)
               /\ focused' = {b}

\* A bug: the class is toggled before the input is set from it.
ToggleCheckboxClassFirst(b) ==
    /\ b \in Checkboxes \ DisabledInputs
    /\ activeButtons' = flipped(activeButtons, b)
    /\ marked' = IF b \in activeButtons' THEN marked \ {b} ELSE marked \union {b}
    /\ focused' = {b}

ToggleCheckbox(b) ==
    /\ b \in Checkboxes \ DisabledInputs
    /\ marked' = IF b \in activeButtons THEN marked \ {b} ELSE marked \union {b}
    /\ activeButtons' = flipped(activeButtons, b)
    /\ focused' = {b}

TogglePlain(b) ==
    /\ b \in PlainButtons
    /\ marked' = IF b \in activeButtons THEN marked \ {b} ELSE marked \union {b}
    /\ activeButtons' = flipped(activeButtons, b)
    /\ UNCHANGED focused

\* The focus moves to a button, or leaves them all.
FocusButton(to) ==
    focused' = to /\ to # focused /\ UNCHANGED <<activeButtons, marked>>

ButtonNext ==
    \/ \E b \in Buttons : ToggleRadio(b) \/ ToggleCheckbox(b) \/ TogglePlain(b)
    \/ \E to \in {{}} \union {{b} : b \in Buttons} : FocusButton(to)

ButtonSpec == ButtonInit /\ [][ButtonNext]_buttonVars

--------------------------------------------------------------------------------

\* What the user sees is what is sent: every button is active exactly when it is
\* marked.  One exception: a click on a disabled radio button has put out the
\* active one and lights none, and the checked input stays without a button.
ButtonsShowTheirInputs ==
    \/ activeButtons = marked
    \/ /\ DisabledInputs \intersect Radios # {}
       /\ activeButtons \intersect Radios = {}
       /\ activeButtons = marked \ Radios
================================================================================
