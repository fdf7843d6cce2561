-------------------------------- MODULE Dropdown --------------------------------
(***************************************************************************)
(* The dropdown menus of a page.  Every way to open a menu first closes    *)
(* the others, through a function that all menus of the page share and     *)
(* that only knows the menus that have an instance.  Clicks and keys reach *)
(* it on several ways, which the handlers of a menu cut short.             *)
(***************************************************************************)
EXTENDS Naturals, FiniteSets

CONSTANTS
    Menus,           \* menus, each with its toggle in a parent of its own
    DisabledToggles, \* those whose toggle is disabled
    MenuItems        \* number of items of a menu

ASSUME DropdownAssumption == DisabledToggles \subseteq Menus /\ MenuItems \in Nat

VARIABLES
    openMenus,   \* menus shown: the class show of menu and parent
    expanded,    \* toggles with aria-expanded = "true"
    instances,   \* toggles with an instance
    focusAt,     \* the menu and the item that have the focus, 0 for the toggle
    vetoed       \* menus whose hide event a listener of the page prevents

dropdownVars == <<openMenus, expanded, instances, focusAt, vetoed>>

NoFocus == <<>>
Focuses == {NoFocus} \union (Menus \X (0..MenuItems))

DropdownTypeOK ==
    /\ openMenus \subseteq Menus /\ expanded \subseteq Menus /\ instances \subseteq Menus
    /\ focusAt \in Focuses /\ vetoed \subseteq Menus

DropdownInit ==
    /\ openMenus = {} /\ expanded = {} /\ instances = {} /\ focusAt = NoFocus
    /\ vetoed \in {{}} \union {{m} : m \in Menus}

--------------------------------------------------------------------------------

\* _clearMenus: what is left open; spared is the menu that holds the event's target.
leftOpen(spared) == {m \in openMenus : m \notin instances \/ m \in spared \union vetoed}

\* The focus, unless it was on an item that is no longer shown.
keptFocus(focus, open) ==
    IF focus # NoFocus /\ focus[2] > 0 /\ focus[1] \notin open THEN NoFocus ELSE focus

close(spared, focus) ==
    /\ openMenus' = leftOpen(spared)
    /\ expanded' = expanded \ (openMenus \ leftOpen(spared))
    /\ focusAt' = keptFocus(focus, leftOpen(spared))

\* A bug: menus are closed on behalf of clicks on the page only.
toggleAlone(m, prevented, focus) ==
    /\ instances' = instances \union {m} /\ UNCHANGED vetoed
    /\ IF m \in DisabledToggles
       THEN UNCHANGED <<openMenus, expanded>> /\ focusAt' = focus
       ELSE openMenus' = openMenus \union {m} /\ expanded' = expanded \union {m}
            /\ focusAt' = <<m, 0>>

\* toggle of an instance that may be new: the open menu is only closed.
toggle(m, prevented, focus) ==
    /\ instances' = instances \union {m} /\ UNCHANGED vetoed
    /\ LET known == instances \union {m}
           left  == {o \in openMenus : o \notin known \/ o \in vetoed}
       IN IF m \in DisabledToggles
          THEN UNCHANGED <<openMenus, expanded>> /\ focusAt' = focus
          ELSE IF m \in openMenus \/ prevented
          THEN /\ openMenus' = left /\ expanded' = expanded \ (openMenus \ left)
               /\ focusAt' = keptFocus(focus, left)
          ELSE /\ openMenus' = left \union {m}
               /\ expanded' = (expanded \ (openMenus \ left)) \union {m}
               /\ focusAt' = <<m, 0>>

ClickToggle(m) == \E prevented \in BOOLEAN : toggle(m, prevented, focusAt)

\* A click that reaches the document: on an input of a menu it spares that menu; one
\* on a form of a menu, or with the right button, ends before.
ClickPage ==
    /\ openMenus # {}
    /\ \E spared \in {{}} \union {{m} : m \in openMenus} : close(spared, focusAt)
    /\ UNCHANGED <<instances, vetoed>>

\* The tab key moves the focus; when it goes up again, the menu that now has the
\* focus, on its toggle or an item, is spared.
TabTo(focus) ==
    /\ focus # focusAt /\ (focus # NoFocus /\ focus[2] > 0 => focus[1] \in openMenus)
    /\ close(IF focus = NoFocus THEN {} ELSE {focus[1]}, focus)
    /\ UNCHANGED <<instances, vetoed>>

\* A command key on the toggle of a closed menu clicks the toggle, escape too.
KeyOpens ==
    /\ focusAt # NoFocus /\ focusAt[1] \notin openMenus \union DisabledToggles
    /\ \E prevented \in BOOLEAN : toggle(focusAt[1], prevented, <<focusAt[1], 0>>)

\* Escape or space: on the toggle it clicks the toggle; on an item it clicks the menu,
\* and that click reaches the document.  Escape focuses the toggle first.
KeyCloses ==
    /\ focusAt # NoFocus /\ focusAt[1] \in openMenus \ DisabledToggles
    /\ \E escape \in BOOLEAN :
          LET focus == IF escape THEN <<focusAt[1], 0>> ELSE focusAt IN
          IF focusAt[2] = 0 THEN toggle(focusAt[1], FALSE, focus)
          ELSE close({}, focus) /\ UNCHANGED <<instances, vetoed>>

\* A bug: the arrow down does not end at the last item.
KeyMovesPast ==
    /\ focusAt # NoFocus /\ focusAt[1] \in openMenus \ DisabledToggles
    /\ focusAt' = [focusAt EXCEPT ![2] = @ + 1]
    /\ UNCHANGED <<openMenus, expanded, instances, vetoed>>

\* The arrow keys in an open menu: from the toggle both lead to the first item.
KeyMoves ==
    /\ focusAt # NoFocus /\ focusAt[1] \in openMenus \ DisabledToggles /\ MenuItems > 0
    /\ \/ focusAt' = [focusAt EXCEPT ![2] = IF @ > 1 THEN @ - 1 ELSE 1]
       \/ focusAt' = [focusAt EXCEPT ![2] = IF @ < MenuItems THEN @ + 1 ELSE @]
    /\ UNCHANGED <<openMenus, expanded, instances, vetoed>>

\* dispose forgets the menu as it is, open or closed.
DisposeDropdown(m) ==
    /\ m \in instances /\ instances' = instances \ {m}
    /\ UNCHANGED <<openMenus, expanded, focusAt, vetoed>>

DropdownNext ==
    \/ \E m \in Menus : ClickToggle(m) \/ DisposeDropdown(m)
    \/ \E focus \in Focuses : TabTo(focus)
    \/ ClickPage \/ KeyOpens \/ KeyCloses \/ KeyMoves

DropdownSpec == DropdownInit /\ [][DropdownNext]_dropdownVars

--------------------------------------------------------------------------------

\* At most one menu is open, whichever clicks and keys opened and closed them, and the
\* toggles tell which: apart from menus whose page keeps them open, and from those
\* disposed while open, which no longer close on behalf of others.
OneMenuOpen ==
    /\ Cardinality((openMenus \intersect instances) \ vetoed) <= 1
    /\ expanded = openMenus
================================================================================
