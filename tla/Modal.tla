---------------------------------- MODULE Modal ----------------------------------
(***************************************************************************)
(* A modal dialog.  Showing and hiding it each take two transitions one    *)
(* after the other, of the backdrop and of the dialog, and the flag that   *)
(* keeps the two apart is reset between the two transitions of hiding: the *)
(* dialog can be shown again while its old backdrop still fades.           *)
(***************************************************************************)
EXTENDS FiniteSets, Naturals

Backdrops == 1..3   \* bound: the elements _showBackdrop makes
NoBackdrop == 0

VARIABLE modal

\* shown, busy: _isShown, _isTransitioning; display: the element is displayed; open,
\* padded: the class modal-open and the padding of the body; backdrop: this._backdrop;
\* inPage: backdrops in the document; waits: handlers that wait for the end of the
\* transition of the element (hide), the dialog (shown), the backdrop (enter), the
\* backdrop that fades (leave); ignore, mouseup: _ignoreBackdropClick, and a handler
\* of mouseup waits; fade, hasBackdrop, static, overflow: class, options, a body that
\* scrolls; spoilt, ghost: it was shown in a way that leaves it without an end, or was
\* disposed while there was something of it on the page.
ModalTypeOK ==
    modal \in [shown : BOOLEAN, busy : BOOLEAN, display : BOOLEAN, open : BOOLEAN,
               padded : BOOLEAN, backdrop : Backdrops \union {NoBackdrop},
               inPage : SUBSET Backdrops, waits : SUBSET {"hide", "shown", "enter", "leave"},
               ignore : BOOLEAN, mouseup : BOOLEAN, fade : BOOLEAN, hasBackdrop : BOOLEAN,
               static : BOOLEAN, overflow : BOOLEAN, spoilt : BOOLEAN]

ModalInit ==
    \E fade, hasBackdrop, static, overflow \in BOOLEAN :
        modal = [shown |-> FALSE, busy |-> FALSE, display |-> FALSE, open |-> FALSE,
                 padded |-> FALSE, backdrop |-> NoBackdrop, inPage |-> {}, waits |-> {},
                 ignore |-> FALSE, mouseup |-> FALSE, fade |-> fade,
                 hasBackdrop |-> hasBackdrop, static |-> static, overflow |-> overflow,
                 spoilt |-> FALSE]

--------------------------------------------------------------------------------
(* The methods, each from the modal to the modal after it. *)

\* The callback of _hideModal: the page is as it was before.
restored(m) == [m EXCEPT !.open = FALSE, !.padded = FALSE]

\* remove() takes the handlers of the backdrop along.
removeBackdrop(m) ==
    [m EXCEPT !.inPage = @ \ {m.backdrop}, !.backdrop = NoBackdrop, !.waits = @ \ {"enter"}]

showElement(m) ==
    IF m.fade THEN [m EXCEPT !.display = TRUE, !.waits = @ \union {"shown"}]
    ELSE [m EXCEPT !.display = TRUE, !.busy = FALSE]

showBackdrop(m) ==
    LET b == CHOOSE b \in Backdrops : b \notin m.inPage
        made == [m EXCEPT !.backdrop = b, !.inPage = @ \union {b}]
    IN IF m.fade THEN [made EXCEPT !.waits = @ \union {"enter"}] ELSE showElement(made)

\* A body with modal-open does not scroll, so its padding is saved once.
showModal(m) ==
    LET shown == [m EXCEPT !.busy = @ \/ m.fade, !.shown = TRUE, !.open = TRUE,
                           !.padded = @ \/ m.overflow, !.spoilt = @ \/ "leave" \in m.waits]
    IN IF m.hasBackdrop THEN showBackdrop(shown) ELSE showElement(shown)

\* The flag is set before the show event is triggered, and stays.
showPrevented(m) == [m EXCEPT !.busy = @ \/ m.fade, !.spoilt = @ \/ m.fade]

hideModal(m) ==
    LET away == [m EXCEPT !.display = FALSE, !.busy = FALSE] IN
    IF m.backdrop = NoBackdrop THEN restored(away)
    ELSE IF m.fade THEN [away EXCEPT !.waits = @ \union {"leave"}]
    ELSE restored(removeBackdrop(away))

hideElement(m) ==
    IF m.fade THEN [m EXCEPT !.shown = FALSE, !.busy = TRUE, !.waits = @ \union {"hide"}]
    ELSE hideModal([m EXCEPT !.shown = FALSE])

--------------------------------------------------------------------------------

\* The API or a click on a trigger; a listener of the event may prevent it.
ShowModal ==
    /\ ~modal.busy /\ ~modal.shown
    /\ modal' = showModal(modal) \/ modal' = showPrevented(modal)

\* The API, a dismiss button or the escape key; a prevented hide changes nothing.
HideModal == ~modal.busy /\ modal.shown /\ modal' = hideElement(modal)

\* The mouse goes down in the dialog, and up in it, on the element around it, which
\* the click event then is for, or outside the window.
ModalDrag ==
    /\ modal.shown
    /\ \/ modal' = [modal EXCEPT !.mouseup = TRUE]
       \/ modal' = [modal EXCEPT !.mouseup = FALSE]
       \/ modal' = [modal EXCEPT !.mouseup = FALSE, !.ignore = ~modal.hasBackdrop]

\* A click on the element around the dialog: a handler of mouseup that an earlier drag
\* left makes it ignored once.
ClickBackdrop ==
    /\ modal.shown /\ modal.display
    /\ LET up == [modal EXCEPT !.mouseup = FALSE, !.ignore = @ \/ modal.mouseup]
       IN modal' = IF ~up.hasBackdrop THEN up
                   ELSE IF up.ignore THEN [up EXCEPT !.ignore = FALSE]
                   ELSE IF up.static \/ up.busy THEN up ELSE hideElement(up)

ended(wait) == [modal EXCEPT !.waits = @ \ {wait}]

\* The element has faded.
ModalElementEnd == "hide" \in modal.waits /\ modal' = hideModal(ended("hide"))

\* A bug: the end of the second transition does not reset the flag.
ModalDialogEndBusy == "shown" \in modal.waits /\ modal' = ended("shown")

\* The dialog is in place.
ModalDialogEnd == "shown" \in modal.waits /\ modal' = [ended("shown") EXCEPT !.busy = FALSE]

\* The backdrop is there.  One that fades began before and ends before.
ModalEnterEnd ==
    "enter" \in modal.waits /\ "leave" \notin modal.waits /\ modal' = showElement(ended("enter"))

\* A bug: the handler of the old backdrop removes it and does not call back.
ModalLeaveEndOnly ==
    "leave" \in modal.waits /\ modal' = removeBackdrop(ended("leave"))

\* The old backdrop has faded, and its handler removes what this._backdrop is now.
ModalLeaveEnd == "leave" \in modal.waits /\ modal' = restored(removeBackdrop(ended("leave")))

\* The instance is gone and the next show makes another; what waits finds no element and
\* throws.  The page stays as it is: nobody removes the backdrop of a modal that was shown.
\* Not while a backdrop fades; bound: two elements are left for the new modal.
DisposeModal ==
    /\ "leave" \notin modal.waits /\ Cardinality(Backdrops \ modal.inPage) >= 2
    /\ modal' = [modal EXCEPT !.shown = FALSE, !.busy = FALSE, !.backdrop = NoBackdrop,
                              !.waits = {}, !.ignore = FALSE, !.mouseup = FALSE,
                              !.spoilt = modal.shown \/ modal.waits # {} \/ modal.display
                                            \/ modal.open \/ modal.inPage # {}]

ModalNext ==
    \/ ShowModal \/ HideModal \/ ModalDrag \/ ClickBackdrop
    \/ DisposeModal \/ ModalElementEnd \/ ModalDialogEnd \/ ModalEnterEnd \/ ModalLeaveEnd

ModalFairness ==
    /\ WF_modal(ModalElementEnd) /\ WF_modal(ModalDialogEnd)
    /\ WF_modal(ModalEnterEnd) /\ WF_modal(ModalLeaveEnd)

ModalSpec == ModalInit /\ [][ModalNext]_modal /\ ModalFairness

--------------------------------------------------------------------------------

\* When nothing moves, the page is as the modal says: a shown modal is displayed over
\* its one backdrop, on a body that does not scroll; a hidden one leaves no backdrop,
\* no class and no padding.  Not if it was shown again while its backdrop faded: then
\* the handler of the old backdrop removes the new one; nor if it was disposed before it
\* was hidden.
ModalAtRest ==
    modal.waits = {} /\ ~modal.spoilt =>
        /\ modal.display = modal.shown /\ modal.open = modal.shown
        /\ modal.padded = (modal.shown /\ modal.overflow)
        /\ modal.inPage = IF modal.shown /\ modal.hasBackdrop THEN {modal.backdrop} ELSE {}

\* The modal does not stay deaf: what sets _isTransitioning ends.  Not after a show a
\* listener prevented, which sets the flag for good, nor one that met the old backdrop.
ModalAnswersAgain == modal.busy ~> ~modal.busy \/ modal.spoilt
================================================================================
