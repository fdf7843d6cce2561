------------------------------- MODULE MCWidgets -------------------------------
(***************************************************************************)
(* The widgets of Bootstrap, each on a page of its own: they share no      *)
(* state, so a page with several of them has no more to show.              *)
(***************************************************************************)
EXTENDS Alert, ButtonGroup, Carousel, Collapse, Dropdown, Modal, Tooltip, ScrollSpy, Tab, TLC

CONSTANTS a1, a2, m1, m2, m3

VARIABLE page   \* the widget of the page

TwoAlerts == {a1, a2}
OneFading == {a2}
OneToThree == 1..3
OneTwo == {1, 2}
LastRadio == {3}
OneCheckbox == {11}
OnePlainButton == {21}
ThreeMenus == {m1, m2, m3}
OneMenu == {m3}

widgetVars == <<page, alert, buttonVars, carousel, collapseVars, dropdownVars, modal,
                tooltip, spy, tabVars>>

\* Of the widgets a page does not have one initial state stands for all.
WidgetsInit ==
    /\ page \in {"alert", "button", "carousel", "collapse", "dropdown", "modal",
                 "tooltip", "scrollspy", "tab"}
    /\ AlertInit
    /\ ButtonInit   /\ (page # "button" => activeButtons = {})
    /\ CarouselInit /\ (page # "carousel" =>
                            ~(carousel.animated \/ carousel.wrap \/ carousel.auto))
    /\ CollapseInit /\ (page # "collapse" => ~(accordion \/ prepared \/ \E p \in Panels : panel[p].show))
    /\ DropdownInit /\ (page # "dropdown" => vetoed = {})
    /\ ModalInit    /\ (page # "modal" =>
                            ~(modal.fade \/ modal.hasBackdrop \/ modal.static \/ modal.overflow))
    /\ TooltipInit  /\ (page # "tooltip" =>
                            ~(tooltip.animated \/ tooltip.delayed \/ tooltip.content))
    /\ ScrollSpyInit /\ (page # "scrollspy" =>
                            spy.height = MaxHeight /\ spy.place = [x \in Sections |-> x])
    /\ TabInit      /\ (page # "tab" => activeLink = 1 /\ ~tabsFade)

On(name, Step) == page = name /\ Step /\ UNCHANGED page

WidgetsNext ==
    \/ /\ On("alert", AlertNext)
       /\ UNCHANGED <<buttonVars, carousel, collapseVars, dropdownVars, modal, tooltip, spy, tabVars>>
    \/ /\ On("button", ButtonNext)
       /\ UNCHANGED <<alert, carousel, collapseVars, dropdownVars, modal, tooltip, spy, tabVars>>
    \/ /\ On("carousel", CarouselNext)
       /\ UNCHANGED <<alert, buttonVars, collapseVars, dropdownVars, modal, tooltip, spy, tabVars>>
    \/ /\ On("collapse", CollapseNext)
       /\ UNCHANGED <<alert, buttonVars, carousel, dropdownVars, modal, tooltip, spy, tabVars>>
    \/ /\ On("dropdown", DropdownNext)
       /\ UNCHANGED <<alert, buttonVars, carousel, collapseVars, modal, tooltip, spy, tabVars>>
    \/ /\ On("modal", ModalNext)
       /\ UNCHANGED <<alert, buttonVars, carousel, collapseVars, dropdownVars, tooltip, spy, tabVars>>
    \/ /\ On("tooltip", TooltipNext)
       /\ UNCHANGED <<alert, buttonVars, carousel, collapseVars, dropdownVars, modal, spy, tabVars>>
    \/ /\ On("scrollspy", ScrollSpyNext)
       /\ UNCHANGED <<alert, buttonVars, carousel, collapseVars, dropdownVars, modal, tooltip, tabVars>>
    \/ /\ On("tab", TabNext)
       /\ UNCHANGED <<alert, buttonVars, carousel, collapseVars, dropdownVars, modal, tooltip, spy>>

WidgetsSpec ==
    /\ WidgetsInit /\ [][WidgetsNext]_widgetVars
    /\ ModalFairness /\ TooltipFairness

\* Every widget keeps the types of its state: classes, attributes, and timers and
\* handlers within their bounds.
WidgetsTypeOK ==
    /\ AlertTypeOK /\ ButtonTypeOK /\ CarouselTypeOK /\ CollapseTypeOK /\ DropdownTypeOK
    /\ ModalTypeOK /\ TooltipTypeOK /\ ScrollSpyTypeOK /\ TabTypeOK
================================================================================
