SPECIFICATION WidgetsSpec
\* A page may come to rest: an alert that is gone, a carousel that was disposed.
CHECK_DEADLOCK FALSE
CONSTANTS
    a1 = a1  a2 = a2  m1 = m1  m2 = m2  m3 = m3
    Alerts <- TwoAlerts  FadingAlerts <- OneFading  MaxClicks = 2
    Radios <- OneToThree  Checkboxes <- OneCheckbox  PlainButtons <- OnePlainButton
    DisabledInputs <- LastRadio
    Items = 3  MaxQueued = 2
    Panels <- OneToThree
    Menus <- ThreeMenus  DisabledToggles <- OneMenu  MenuItems = 2
    MaxWaits = 3
    Sections <- OneTwo  MaxHeight = 5  ViewHeight = 2  SpyOffset = 1
    Tabs <- OneToThree  MaxHasty = 2
INVARIANTS
    WidgetsTypeOK ClosedIsHeardOnce ButtonsShowTheirInputs CarouselShowsOneItem CarouselServes
    AccordionOpensOne TriggersAgree OneMenuOpen ModalAtRest TooltipAtRest ScrollSpyMarks
    TabShowsItsPane
PROPERTIES
    ModalAnswersAgain TooltipGoes
