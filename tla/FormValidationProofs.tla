------------------------- MODULE FormValidationProofs -------------------------
(***************************************************************************)
(* Proofs about FormValidation for every set of fields and whatever they   *)
(* demand.                                                                 *)
(***************************************************************************)
EXTENDS FormValidation, TLAPS

Values == {"", "good", "bad"}
Told == [error : BOOLEAN, message : BOOLEAN]
Text(f, value) == [error |-> breaks(f, value), message |-> breaks(f, value)]

\* What the invariant says of a field: that its mark is right, and the rest.
MarkRight(f) == told[f].error <=> (f \in submitted /\ breaks(f, values[f]))
MessageRight(f) ==
    /\ told[f].error => f \in submitted
    /\ told[f].message <=> (told[f].error \/ f \in kept)

FieldsRight == \A f \in Fields : MessageRight(f) /\ (f # focus => MarkRight(f))
SummaryRight == summary.errors => summary.list # {} /\ summary.list \subseteq submitted

FormInv ==
    FormTypeOK /\ checked = Fields \ LateFields /\ FieldsRight /\ SummaryRight

--------------------------------------------------------------------------------
(* What a check leaves behind *)

\* After a check the text next to a field is what the check found.
LEMMA LabelShows ==
    ASSUME NEW f, NEW value
    PROVE  showLabel(f, value) = Text(f, value) /\ Text(f, value) \in Told
<1>1. CASE breaks(f, value)
  BY <1>1 DEF showLabel, onError, Text, Told
<1>2. CASE ~breaks(f, value)
  <2>1. breaks(f, value) = FALSE
    BY <1>2 DEF breaks
  <2> QED
    BY <2>1 DEF showLabel, onSuccess, Text, Told
<1> QED
  BY <1>1, <1>2

LEMMA TextSays ==
    ASSUME NEW f, NEW value
    PROVE  /\ Text(f, value).error <=> breaks(f, value)
           /\ Text(f, value).message <=> breaks(f, value)
  BY DEF Text

\* What no check of one field touches.
Untouched(g) ==
    told'[g] = told[g] /\ (g \in submitted' <=> g \in submitted) /\ (g \in kept' <=> g \in kept)

\* element(f) touches one field, and shows what it found when it has rules of it.
LEMMA ElementStep ==
    ASSUME FormTypeOK, NEW f \in Fields, NEW value, element(f, value)
    PROVE  /\ lastField' = f /\ submitted \subseteq submitted'
           /\ submitted' \subseteq checked /\ kept' \subseteq checked
           /\ told' \in [Fields -> Told]
           /\ f \in checked => /\ told'[f] = Text(f, value) /\ f \notin kept'
                               /\ breaks(f, value) => f \in submitted'
           /\ f \notin checked => Untouched(f)
           /\ \A g \in Fields \ {f} : Untouched(g)
<1>1. showLabel(f, value) = Text(f, value) /\ Text(f, value) \in Told
  BY LabelShows
<1>t. told \in [Fields -> Told] /\ submitted \subseteq checked /\ kept \subseteq checked
  BY DEF FormTypeOK, Told
<1>2. CASE f \notin checked
  BY <1>t, <1>2 DEF element, Untouched
<1>3. CASE f \in checked
  <2>1. told' = [told EXCEPT ![f] = Text(f, value)] /\ kept' = kept \ {f} /\ lastField' = f
    BY <1>1, <1>3 DEF element
  <2>2. submitted' = IF breaks(f, value) THEN submitted \union {f} ELSE submitted
    BY <1>3 DEF element
  <2> QED
    BY <1>1, <1>t, <1>3, <2>1, <2>2 DEF Untouched
<1> QED
  BY <1>2, <1>3

\* A field is right after its check.
LEMMA ElementRight ==
    ASSUME FormTypeOK, NEW f \in Fields, MessageRight(f), element(f, values'[f])
    PROVE  MessageRight(f)' /\ MarkRight(f)'
<1>1. CASE f \in checked
  <2>1. /\ told'[f] = Text(f, values'[f]) /\ f \notin kept'
        /\ breaks(f, values'[f]) => f \in submitted'
    BY <1>1, ElementStep
  <2>2. /\ told'[f].error <=> breaks(f, values'[f])
        /\ told'[f].message <=> breaks(f, values'[f])
    BY <2>1, TextSays
  <2>3. breaks(f, values[f])' <=> breaks(f, values'[f])
    BY DEF breaks
  <2> QED
    BY <2>1, <2>2, <2>3 DEF MessageRight, MarkRight
<1>2. CASE f \notin checked
  <2>1. Untouched(f) /\ f \notin submitted /\ ~told[f].error
    BY <1>2, ElementStep DEF FormTypeOK, MessageRight
  <2> QED
    BY <2>1 DEF MessageRight, MarkRight, Untouched
<1> QED
  BY <1>1, <1>2

\* A field nothing touches stays right.
LEMMA UntouchedRight ==
    ASSUME NEW g, Untouched(g), values'[g] = values[g]
    PROVE  /\ MessageRight(g) => MessageRight(g)'
           /\ MarkRight(g) => MarkRight(g)'
<1>1. breaks(g, values[g])' <=> breaks(g, values[g])
  BY DEF breaks
<1> QED
  BY <1>1 DEF MessageRight, MarkRight, Untouched

\* form() makes every field right, the one being edited too.
LEMMA FormStep ==
    ASSUME FormInv, form, UNCHANGED fieldVars
    PROVE  /\ submitted' \subseteq checked /\ kept' \subseteq checked
           /\ told' \in [Fields -> Told] /\ summary' \in [errors : BOOLEAN, list : SUBSET Fields]
           /\ \A f \in Fields : MessageRight(f)' /\ MarkRight(f)'
           /\ SummaryRight'
<1>1. /\ submitted' = submitted \union wrongFields /\ kept' = kept \ checked
      /\ told' = [f \in Fields |-> IF f \in checked THEN showLabel(f, values[f]) ELSE told[f]]
      /\ wrongFields = {} => summary' = summary
      /\ wrongFields # {} => summary' = [errors |-> TRUE, list |-> wrongFields]
      /\ values' = values
  BY DEF form, onErrors, fieldVars
<1>2. /\ submitted \subseteq checked /\ kept \subseteq checked /\ checked \subseteq Fields
      /\ told \in [Fields -> Told] /\ summary \in [errors : BOOLEAN, list : SUBSET Fields]
  BY DEF FormInv, FormTypeOK, Told
<1>3. wrongFields \subseteq checked /\ \A f \in checked : f \in wrongFields <=> breaks(f, values[f])
  BY DEF wrongFields
<1>4. submitted' \subseteq checked /\ kept' = {}
  BY <1>1, <1>2, <1>3
<1>5. ASSUME NEW f \in Fields
      PROVE  told'[f] \in Told /\ MessageRight(f)' /\ MarkRight(f)'
  <2>0. breaks(f, values[f])' <=> breaks(f, values[f])
    BY <1>1 DEF breaks
  <2>1. CASE f \in checked
    <3>1. told'[f] = Text(f, values[f]) /\ Text(f, values[f]) \in Told
      BY <1>1, <2>1, LabelShows
    <3>2. /\ told'[f].error <=> breaks(f, values[f])
          /\ told'[f].message <=> breaks(f, values[f])
      BY <3>1, TextSays
    <3> QED
      BY <1>1, <1>3, <1>4, <2>0, <2>1, <3>1, <3>2 DEF MessageRight, MarkRight
  <2>2. CASE f \notin checked
    <3>1. told'[f] = told[f] /\ f \notin submitted' /\ f \notin kept'
      BY <1>1, <1>4, <2>2
    <3>2. ~told[f].error /\ ~told[f].message
      BY <1>2, <2>2 DEF FormInv, FieldsRight, MessageRight
    <3> QED
      BY <1>2, <3>1, <3>2 DEF MessageRight, MarkRight
  <2> QED
    BY <2>1, <2>2
<1>6. told' \in [Fields -> Told]
  <2>1. \A f \in Fields : told'[f] \in Told
    BY <1>5
  <2> QED
    BY <1>1, <2>1
<1>7. summary' \in [errors : BOOLEAN, list : SUBSET Fields]
  <2>1. wrongFields \in SUBSET Fields
    BY <1>2, <1>3
  <2>2. [errors |-> TRUE, list |-> wrongFields] \in [errors : BOOLEAN, list : SUBSET Fields]
    BY <2>1
  <2> QED
    BY <1>1, <1>2, <2>2
<1>8. SummaryRight'
  BY <1>1 DEF FormInv, SummaryRight
<1> QED
  BY <1>4, <1>5, <1>6, <1>7, <1>8

--------------------------------------------------------------------------------
(* Every step keeps the invariant *)

LEMMA FormInvInit == FormInit => FormInv
<1> SUFFICES ASSUME FormInit PROVE FormInv
  OBVIOUS
<1>1. told \in [Fields -> Told] /\ \A f \in Fields : told[f] = [error |-> FALSE, message |-> FALSE]
  BY DEF FormInit, Told
<1>2. summary = [errors |-> FALSE, list |-> {}] /\ submitted = {} /\ kept = {}
  BY DEF FormInit
<1>3. FormTypeOK
  <2>1. summary \in [errors : BOOLEAN, list : SUBSET Fields]
    BY <1>2
  <2>2. values \in [Fields -> Values]
    BY DEF FormInit, Values
  <2> QED
    BY <1>1, <1>2, <2>1, <2>2, FieldsAssumption DEF FormInit, FormTypeOK, Told, Values
<1>4. checked = Fields \ LateFields
  BY DEF FormInit
<1>5. FieldsRight
  BY <1>1, <1>2 DEF FieldsRight, MessageRight, MarkRight
<1>6. SummaryRight
  BY <1>2 DEF SummaryRight
<1> QED
  BY <1>3, <1>4, <1>5, <1>6 DEF FormInv

\* Typing touches the field being edited, whose mark may be late.
LEMMA TypeIntoInv ==
    ASSUME FormInv, NEW f \in Fields, NEW value \in Values, TypeInto(f, value)
    PROVE  FormInv'
<1> USE DEF FormInv
<1>1. /\ focus = f /\ focus' = f /\ values' = [values EXCEPT ![f] = value]
      /\ UNCHANGED <<inForm, rules, checked, lastActive, summary>>
      /\ element(f, value) \/ noElement
  BY DEF TypeInto
<1>2. values' \in [Fields -> Values] /\ values'[f] = value
      /\ \A g \in Fields \ {f} : values'[g] = values[g]
  BY <1>1 DEF FormTypeOK, Values
<1>3. /\ submitted' \subseteq checked /\ kept' \subseteq checked /\ told' \in [Fields -> Told]
      /\ lastField' \in Fields \union {NoField} /\ submitted \subseteq submitted'
      /\ \A g \in Fields \ {f} : Untouched(g)
  <2>1. CASE element(f, value)
    BY <2>1, ElementStep
  <2>2. CASE noElement
    BY <2>2 DEF noElement, FormTypeOK, Told, Untouched
  <2> QED
    BY <1>1, <2>1, <2>2
<1>4. MessageRight(f)'
  <2>1. CASE element(f, value)
    BY <1>2, <2>1, ElementRight DEF FieldsRight
  <2>2. CASE noElement
    BY <2>2 DEF noElement, FieldsRight, MessageRight
  <2> QED
    BY <1>1, <2>1, <2>2
<1>5. FormTypeOK'
  <2>1. inForm' = inForm /\ rules' = rules /\ checked' = checked /\ lastActive' = lastActive
        /\ summary' = summary
    BY <1>1
  <2>2. (focus \in inForm \union {NoField})'
    BY <1>1, <2>1 DEF FormTypeOK
  <2>3. (values \in [Fields -> {"", "good", "bad"}])'
    BY <1>2 DEF Values
  <2> QED
    BY <1>3, <2>1, <2>2, <2>3 DEF FormTypeOK, Told
<1>6. FieldsRight'
  <2>1. ASSUME NEW g \in Fields \ {f} PROVE MessageRight(g)' /\ MarkRight(g)'
    BY <1>1, <1>2, <1>3, UntouchedRight DEF FieldsRight
  <2> QED
    BY <1>1, <1>4, <2>1 DEF FieldsRight
<1>7. SummaryRight'
  BY <1>1, <1>3 DEF SummaryRight
<1> QED
  BY <1>1, <1>5, <1>6, <1>7

\* The field that is left is checked when it was found wrong before.
LEMMA MoveFocusInv ==
    ASSUME FormInv, NEW to \in inForm \union {NoField}, MoveFocus(to) PROVE FormInv'
<1> USE DEF FormInv
<1>1. /\ focus' = to /\ lastActive' \in {lastActive, to} /\ UNCHANGED <<fieldVars, summary>>
      /\ values' = values
  BY DEF MoveFocus, fieldVars
<1>2. /\ submitted' \subseteq checked /\ kept' \subseteq checked /\ told' \in [Fields -> Told]
      /\ lastField' \in Fields \union {NoField} /\ submitted \subseteq submitted'
      /\ \A g \in Fields : MessageRight(g)' /\ MarkRight(g)'
  <2>1. CASE checksLeft
    <3>1. focus \in Fields /\ element(focus, values[focus])
      BY <2>1 DEF MoveFocus, checksLeft, FormTypeOK
    <3>2. MessageRight(focus) /\ element(focus, values'[focus])
      BY <1>1, <3>1 DEF FieldsRight
    <3>3. PICK h \in Fields : focus = h
      BY <3>1
    <3>4. MessageRight(h)' /\ MarkRight(h)'
      BY <3>2, <3>3, ElementRight
    <3>5. /\ submitted' \subseteq checked /\ kept' \subseteq checked /\ told' \in [Fields -> Told]
          /\ lastField' \in Fields /\ submitted \subseteq submitted'
          /\ \A g \in Fields \ {h} : Untouched(g)
      BY <3>1, <3>3, ElementStep
    <3>6. \A g \in Fields \ {h} : MessageRight(g)' /\ MarkRight(g)'
      BY <1>1, <3>3, <3>5, UntouchedRight DEF FieldsRight
    <3> QED
      BY <3>4, <3>5, <3>6
  <2>2. CASE ~checksLeft
    <3>1. lastField' = lastField /\ submitted' = submitted /\ told' = told /\ kept' = kept
      BY <2>2 DEF MoveFocus, noElement
    <3>2. \A g \in Fields : Untouched(g)
      BY <3>1 DEF Untouched
    <3>3. ASSUME NEW g \in Fields PROVE MarkRight(g)
      <4>1. CASE g = focus
        <5>1. g \notin submitted
          BY <2>2, <4>1, FieldsAssumption DEF checksLeft
        <5> QED
          BY <5>1 DEF FieldsRight, MessageRight, MarkRight
      <4> QED
        BY <4>1 DEF FieldsRight
    <3>4. \A g \in Fields : MessageRight(g)' /\ MarkRight(g)'
      BY <1>1, <3>2, <3>3, UntouchedRight DEF FieldsRight
    <3> QED
      BY <3>1, <3>4 DEF FormTypeOK, Told
  <2> QED
    BY <2>1, <2>2
<1>3. FormTypeOK'
  BY <1>1, <1>2 DEF FormTypeOK, Told, fieldVars
<1>4. FieldsRight'
  BY <1>2 DEF FieldsRight
<1>5. SummaryRight'
  BY <1>1, <1>2 DEF SummaryRight
<1> QED
  BY <1>1, <1>3, <1>4, <1>5 DEF fieldVars

\* A form that is checked whole, wherever the focus goes.
LEMMA WholeFormInv ==
    ASSUME FormInv, form, UNCHANGED fieldVars, focus' \in inForm \union {NoField},
           lastField' \in Fields \union {NoField}, lastActive' \in Fields \union {NoField}
    PROVE  FormInv'
<1>1. /\ submitted' \subseteq checked /\ kept' \subseteq checked
      /\ told' \in [Fields -> Told] /\ summary' \in [errors : BOOLEAN, list : SUBSET Fields]
      /\ \A f \in Fields : MessageRight(f)' /\ MarkRight(f)'
      /\ SummaryRight'
  BY FormStep
<1>2. FormTypeOK'
  BY <1>1 DEF FormInv, FormTypeOK, Told, fieldVars
<1>3. FieldsRight'
  BY <1>1 DEF FieldsRight
<1> QED
  BY <1>1, <1>2, <1>3 DEF FormInv, fieldVars

LEMMA SubmitInv == ASSUME FormInv, SubmitForm \/ validate PROVE FormInv'
<1>1. /\ focus \in inForm \union {NoField} /\ inForm \subseteq Fields
      /\ lastField \in Fields \union {NoField} /\ lastActive \in Fields \union {NoField}
      /\ wrongFields \subseteq inForm
  BY DEF FormInv, FormTypeOK, wrongFields
<1>2. CASE validate \/ (SubmitForm /\ wrongFields = {})
  <2>1. form /\ UNCHANGED fieldVars /\ UNCHANGED <<lastField, lastActive, focus>>
    BY <1>2 DEF validate, SubmitForm
  <2> QED
    BY <1>1, <2>1, WholeFormInv
<1>3. CASE SubmitForm /\ wrongFields # {}
  <2>1. form /\ UNCHANGED fieldVars /\ focusInvalid
    BY <1>3 DEF SubmitForm
  <2>2. PICK f \in (IF lastActive \in wrongFields THEN {lastActive} ELSE wrongFields) :
            /\ focus' = f /\ lastActive' = f
            /\ lastField' = IF focus # f /\ (checksLeft \/ focus \in wrongFields)
                            THEN focus ELSE lastField
    BY <2>1 DEF focusInvalid
  <2>3. f \in wrongFields /\ lastField' \in {focus, lastField}
    BY <2>2
  <2> QED
    BY <1>1, <2>1, <2>2, <2>3, WholeFormInv
<1> QED
  BY <1>2, <1>3

\* A reset takes the marks away and leaves the messages.
LEMMA ResetInv == ASSUME FormInv, onReset PROVE FormInv'
<1>1. /\ values' = [f \in Fields |-> ""] /\ submitted' = {} /\ lastField' = NoField
      /\ summary' = [errors |-> FALSE, list |-> summary.list]
      /\ told' = [f \in Fields |-> [error |-> FALSE, message |-> told[f].message]]
      /\ kept' = {f \in Fields : told[f].message}
      /\ UNCHANGED <<inForm, rules, checked, lastActive, focus>>
  BY DEF onReset
<1>2. ASSUME NEW f \in Fields
      PROVE  ~told'[f].error /\ (told'[f].message <=> told[f].message) /\ told'[f] \in Told
  BY <1>1 DEF FormInv, FormTypeOK, Told
<1>3. kept' \subseteq checked
  BY <1>1 DEF FormInv, FormTypeOK, FieldsRight, MessageRight
<1>4. told' \in [Fields -> Told]
  BY <1>1, <1>2
<1>5. values' \in [Fields -> Values] /\ summary' \in [errors : BOOLEAN, list : SUBSET Fields]
  BY <1>1 DEF FormInv, FormTypeOK, Values
<1>6. FormTypeOK'
  BY <1>1, <1>3, <1>4, <1>5 DEF FormInv, FormTypeOK, Told, Values
<1>7. FieldsRight'
  BY <1>1, <1>2 DEF FieldsRight, MessageRight, MarkRight
<1>8. SummaryRight'
  BY <1>1 DEF SummaryRight
<1> QED
  BY <1>1, <1>6, <1>7, <1>8 DEF FormInv

LEMMA FormInvStep == FormInv /\ [FormNext]_formVars => FormInv'
<1> SUFFICES ASSUME FormInv, [FormNext]_formVars PROVE FormInv'
  OBVIOUS
<1>1. ASSUME NEW f \in Fields, NEW value \in Values, TypeInto(f, value) PROVE FormInv'
  BY <1>1, TypeIntoInv
<1>2. ASSUME NEW to \in inForm \union {NoField}, MoveFocus(to) PROVE FormInv'
  BY <1>2, MoveFocusInv
<1>3. CASE SubmitForm \/ validate
  BY <1>3, SubmitInv
<1>4. CASE onReset
  BY <1>4, ResetInv
<1>5. ASSUME \/ parse \/ (\E f \in Fields : AddField(f)) \/ UNCHANGED formVars
      PROVE  FormInv'
  <2>1. /\ UNCHANGED <<values, checked, submitted, focus, told, kept, summary, lastField, lastActive>>
        /\ inForm \subseteq inForm' /\ inForm' \subseteq Fields
        /\ rules \subseteq rules' /\ rules' \subseteq inForm'
    BY <1>5 DEF parse, AddField, formVars, FormInv, FormTypeOK
  <2>2. FormTypeOK'
    BY <2>1 DEF FormInv, FormTypeOK
  <2>3. FieldsRight' /\ SummaryRight'
    <3>1. \A f \in Fields : Untouched(f) /\ values'[f] = values[f] /\ focus' = focus
      BY <2>1 DEF Untouched
    <3>2. FieldsRight'
      BY <3>1, UntouchedRight DEF FormInv, FieldsRight
    <3> QED
      BY <2>1, <3>2 DEF FormInv, SummaryRight
  <2> QED
    BY <2>1, <2>2, <2>3 DEF FormInv
<1> QED
  BY <1>1, <1>2, <1>3, <1>4, <1>5 DEF FormNext, Values

LEMMA FormKeepsInv == FormSpec => []FormInv
  BY FormInvInit, FormInvStep, PTL DEF FormSpec

--------------------------------------------------------------------------------
(* What the invariant says *)

\* The rules of the validator are among those of the page, and what it found wrong is
\* among the fields it has rules for, whatever the page adds and parses.
THEOREM FormTypes == FormSpec => []FormTypeOK
<1>1. FormInv => FormTypeOK
  BY DEF FormInv
<1> QED
  BY <1>1, FormKeepsInv, PTL

\* For every set of fields, in whatever order they are typed into, left, added, submitted
\* and reset: the marks tell which fields were found wrong since the last reset and still
\* are, the messages are those of marked fields or left by a reset, and a field added late
\* never has one.
THEOREM MessagesAreRight == FormSpec => []MessagesFollowTheFields
<1>1. FormInv => MessagesFollowTheFields
  <2> SUFFICES ASSUME FormInv PROVE MessagesFollowTheFields
    OBVIOUS
  <2>1. ASSUME NEW f \in LateFields PROVE ~told[f].message
    <3>1. f \in Fields /\ f \notin submitted /\ f \notin kept
      BY FieldsAssumption DEF FormInv, FormTypeOK
    <3> QED
      BY <3>1 DEF FormInv, FieldsRight, MessageRight
  <2>2. \A f \in Fields \ {focus} : MarkRight(f)
    BY DEF FormInv, FieldsRight
  <2>3. \A f \in Fields : MessageRight(f)
    BY DEF FormInv, FieldsRight
  <2> QED
    BY <2>1, <2>2, <2>3 DEF FormInv, SummaryRight, MessagesFollowTheFields, MarkRight, MessageRight
<1> QED
  BY <1>1, FormKeepsInv, PTL
================================================================================
