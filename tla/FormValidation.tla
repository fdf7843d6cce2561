---------------------------- MODULE FormValidation ----------------------------
(***************************************************************************)
(* A form whose fields say in their attributes what they demand.  parse    *)
(* turns the attributes into rules and attaches the validator, which takes *)
(* a copy of the rules; callbacks of the validator put messages next to    *)
(* the fields and into a summary.  The fields are ones to type into.       *)
(***************************************************************************)
EXTENDS Naturals, FiniteSets

CONSTANTS
    Fields,      \* fields of the form with attributes
    Required,    \* those that must not be empty
    LateFields   \* those the page adds when the form is in use

NoField == "none"

ASSUME FieldsAssumption ==
    Required \subseteq Fields /\ LateFields \subseteq Fields /\ NoField \notin Fields

VARIABLES
    values,     \* what the fields hold
    inForm,     \* fields in the page
    rules,      \* fields with rules in the options of the form
    checked,    \* fields with rules in the validator
    submitted,  \* fields the validator found wrong since the last reset
    lastField,  \* lastElement of the validator: the last it checked alone
    lastActive, \* the last field that got the focus
    focus,      \* the field being edited
    told,       \* the container next to each field: its class, and whether it has a message
    kept,       \* ghost: fields with a message from before a reset
    summary     \* the summary: its class, and the fields it lists

formVars == <<values, inForm, rules, checked, submitted, lastField, lastActive, focus,
              told, kept, summary>>
fieldVars == <<values, inForm, rules, checked>>

FormTypeOK ==
    /\ values \in [Fields -> {"", "good", "bad"}]
    /\ inForm \subseteq Fields /\ rules \subseteq inForm /\ checked \subseteq rules
    /\ submitted \subseteq checked /\ kept \subseteq checked
    /\ {lastField, lastActive} \subseteq Fields \union {NoField}
    /\ focus \in inForm \union {NoField}
    /\ told \in [Fields -> [error : BOOLEAN, message : BOOLEAN]]
    /\ summary \in [errors : BOOLEAN, list : SUBSET Fields]

\* The document is ready and parsed; the validator has the rules.
FormInit ==
    /\ values = [f \in Fields |-> ""] /\ inForm = Fields \ LateFields
    /\ rules = inForm /\ checked = rules
    /\ submitted = {} /\ kept = {}
    /\ lastField = NoField /\ lastActive = NoField /\ focus = NoField
    /\ told = [f \in Fields |-> [error |-> FALSE, message |-> FALSE]]
    /\ summary = [errors |-> FALSE, list |-> {}]

\* What the adapters make of the attributes: a format of the text, and required.
breaks(f, value) == value = "bad" \/ (value = "" /\ f \in Required)

\* errorPlacement: the container gets the class and a new message.
onError == [error |-> TRUE, message |-> TRUE]

\* success, after errorPlacement: the class goes and the container is emptied.
onSuccess == [error |-> FALSE, message |-> FALSE]

\* A bug: the validator's report that a field is right is not heard.
showLabelOfErrors(f, value) == onError

\* The validator has no message of the field it could reuse, as onError takes the class
\* by which it finds it: it places one, and then reports a field that is right.
showLabel(f, value) == IF breaks(f, value) THEN onError ELSE onSuccess

\* A check of one field; one without rules only becomes the last.
element(f, value) ==
    /\ lastField' = f
    /\ IF f \notin checked THEN UNCHANGED <<submitted, told, kept>>
       ELSE /\ told' = [told EXCEPT ![f] = showLabel(f, value)]
            /\ submitted' = IF breaks(f, value) THEN submitted \union {f} ELSE submitted
            /\ kept' = kept \ {f}

noElement == UNCHANGED <<lastField, submitted, told, kept>>

\* onkeyup, of a key that changes the text or not; or the mouse changes it, which is not heard.
TypeInto(f, value) ==
    /\ focus = f /\ values' = [values EXCEPT ![f] = value]
    /\ \/ IF f \in submitted \/ f = lastField THEN element(f, value) ELSE noElement
       \/ noElement
    /\ UNCHANGED <<inForm, rules, checked, lastActive, focus, summary>>

\* onfocusout, when the field is not empty or was found wrong.
checksLeft == focus # NoField /\ (focus \in submitted \/ values[focus] # "")

MoveFocus(to) ==
    /\ focus # to /\ focus' = to
    /\ lastActive' = IF to = NoField THEN lastActive ELSE to
    /\ IF checksLeft THEN element(focus, values[focus]) ELSE noElement
    /\ UNCHANGED <<fieldVars, summary>>

\* checkForm: the errorList of a check of the whole form.
wrongFields == {f \in checked : breaks(f, values[f])}

\* invalidHandler, before the messages are shown.
onErrors == summary' = [errors |-> TRUE, list |-> wrongFields]

\* A check of the whole form.  One that finds nothing leaves the summary as it was.
form ==
    /\ submitted' = submitted \union wrongFields /\ kept' = kept \ checked
    /\ told' = [f \in Fields |-> IF f \in checked THEN showLabel(f, values[f]) ELSE told[f]]
    /\ IF wrongFields = {} THEN UNCHANGED summary ELSE onErrors

\* What a script asks that sends the form itself.
validate == form /\ UNCHANGED <<fieldVars, lastField, lastActive, focus>>

\* The focus goes to the last active field, or the first, of those that are wrong; which
\* is the first is left open.  The field that had it is checked again, as it was just now.
focusInvalid ==
    \E f \in (IF lastActive \in wrongFields THEN {lastActive} ELSE wrongFields) :
        /\ focus' = f /\ lastActive' = f
        /\ lastField' = IF focus # f /\ (checksLeft \/ focus \in wrongFields)
                        THEN focus ELSE lastField

\* The user submits.  A form that is right is sent, and stays until the answer comes.
SubmitForm ==
    /\ form /\ UNCHANGED fieldVars
    /\ IF wrongFields = {} THEN UNCHANGED <<lastField, lastActive, focus>> ELSE focusInvalid

\* resetForm of the validator finds no message to remove; the classes are put back, the
\* messages and the list stay.
onReset ==
    /\ values' = [f \in Fields |-> ""] /\ submitted' = {} /\ lastField' = NoField
    /\ summary' = [errors |-> FALSE, list |-> summary.list]
    /\ told' = [f \in Fields |-> [error |-> FALSE, message |-> told[f].message]]
    /\ kept' = {f \in Fields : told[f].message}
    /\ UNCHANGED <<inForm, rules, checked, lastActive, focus>>

\* The page adds a field.
AddField(f) ==
    /\ f \notin inForm /\ inForm' = inForm \union {f}
    /\ UNCHANGED <<values, rules, checked, submitted, lastField, lastActive, focus, told, kept,
                   summary>>

\* parse: rules of all fields in the page; validate() finds the validator the form has,
\* whose rules are a copy.
parse ==
    /\ rules' = inForm /\ rules' # rules
    /\ UNCHANGED <<values, inForm, checked, submitted, lastField, lastActive, focus, told, kept,
                   summary>>

FormNext ==
    \/ \E f \in Fields, value \in {"", "good", "bad"} : TypeInto(f, value)
    \/ \E to \in inForm \union {NoField} : MoveFocus(to)
    \/ SubmitForm \/ validate \/ onReset \/ parse
    \/ \E f \in Fields : AddField(f)

FormSpec == FormInit /\ [][FormNext]_formVars

--------------------------------------------------------------------------------

\* In whatever order fields are typed into, left, added, parsed, submitted and reset: the
\* container next to a field, apart from the one being edited, is marked exactly when the
\* field was found wrong since the last reset and still is.  It has a message when it is
\* marked or a reset has left it one, and never next to a field the validator has no rules
\* of, one the page added and parsed later.  What a refused form lists was found wrong.
MessagesFollowTheFields ==
    /\ \A f \in Fields \ {focus} : told[f].error <=> (f \in submitted /\ breaks(f, values[f]))
    /\ \A f \in Fields : told[f].error => f \in submitted
    /\ \A f \in Fields : told[f].message <=> (told[f].error \/ f \in kept)
    /\ \A f \in LateFields : ~told[f].message
    /\ summary.errors => summary.list # {} /\ summary.list \subseteq submitted
================================================================================
