----------------------------- MODULE Validator -----------------------------
(***************************************************************************)
(* The validation plugin as it guards a form: the events of a field        *)
(* (focusin, focusout, keyup) and of the form (submit) as they reach the   *)
(* validator, its checks, what it shows, and the rule `remote', which asks *)
(* the server and goes on when the answer comes.                           *)
(*                                                                         *)
(* A text is a member of a small set, told apart by what a rule of a page  *)
(* or the servlet makes of it; a field, a format and a rule carry the      *)
(* names they have in the page.  Two fields, inputNombre and inputCorreo,  *)
(* stand for a form that asks the server: no page of the repository does.  *)
(***************************************************************************)
EXTENDS Naturals, FiniteSets, FiniteSetsExt

CONSTANTS
  Forms,        \* the forms of the pages: the set of elements of each
  Format,       \* the formats the select of a form offers
  FirstFormat,  \* the one a new page shows
  Typed,        \* Typed[f]: the texts a user may leave in f
  None          \* no element, no text

Select == "inputFormato"
Field == (UNION Forms) \ {Select}

Order == <<"inputTitulo", "inputPath", "inputImagen", "inputIPMC",
           "inputPuertoVideo", "inputPuertoAudio", "inputNombre", "inputCorreo">>

ReadOnly == {"inputPath", "inputImagen"}

(* Mutant of Rules: the video port may be left empty.                      *)
RulesOptionalPort ==
         [inputTitulo      |-> {"required"},
          inputPath        |-> {"input_Path"},
          inputImagen      |-> {"required"},
          inputIPMC        |-> {"required", "ip_multicast"},
          inputPuertoVideo |-> {"digits"},
          inputPuertoAudio |-> {"input_audio"},
          inputNombre      |-> {"required", "remote"},
          inputCorreo      |-> {"remote"}]

Rules == [inputTitulo      |-> {"required"},
          inputPath        |-> {"input_Path"},
          inputImagen      |-> {"required"},
          inputIPMC        |-> {"required", "ip_multicast"},
          inputPuertoVideo |-> {"required", "digits"},
          inputPuertoAudio |-> {"input_audio"},
          inputNombre      |-> {"required", "remote"},
          inputCorreo      |-> {"remote"}]

Method == {"required", "input_Path", "ip_multicast", "digits", "input_audio",
           "remote"}

(* The texts: a multicast address and one with more around it, a port, one *)
(* that is too large for an int, and one with more around it, a text the   *)
(* server accepts and one it refuses.                                      *)
Blank   == {"", " "}
Address == {"224.0.0.1", "en 224.0.0.1"}
Digits  == {"5000", "5000000000"}
Number  == Digits \cup {"5000 x"}
Free    == {"libre"}
Text    == Blank \cup Address \cup Number \cup Free \cup {"texto", "usado"}

ASSUME FormAssumption ==
  /\ Field \subseteq DOMAIN Rules
  /\ \A f \in Field : Cardinality(Rules[f] \ {"required"}) <= 1
  /\ FirstFormat \in Format
  /\ Typed \in [Field -> SUBSET Text]
  /\ None \notin Field \cup Text \cup {Select}

-----------------------------------------------------------------------------
VARIABLES
  loaded,          \* the form of the page: its elements
  value,           \* the text of each field
  format,          \* the value of the select
  hidden,          \* the fields that changeFormato() has hidden
  focus,           \* document.activeElement, when it is an element of the form
  page,            \* where the browser is
  lastActive,      \* validator.lastActive
  lastElement,     \* validator.lastElement
  submitted,       \* the names in validator.submitted
  invalid,         \* the names in validator.invalid
  marked,          \* the fields whose parent has the class "error"
  label,           \* the label of each field: its message while it is shown
  current,         \* validator.currentElements, of a form that asks the server
  old,             \* previousValue of each field: the text it asked about,
  valid,           \* and the answer that came last
  requests,        \* the texts that the requests under way are about
  pending,         \* the names in validator.pending
  pendingRequest,  \* validator.pendingRequest
  formSubmitted,   \* validator.formSubmitted
  running          \* what is left of the function that runs, or "idle"

screen == <<loaded, value, format, hidden>>
shown  == <<submitted, invalid, marked, label, current>>
asked  == <<old, valid, requests, pending, pendingRequest>>

Fields == loaded \ {Select}
Asking == {f \in Fields : "remote" \in Rules[f]}

Init ==
  /\ loaded \in Forms
  /\ value = [f \in Field |-> ""]
  /\ format = FirstFormat
  /\ hidden = {} /\ focus = None /\ page = "form"
  /\ lastActive = None /\ lastElement = None
  /\ submitted = {} /\ invalid = {} /\ marked = {} /\ current = {}
  /\ label = [f \in Field |-> "absent"]
  /\ old = [f \in Field |-> None]
  /\ valid = [f \in Field |-> TRUE]
  /\ requests = [f \in Field |-> {}]
  /\ pending = {} /\ pendingRequest = 0 /\ formSubmitted = FALSE
  /\ running = "idle"

Idle == page = "form" /\ running = "idle"

-----------------------------------------------------------------------------
(* The rules.                                                              *)
AudioRequired == {"H264_Video_Audio", "H264_Encoding_Video_Audio",
                  "H263_Video_Audio"}
AudioAccepted == {"H264_Video", "H263_Video", "H264_Encoding_Video",
                  "H263_Encoding_Video_WebCam", "H263_Encoding_Video_Screen"}
PathAccepted == {"H263_Encoding_Video_WebCam", "H263_Encoding_Video_Screen"}

(* Mutant of input_audio: an audio port that is needed may be left empty.  *)
AudioOptional(text) == \/ format \in AudioRequired /\ text \in Number \cup {""}
                       \/ format \in AudioAccepted

input_audio(text) == \/ format \in AudioRequired /\ text \in Number
                     \/ format \in AudioAccepted
input_Path(text)  == format \in PathAccepted \/ text # ""
required(text)    == text \notin Blank
optional(text)    == ~required(text)
ip_multicast(text) == optional(text) \/ text \in Address
digits(text)       == optional(text) \/ text \in Digits

(* remote(): a text that was asked about is not asked about again, also    *)
(* before its answer has come: the answer before is taken for it.          *)
remote(f) == optional(value[f]) \/ (old[f] = value[f] /\ valid[f])

Passes(method, f) ==
  \/ method = "required"     /\ required(value[f])
  \/ method = "input_Path"   /\ input_Path(value[f])
  \/ method = "ip_multicast" /\ ip_multicast(value[f])
  \/ method = "digits"       /\ digits(value[f])
  \/ method = "input_audio"  /\ input_audio(value[f])
  \/ method = "remote"       /\ remote(f)

(* rules(): what is required is checked first; no field has more than one  *)
(* rule besides.                                                           *)
First(methods) == IF "required" \in methods THEN "required"
                  ELSE CHOOSE method \in methods : TRUE

(* check(): the first rule that fails gives the message, or the field is   *)
(* "pending"; none fails when the result is "valid".                       *)
Failing(f) == {method \in Rules[f] : ~Passes(method, f)}
check(f) ==
  IF Failing(f) = {} THEN "valid"
  ELSE IF First(Failing(f)) = "remote" /\ old[f] # value[f] THEN "pending"
  ELSE First(Failing(f))

ErrorMap(fields)    == {f \in fields : check(f) \in Method}
Undecided(fields) == {f \in fields : check(f) = "pending"}

(* prepareElement() and prepareForm(): the labels there are, to hide, but  *)
(* for those of the fields that check() leaves pending.                    *)
ToHide(fields) == {f \in fields : label[f] # "absent" /\ check(f) # "pending"}

(* The labels once the errors of some fields are shown: a label is made    *)
(* when it is first needed, and hidden, not removed, afterwards.           *)
Labels(fields) ==
  LET hide == ToHide(fields)
      show == ErrorMap(fields)
  IN  [f \in Field |-> IF f \in show THEN check(f)
                       ELSE IF f \in hide THEN "hidden" ELSE label[f]]

(* highlight and unhighlight.                                              *)
Marks(fields) == (marked \ fields) \cup ErrorMap(fields)

(* Mutant of showErrors: the fields that are valid now stay marked.        *)
ShowErrorsOnly(fields) ==
  /\ marked' = marked \cup ErrorMap(fields)
  /\ label' = Labels(fields)
  /\ current' = IF Asking = {} THEN {} ELSE fields

(* defaultShowErrors().                                                    *)
showErrors(fields) ==
  /\ marked' = Marks(fields)
  /\ label' = Labels(fields)
  /\ current' = IF Asking = {} THEN {} ELSE fields

(* Mutant of startRequest: every request is counted.                       *)
CountRequests(fields) ==
  /\ pending' = pending \cup fields
  /\ pendingRequest' = pendingRequest + Cardinality(fields)

startRequest(fields) ==
  /\ pending' = pending \cup fields
  /\ pendingRequest' = pendingRequest + Cardinality(fields \ pending)

(* Mutant of UnderWay: the request before is not aborted.                  *)
UnderWayAlso(f) == requests[f] \cup {value[f]}

(* ajax mode "abort": a request takes the place of the one before.         *)
UnderWay(f) == {value[f]}

(* The requests that the checks of some fields make.                       *)
Ask(fields) ==
  LET new == Undecided(fields)
  IN  /\ old' = [f \in Field |-> IF f \in new THEN value[f] ELSE old[f]]
      /\ requests' = [f \in Field |-> IF f \in new THEN UnderWay(f)
                                      ELSE requests[f]]
      /\ startRequest(new)
      /\ UNCHANGED valid

(* element(): one field is checked; the select has no rules.               *)
element(e) ==
  LET checked == {e} \cap Fields
  IN  /\ lastElement' = e
      /\ submitted' = submitted \cup ErrorMap(checked)
      /\ invalid' = (invalid \ checked) \cup ErrorMap(checked)
      /\ showErrors(checked) /\ Ask(checked)

(* form(): every field with rules is checked; those that changeFormato()   *)
(* has hidden are invisible, but not :hidden, and are no exception.        *)
form ==
  /\ submitted' = submitted \cup ErrorMap(Fields)
  /\ invalid' = ErrorMap(Fields)
  /\ showErrors(Fields) /\ Ask(Fields)

-----------------------------------------------------------------------------
(* The events of an element.                                               *)
(* Mutant of Leaves: a field that was reported may be emptied.             *)
LeavesFilled(e) == e \in Field => ~optional(value[e])

Leaves(e) ==
  \/ e \in submitted
  \/ e = Select
  \/ e \in Field /\ ~optional(value[e])

(* onfocusout.                                                             *)
Leave(e) == IF e # None /\ Leaves(e) THEN element(e)
            ELSE UNCHANGED <<lastElement, shown, asked>>

FocusIn(e) ==
  /\ Idle /\ focus = None /\ e \in loaded \ hidden
  /\ focus' = e
  /\ lastActive' = e
  /\ UNCHANGED <<screen, page, lastElement, shown, asked, formSubmitted, running>>

FocusOut ==
  /\ Idle /\ focus # None
  /\ focus' = None
  /\ Leave(focus)
  /\ UNCHANGED <<screen, page, lastActive, formSubmitted, running>>

(* A key, or the mouse, changes the text of the field.                     *)
Type(text) ==
  /\ Idle /\ focus \in Fields \ ReadOnly
  /\ text \in Typed[focus]
  /\ value' = [value EXCEPT ![focus] = text]
  /\ UNCHANGED <<loaded, format, hidden, focus, page, lastActive, lastElement,
                 shown, asked, formSubmitted, running>>

(* The key is released: the tab that brought the user here checks nothing  *)
(* in an empty field.                                                      *)
KeyUp(tab) ==
  /\ Idle /\ focus # None
  /\ focus \in submitted \/ focus = lastElement
  /\ ~(tab /\ focus \in Field /\ value[focus] = "")
  /\ element(focus)
  /\ UNCHANGED <<screen, focus, page, lastActive, formSubmitted, running>>

-----------------------------------------------------------------------------
(* The submit event, of the button or of the enter key in a field, or of   *)
(* the validator itself when the last answer has come.                     *)
Submitting == (Idle /\ focus # Select) \/ running = "submit"

(* Mutant of Waits: a form with requests under way is sent.                *)
WaitsNever == FALSE

Waits == pendingRequest' > 0

(* The form is sent, or waits for the answers.                             *)
Submit ==
  /\ Submitting
  /\ ErrorMap(Fields) = {}
  /\ form
  /\ page' = IF Waits THEN "form" ELSE "sent"
  /\ formSubmitted' = (running = "idle" /\ (Waits \/ formSubmitted))
  /\ running' = "idle"
  /\ UNCHANGED <<screen, focus, lastActive, lastElement>>

(* focusInvalid(): the last active field when it is one of the invalid     *)
(* ones, the first of those otherwise.                                     *)
InvalidField ==
  IF lastActive \in ErrorMap(Fields) THEN lastActive
  ELSE Order[Min({i \in DOMAIN Order : Order[i] \in ErrorMap(Fields)})]

(* The form is kept, and the focus goes to an invalid field ...            *)
Refuse ==
  /\ Submitting
  /\ ErrorMap(Fields) # {}
  /\ form
  /\ lastActive' = InvalidField
  /\ formSubmitted' = (running = "idle" /\ formSubmitted)
  /\ running' = "focus"
  /\ UNCHANGED <<screen, focus, page, lastElement>>

(* ... so that the one the user was in is left, and checked like any field *)
(* that is left.                                                           *)
MoveFocus ==
  /\ running = "focus"
  /\ IF focus = lastActive THEN UNCHANGED <<lastElement, shown, asked>>
                           ELSE Leave(focus)
  /\ focus' = lastActive
  /\ running' = "idle"
  /\ UNCHANGED <<screen, page, lastActive, formSubmitted>>

-----------------------------------------------------------------------------
(* The answers of the server.                                              *)
(* Mutant of stopRequest: the field stays pending.                         *)
StopKeepsPending(f) ==
  /\ pendingRequest' = IF pendingRequest > 0 THEN pendingRequest - 1 ELSE 0
  /\ UNCHANGED pending

stopRequest(f) ==
  /\ pendingRequest' = IF pendingRequest > 0 THEN pendingRequest - 1 ELSE 0
  /\ pending' = pending \ {f}

(* A text is accepted: no element is current any more, so that no mark is  *)
(* taken away.  A form that has waited for this answer is checked again.   *)
Accepted(f, text) ==
  /\ Idle /\ text \in Free
  /\ requests' = [requests EXCEPT ![f] = @ \ {text}]
  /\ valid' = [valid EXCEPT ![f] = TRUE]
  /\ current' = {}
  /\ invalid' = invalid \ {f}
  /\ label' = [label EXCEPT ![f] = IF @ = "absent" THEN @ ELSE "hidden"]
  /\ stopRequest(f)
  /\ running' = IF pendingRequest' = 0 /\ formSubmitted THEN "form" ELSE "idle"
  /\ UNCHANGED <<screen, focus, page, lastActive, lastElement, submitted, marked,
                 old, formSubmitted>>

(* form() of stopRequest().                                                *)
CheckAgain ==
  /\ running = "form"
  /\ form
  /\ running' = IF ErrorMap(Fields) = {} THEN "submit" ELSE "idle"
  /\ UNCHANGED <<screen, focus, page, lastActive, lastElement, formSubmitted>>

(* A text is refused: its field is marked, and the elements checked last   *)
(* are taken for valid.                                                    *)
Refused(f, text) ==
  /\ Idle /\ text \notin Free
  /\ requests' = [requests EXCEPT ![f] = @ \ {text}]
  /\ valid' = [valid EXCEPT ![f] = FALSE]
  /\ invalid' = invalid \cup {f}
  /\ marked' = (marked \ current) \cup {f}
  /\ label' = [label EXCEPT ![f] = "remote"]
  /\ stopRequest(f)
  /\ formSubmitted' = (formSubmitted /\ pendingRequest' > 0)
  /\ UNCHANGED <<screen, focus, page, lastActive, lastElement, submitted, current,
                 old, running>>

(* A request fails: nobody is told.                                        *)
Fails(f, text) ==
  /\ Idle
  /\ requests' = [requests EXCEPT ![f] = @ \ {text}]
  /\ UNCHANGED <<screen, focus, page, lastActive, lastElement, shown, old, valid,
                 pending, pendingRequest, formSubmitted, running>>

ValidatorStep ==
  \/ \E e \in loaded : FocusIn(e)
  \/ FocusOut
  \/ \E text \in Text : Type(text)
  \/ \E tab \in BOOLEAN : KeyUp(tab)
  \/ Submit \/ Refuse \/ MoveFocus
  \/ \E f \in Asking : \E text \in requests[f] :
       Accepted(f, text) \/ Refused(f, text) \/ Fails(f, text)
  \/ CheckAgain

=============================================================================
