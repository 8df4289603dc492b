----------------------------- MODULE PagesProofs -----------------------------
(***************************************************************************)
(* What the pages promise.  The form that starts a media, for every form,  *)
(* every set of texts and every order of events: the requests are counted  *)
(* right, what the user sees agrees with what is kept, and what is sent    *)
(* can be used.  The slider, for every number of medias, every length of a *)
(* turn and every number of interval handles: one slide is seen, one clock *)
(* at most is running, and the button that is pressed is that of the slide *)
(* that is seen.                                                           *)
(***************************************************************************)
EXTENDS AddMediaForm, Orbit, FiniteSetTheorems, NaturalsInduction, TLAPS

(* What is kept of the requests of a field: only its last text is under    *)
(* way, while it is pending, and once it is not pending any more, what is  *)
(* kept as valid was accepted.                                             *)
AskInv ==
  /\ loaded \in Forms
  /\ value \in [Field -> Text]
  /\ old \in [Field -> Text \cup {None}]
  /\ valid \in [Field -> BOOLEAN]
  /\ requests \in [Field -> SUBSET Text]
  /\ pending \subseteq Asking
  /\ pendingRequest = Cardinality(pending)
  /\ \A f \in Field : requests[f] \subseteq {old[f]}
  /\ \A f \in Field : requests[f] # {} => f \in pending
  /\ \A f \in Field : f \notin pending /\ valid[f] => old[f] \in Free \cup {None}

IInv ==
  /\ AskInv
  /\ running # "idle" => page = "form"
  /\ SentIsAccepted

-----------------------------------------------------------------------------
LEMMA FieldsOfForm == ASSUME AskInv PROVE Asking \subseteq Fields /\ Fields \subseteq Field
BY DEF AskInv, Asking, Fields, Field

LEMMA AskingIsFinite == ASSUME AskInv PROVE IsFiniteSet(Asking)
<1>1. Asking \subseteq ({} \cup {"inputNombre"}) \cup {"inputCorreo"}
  BY FieldsOfForm, FormAssumption DEF Asking, Rules
<1>2. IsFiniteSet(({} \cup {"inputNombre"}) \cup {"inputCorreo"})
  BY FS_EmptySet, FS_AddElement
<1> QED
  BY <1>1, <1>2, FS_Subset

LEMMA RulesAreMethods == \A f \in DOMAIN Rules : Rules[f] \subseteq Method
BY DEF Rules, Method

LEMMA FirstIsIn == ASSUME NEW S, S # {} PROVE First(S) \in S
BY DEF First

(* The results of check().                                                 *)
LEMMA CheckResult ==
  ASSUME NEW f \in Field
  PROVE  /\ check(f) \in Method \cup {"valid", "pending"}
         /\ check(f) = "valid" => Failing(f) = {}
         /\ check(f) = "pending" => "remote" \in Rules[f] /\ old[f] # value[f]
<1>1. Failing(f) \subseteq Rules[f] /\ Rules[f] \subseteq Method
  BY FormAssumption, RulesAreMethods DEF Failing
<1>2. CASE Failing(f) = {}
  BY <1>2 DEF check
<1>3. CASE Failing(f) # {}
  <2>1. First(Failing(f)) \in Failing(f)
    BY <1>3, FirstIsIn
  <2>2. First(Failing(f)) \in Method
    BY <2>1, <1>1
  <2>3. First(Failing(f)) \notin {"valid", "pending"}
    BY <2>2 DEF Method
  <2> QED
    BY <1>3, <1>1, <2>1, <2>2, <2>3 DEF check
<1> QED
  BY <1>2, <1>3

(* Only fields that ask the server are left undecided.                     *)
LEMMA UndecidedAsk ==
  ASSUME AskInv, NEW fields, fields \subseteq Fields
  PROVE  Undecided(fields) \subseteq Asking
<1> SUFFICES ASSUME NEW f \in Undecided(fields) PROVE f \in Asking
  OBVIOUS
<1>1. f \in Fields /\ f \in Field /\ check(f) = "pending"
  BY FieldsOfForm DEF Undecided
<1> QED
  BY <1>1, CheckResult DEF Asking

(* What the requests of some fields change.                                *)
LEMMA AskKeeps ==
  ASSUME AskInv, NEW fields, fields \subseteq Fields, Ask(fields),
         UNCHANGED <<loaded, value>>
  PROVE  AskInv'
<1> DEFINE new == Undecided(fields)
<1>1. new \subseteq Asking /\ new \subseteq Field
  BY UndecidedAsk, FieldsOfForm
<1>2. Asking' = Asking
  BY DEF Asking, Fields
<1>3. /\ pending' = pending \cup new
      /\ pendingRequest' = pendingRequest + Cardinality(new \ pending)
      /\ valid' = valid
      /\ old' = [f \in Field |-> IF f \in new THEN value[f] ELSE old[f]]
      /\ requests' = [f \in Field |-> IF f \in new THEN {value[f]} ELSE requests[f]]
  BY DEF Ask, startRequest, UnderWay
<1>4. pendingRequest' = Cardinality(pending')
  <2>1. IsFiniteSet(pending) /\ IsFiniteSet(new)
    BY AskingIsFinite, <1>1, FS_Subset DEF AskInv
  <2>2. IsFiniteSet(new \ pending)
    BY <2>1, FS_Subset
  <2>3. pending \cup new = pending \cup (new \ pending) /\ pending \cap (new \ pending) = {}
    OBVIOUS
  <2>4. Cardinality(pending \cup (new \ pending))
          = Cardinality(pending) + Cardinality(new \ pending)
    <3>1. Cardinality(pending \cup (new \ pending))
            = Cardinality(pending) + Cardinality(new \ pending) - Cardinality({})
      BY <2>1, <2>2, <2>3, FS_Union
    <3> QED
      BY <3>1, <2>1, <2>2, FS_CardinalityType, FS_EmptySet
  <2> QED
    BY <2>3, <2>4, <1>3 DEF AskInv
<1> QED
  BY <1>1, <1>2, <1>3, <1>4 DEF AskInv

(* What the answer to a request changes of what is kept of its field.      *)
LEMMA StopKeeps ==
  ASSUME AskInv, NEW f \in Asking, NEW text \in requests[f], NEW ok \in BOOLEAN,
         ok => text \in Free,
         requests' = [requests EXCEPT ![f] = @ \ {text}],
         valid' = [valid EXCEPT ![f] = ok],
         stopRequest(f),
         UNCHANGED <<loaded, value, old>>
  PROVE  AskInv'
<1>1. f \in Field /\ Asking' = Asking /\ f \in pending
  BY FieldsOfForm DEF AskInv, Asking, Fields
<1>2. text = old[f] /\ requests'[f] = {}
  BY <1>1 DEF AskInv
<1>3. pending' = pending \ {f} /\ pendingRequest' = Cardinality(pending')
  <2>1. IsFiniteSet(pending)
    BY AskingIsFinite, FS_Subset DEF AskInv
  <2>2. Cardinality(pending \ {f}) = Cardinality(pending) - 1
    BY <1>1, <2>1, FS_RemoveElement
  <2>3. Cardinality(pending) \in Nat /\ Cardinality(pending \ {f}) \in Nat
    BY <2>1, FS_CardinalityType, FS_Subset
  <2> QED
    BY <2>2, <2>3 DEF AskInv, stopRequest
<1> QED
  BY <1>1, <1>2, <1>3 DEF AskInv

(* A request that fails.                                                   *)
LEMMA FailsKeeps ==
  ASSUME AskInv, NEW f \in Asking, NEW text \in requests[f], Fails(f, text)
  PROVE  AskInv'
<1>1. f \in Field /\ Asking' = Asking
  BY FieldsOfForm DEF AskInv, Asking, Fields, Fails, screen
<1> QED
  BY <1>1 DEF AskInv, Fails, screen

(* A form that is sent without waiting is valid, and nothing was asked.    *)
LEMMA SubmitValid ==
  ASSUME AskInv, AskInv', Submit, page' # "form"
  PROVE  /\ pending = {} /\ UNCHANGED <<loaded, value, format, hidden, old, valid>>
         /\ \A f \in Fields : check(f) = "valid"
<1>1. ErrorMap(Fields) = {} /\ Ask(Fields) /\ ~(pendingRequest' > 0)
        /\ UNCHANGED <<loaded, value, format, hidden>>
  BY DEF Submit, form, Waits, screen
<1>2. pending' = {} /\ pending = {} /\ Undecided(Fields) = {}
  <2>1. pending' = pending \cup Undecided(Fields)
    BY <1>1 DEF Ask, startRequest
  <2>2. IsFiniteSet(pending')
    BY <2>1, UndecidedAsk, AskingIsFinite, FS_Subset, FS_Union DEF AskInv
  <2>3. pending' = {}
    BY <1>1, <2>2, FS_CardinalityType, FS_EmptySet DEF AskInv
  <2> QED
    BY <2>1, <2>3
<1>3. UNCHANGED <<old, valid>>
  BY <1>1, <1>2 DEF Ask, AskInv
<1>4. \A f \in Fields : check(f) = "valid"
  BY <1>1, <1>2, FieldsOfForm, CheckResult DEF ErrorMap, Undecided
<1> QED
  BY <1>1, <1>2, <1>3, <1>4

(* The result of check() depends on these variables only.                  *)
LEMMA CheckDepends ==
  ASSUME UNCHANGED <<value, format, old, valid>>, NEW f
  PROVE  check(f)' = check(f)
BY DEF check, Failing, Passes, remote, input_audio, input_Path, ip_multicast, digits,
       optional, required

(* A form that is sent without waiting has been accepted by the server.    *)
LEMMA SubmitAccepted ==
  ASSUME AskInv, AskInv', Submit, page' # "form"
  PROVE  SentIsAccepted'
<1>1. pending = {} /\ UNCHANGED <<loaded, value, format, old, valid>>
  BY SubmitValid
<1> SUFFICES ASSUME NEW f \in Asking PROVE Truth(f)' = "valid"
  BY <1>1 DEF SentIsAccepted, Asking, Fields
<1>2. f \in Fields /\ f \in Field /\ "remote" \in Rules[f]
  BY FieldsOfForm DEF Asking
<1>3. check(f) = "valid" /\ check(f)' = "valid" /\ Failing(f) = {}
  BY <1>1, <1>2, SubmitValid, CheckDepends, CheckResult
<1>4. remote(f)
  BY <1>2, <1>3 DEF Failing, Passes
<1>5. required(value[f]) => value[f] \in Free
  <2>1. value[f] # None
    BY <1>2, FormAssumption DEF AskInv
  <2> QED
    BY <1>1, <1>2, <1>4, <2>1 DEF remote, optional, AskInv
<1> QED
  BY <1>1, <1>3, <1>5 DEF Truth, required

-----------------------------------------------------------------------------
LEMMA InitInv == Init => IInv
<1> SUFFICES ASSUME Init PROVE IInv
  OBVIOUS
<1>1. "" \in Text
  BY DEF Text, Blank
<1> QED
  BY <1>1, FS_EmptySet DEF Init, IInv, AskInv, SentIsAccepted

(* A step that checks nothing and asks nothing while the form is there.    *)
LEMMA QuietKeeps ==
  ASSUME AskInv, UNCHANGED <<loaded, asked>>, value' \in [Field -> Text]
  PROVE  AskInv'
BY DEF AskInv, asked, Asking, Fields

(* Leaving an element checks it, or nothing.                               *)
LEMMA ElementKeeps ==
  ASSUME AskInv, NEW e, element(e), UNCHANGED <<loaded, value>>
  PROVE  AskInv'
BY AskKeeps, {e} \cap Fields \subseteq Fields DEF element

LEMMA LeaveKeeps ==
  ASSUME AskInv, NEW e, Leave(e), UNCHANGED <<loaded, value>>
  PROVE  AskInv'
BY ElementKeeps, QuietKeeps DEF Leave, AskInv

LEMMA FormKeeps ==
  ASSUME AskInv, form, UNCHANGED <<loaded, value>>
  PROVE  AskInv'
BY AskKeeps DEF form

(* The validator and the scripts of the page run while the form is there.  *)
LEMMA StepAsk == AskInv /\ [Next]_vars => AskInv'
<1> SUFFICES ASSUME AskInv, [Next]_vars PROVE AskInv'
  OBVIOUS
<1> USE DEF screen
<1>1. CASE UNCHANGED vars
  BY <1>1, QuietKeeps DEF vars, AskInv
<1>2. ASSUME NEW e \in loaded, FocusIn(e) PROVE AskInv'
  BY <1>2, QuietKeeps DEF FocusIn, AskInv
<1>3. CASE FocusOut
  BY <1>3, LeaveKeeps DEF FocusOut
<1>4. ASSUME NEW text \in Text, Type(text) PROVE AskInv'
  BY <1>4, QuietKeeps DEF Type, AskInv
<1>5. ASSUME NEW tab \in BOOLEAN, KeyUp(tab) PROVE AskInv'
  BY <1>5, ElementKeeps DEF KeyUp
<1>6. CASE Submit
  BY <1>6, FormKeeps DEF Submit
<1>7. CASE Refuse
  BY <1>7, FormKeeps DEF Refuse
<1>8. CASE MoveFocus
  BY <1>8, LeaveKeeps, QuietKeeps DEF MoveFocus, AskInv
<1>9. ASSUME NEW f \in Asking, NEW text \in requests[f], Accepted(f, text) PROVE AskInv'
  BY <1>9, StopKeeps DEF Accepted
<1>10. ASSUME NEW f \in Asking, NEW text \in requests[f], Refused(f, text) PROVE AskInv'
  BY <1>10, StopKeeps DEF Refused
<1>11. ASSUME NEW f \in Asking, NEW text \in requests[f], Fails(f, text) PROVE AskInv'
  BY <1>11, FailsKeeps
<1>12. CASE CheckAgain
  BY <1>12, FormKeeps DEF CheckAgain
<1>13. ASSUME NEW f \in ReadOnly, NEW text \in Text, PickFile(f, text) PROVE AskInv'
  BY <1>13, QuietKeeps DEF PickFile, AskInv
<1>14. ASSUME NEW k \in Format, ChangeFormat(k) PROVE AskInv'
  BY <1>14, QuietKeeps DEF ChangeFormat, AskInv
<1>15. CASE AddMedia
  BY <1>15, QuietKeeps DEF AddMedia, AskInv
<1> QED
  BY <1>1, <1>2, <1>3, <1>4, <1>5, <1>6, <1>7, <1>8, <1>9, <1>10, <1>11, <1>12,
     <1>13, <1>14, <1>15 DEF Next, ValidatorStep

(* A page that has sent its form changes nothing any more but where it is. *)
LEMMA SentStays ==
  ASSUME [Next]_vars, running # "idle" => page = "form", page # "form"
  PROVE  /\ UNCHANGED <<loaded, value, format, hidden, old, valid, running>>
         /\ AddMedia \/ page' = page
BY DEF vars, screen, asked, Next, ValidatorStep, FocusIn, FocusOut, Type, KeyUp, Submit,
       Submitting, Refuse, MoveFocus, Accepted, Refused, Fails, CheckAgain, PickFile,
       ChangeFormat, AddMedia, Idle

(* Only a form that is submitted leaves the page.                          *)
LEMMA SubmitSends ==
  ASSUME [Next]_vars, page = "form", page' # "form"
  PROVE  Submit /\ running' = "idle" /\ page' = "sent"
BY DEF vars, Next, ValidatorStep, FocusIn, FocusOut, Type, KeyUp, Submit, Submitting,
       Refuse, MoveFocus, Accepted, Refused, Fails, CheckAgain, PickFile, ChangeFormat,
       AddMedia, Idle

LEMMA StepSent == IInv /\ AskInv' /\ [Next]_vars => IInv'
<1> SUFFICES ASSUME IInv, AskInv', [Next]_vars PROVE IInv'
  OBVIOUS
<1>1. CASE page # "form"
  <2>1. UNCHANGED <<loaded, value, format, old, valid, running>> /\ page' # "form"
    BY <1>1, SentStays DEF IInv, AddMedia
  <2>2. \A f \in Asking : Truth(f)' = Truth(f)
    BY <2>1, CheckDepends DEF Truth, Asking, Fields, required
  <2>3. Asking' = Asking
    BY <2>1 DEF Asking, Fields
  <2> QED
    BY <1>1, <2>1, <2>2, <2>3 DEF IInv, SentIsAccepted
<1>2. CASE page = "form" /\ page' # "form"
  BY <1>2, SubmitSends, SubmitAccepted DEF IInv
<1>3. CASE page' = "form"
  BY <1>3 DEF IInv, SentIsAccepted
<1> QED
  BY <1>1, <1>2, <1>3

-----------------------------------------------------------------------------
LEMMA Invariance == Spec => []IInv
<1>1. IInv /\ [Next]_vars => IInv'
  BY StepAsk, StepSent DEF IInv
<1> QED
  BY InitInv, <1>1, PTL DEF Spec

(* The validator knows how many answers it waits for: startRequest() and   *)
(* stopRequest() are called in pairs, and the guard against a negative     *)
(* count is never needed (jquery.validate.js:774-793).                     *)
THEOREM RequestsAreCounted == Spec => []PendingIsCounted
<1>1. IInv => PendingIsCounted
  BY DEF IInv, AskInv, PendingIsCounted
<1> QED
  BY Invariance, <1>1, PTL

(* Whatever was typed, left and answered in whatever order, a form is sent *)
(* with texts the server has accepted only                                 *)
(* (jquery.validate.js:58-78, 774-793 and 1003-1054).                      *)
THEOREM OnlyAcceptedIsSent == Spec => []SentIsAccepted
<1>1. IInv => SentIsAccepted
  BY DEF IInv
<1> QED
  BY Invariance, <1>1, PTL

(* A form that asks the server is sent when all its answers have come, and *)
(* they are about the texts that are sent (jquery.validate.js:774-793 and  *)
(* 1003-1054).                                                             *)
THEOREM AllAnswersAreAwaited == Spec => []AnswersAreAwaited
<1>1. PendingIsCounted /\ SentIsAccepted => AnswersAreAwaited
  BY DEF AnswersAreAwaited
<1> QED
  BY <1>1, RequestsAreCounted, OnlyAcceptedIsSent, PTL

-----------------------------------------------------------------------------
(***************************************************************************)
(* Type correctness, and what the user is shown.                           *)
(***************************************************************************)
LEMMA MinIsIn == ASSUME NEW S, S \subseteq 1 .. 8, S # {} PROVE Min(S) \in S
<1>1. \E x \in S : \A y \in S : x <= y
  <2> DEFINE R == {p \in Nat \X Nat : p[1] < p[2]}
  <2>1. IsWellFoundedOn(R, Nat)
    BY NatLessThanWellFounded DEF OpToRel
  <2>2. S \subseteq Nat
    OBVIOUS
  <2> HIDE DEF R
  <2>3. PICK x \in S : \A y \in S : ~(<<y, x>> \in R)
    BY <2>1, <2>2, WFMin
  <2> QED
    BY <2>2, <2>3 DEF R
<1> QED
  BY <1>1 DEF Min

(* The field that takes the focus is one of those with an error.           *)
LEMMA InvalidFieldIsIn ==
  ASSUME AskInv, ErrorMap(Fields) # {}
  PROVE  InvalidField \in Fields
<1> DEFINE S == {i \in DOMAIN Order : Order[i] \in ErrorMap(Fields)}
<1>1. ErrorMap(Fields) \subseteq Fields /\ Fields \subseteq DOMAIN Rules
  BY FieldsOfForm, FormAssumption DEF ErrorMap
<1>2. \A f \in DOMAIN Rules : \E i \in DOMAIN Order : Order[i] = f
  BY DEF Rules, Order
<1>3. S # {} /\ S \subseteq 1 .. 8
  BY <1>1, <1>2 DEF Order
<1>4. Min(S) \in S
  BY <1>3, MinIsIn
<1> QED
  BY <1>1, <1>4 DEF InvalidField

(* What is kept of the fields that were checked, and what is shown.        *)
ShowInv ==
  /\ submitted \subseteq Fields /\ invalid \subseteq Fields
  /\ marked \subseteq Fields /\ current \subseteq Fields
  /\ label \in [Field -> Method \cup {"absent", "hidden"}]
  /\ MarksFitInvalid

(* Where the user and the page are.                                        *)
PlaceInv ==
  /\ format \in Format
  /\ focus \in loaded \cup {None} /\ lastActive \in loaded \cup {None}
  /\ lastElement \in loaded \cup {None}
  /\ formSubmitted \in BOOLEAN
  /\ page \in {"form", "sent", "admin", "error"}
  /\ running \in {"idle", "form", "submit", "focus"}

(* What is hidden follows from the format.                                 *)
HiddenInv ==
  /\ hidden \subseteq Fields
  /\ "inputPath" \in hidden => format \in HidesPath
  /\ "inputPuertoAudio" \in Fields =>
       ("inputPuertoAudio" \in hidden <=> format \in HidesAudio)
  /\ hidden \subseteq {"inputPath", "inputPuertoAudio"}

(* Fields are checked and their errors shown.                              *)
LEMMA ShowKeeps ==
  ASSUME AskInv, ShowInv, NEW fields, fields \subseteq Fields,
         submitted' = submitted \cup ErrorMap(fields),
         invalid' = (invalid \ fields) \cup ErrorMap(fields),
         showErrors(fields), Ask(fields), UNCHANGED loaded
  PROVE  ShowInv'
<1> DEFINE hide == ToHide(fields)
           show == ErrorMap(fields)
<1>1. Fields' = Fields /\ Asking' = Asking /\ Fields \subseteq Field
  BY FieldsOfForm DEF Fields, Asking
<1>2. /\ marked' = (marked \ fields) \cup show
      /\ current' \subseteq Fields
      /\ label' = [f \in Field |-> IF f \in show THEN check(f)
                                   ELSE IF f \in hide THEN "hidden" ELSE label[f]]
      /\ pending' = pending \cup Undecided(fields)
  BY DEF showErrors, Marks, Labels, Ask, startRequest
<1>3. show \subseteq fields /\ hide \subseteq fields
  BY DEF ErrorMap, ToHide
<1>4. label' \in [Field -> Method \cup {"absent", "hidden"}]
  BY <1>2 DEF ShowInv, ErrorMap
<1>5. ASSUME NEW f \in Fields, f \notin pending'
      PROVE  f \in invalid' <=> label'[f] \in Method
  <2>1. f \in Field /\ f \notin pending
    BY <1>1, <1>2, <1>5
  <2>2. CASE f \notin fields
    BY <1>2, <1>3, <2>1, <2>2 DEF ShowInv, MarksFitInvalid
  <2>3. CASE f \in show
    BY <1>2, <2>1, <2>3 DEF ErrorMap
  <2>4. CASE f \in fields /\ f \notin show
    <3>1. check(f) # "pending"
      BY <1>2, <1>5, <2>4 DEF Undecided
    <3>2. f \notin invalid' /\ label'[f] \in {"absent", "hidden"}
      BY <1>2, <2>1, <2>4, <3>1 DEF ToHide
    <3> QED
      BY <3>2 DEF Method
  <2> QED
    BY <2>2, <2>3, <2>4
<1>6. Asking = {} => marked' = invalid'
  BY <1>2 DEF ShowInv, MarksFitInvalid
<1> QED
  BY <1>1, <1>2, <1>3, <1>4, <1>5, <1>6 DEF ShowInv, MarksFitInvalid

LEMMA ElementShows ==
  ASSUME AskInv, ShowInv, NEW e, element(e), UNCHANGED loaded
  PROVE  ShowInv'
BY ShowKeeps, {e} \cap Fields \subseteq Fields DEF element

LEMMA NothingShown ==
  ASSUME ShowInv, UNCHANGED <<loaded, shown, pending>>
  PROVE  ShowInv'
BY DEF ShowInv, shown, MarksFitInvalid, Fields, Asking

LEMMA LeaveShows ==
  ASSUME AskInv, ShowInv, NEW e, Leave(e), UNCHANGED loaded
  PROVE  ShowInv'
BY ElementShows, NothingShown DEF Leave, asked

LEMMA FormShows ==
  ASSUME AskInv, ShowInv, form, UNCHANGED loaded
  PROVE  ShowInv'
<1>1. invalid' = (invalid \ Fields) \cup ErrorMap(Fields)
  BY DEF form, ShowInv
<1> QED
  BY <1>1, ShowKeeps DEF form

LEMMA AcceptedShows ==
  ASSUME AskInv, ShowInv, NEW f \in Asking, NEW text, Accepted(f, text)
  PROVE  ShowInv'
<1>1. f \in Field /\ Fields' = Fields /\ Asking' = Asking /\ Fields \subseteq Field
  BY FieldsOfForm DEF Accepted, screen, Fields, Asking
<1>2. /\ label' = [label EXCEPT ![f] = IF @ = "absent" THEN @ ELSE "hidden"]
      /\ invalid' = invalid \ {f} /\ pending' = pending \ {f} /\ current' = {}
      /\ UNCHANGED <<submitted, marked>>
  BY DEF Accepted, stopRequest
<1>3. label'[f] \notin Method /\ label' \in [Field -> Method \cup {"absent", "hidden"}]
  BY <1>1, <1>2 DEF ShowInv, Method
<1>4. \A g \in Fields : g # f => label'[g] = label[g]
  BY <1>1, <1>2 DEF ShowInv
<1> QED
  BY <1>1, <1>2, <1>3, <1>4 DEF ShowInv, MarksFitInvalid

LEMMA RefusedShows ==
  ASSUME AskInv, ShowInv, NEW f \in Asking, NEW text, Refused(f, text)
  PROVE  ShowInv'
<1>1. f \in Fields /\ f \in Field /\ Fields' = Fields /\ Asking' = Asking
  BY FieldsOfForm DEF Refused, screen, Fields, Asking
<1>2. /\ label' = [label EXCEPT ![f] = "remote"]
      /\ invalid' = invalid \cup {f} /\ pending' = pending \ {f}
      /\ marked' = (marked \ current) \cup {f}
      /\ UNCHANGED <<submitted, current>>
  BY DEF Refused, stopRequest
<1>3. label'[f] \in Method /\ label' \in [Field -> Method \cup {"absent", "hidden"}]
  BY <1>1, <1>2 DEF ShowInv, Method
<1>4. \A g \in Fields : g # f => label'[g] = label[g]
  BY <1>1, <1>2, FieldsOfForm DEF ShowInv
<1> QED
  BY <1>1, <1>2, <1>3, <1>4 DEF ShowInv, MarksFitInvalid

LEMMA StepShow == AskInv /\ ShowInv /\ [Next]_vars => ShowInv'
<1> SUFFICES ASSUME AskInv, ShowInv, [Next]_vars PROVE ShowInv'
  OBVIOUS
<1> USE DEF screen
<1>1. CASE UNCHANGED vars
  BY <1>1, NothingShown DEF vars, asked
<1>2. ASSUME NEW e \in loaded, FocusIn(e) PROVE ShowInv'
  BY <1>2, NothingShown DEF FocusIn, asked
<1>3. CASE FocusOut
  BY <1>3, LeaveShows DEF FocusOut
<1>4. ASSUME NEW text \in Text, Type(text) PROVE ShowInv'
  BY <1>4, NothingShown DEF Type, asked
<1>5. ASSUME NEW tab \in BOOLEAN, KeyUp(tab) PROVE ShowInv'
  BY <1>5, ElementShows DEF KeyUp
<1>6. CASE Submit
  BY <1>6, FormShows DEF Submit
<1>7. CASE Refuse
  BY <1>7, FormShows DEF Refuse
<1>8. CASE MoveFocus
  BY <1>8, LeaveShows, NothingShown DEF MoveFocus, asked
<1>9. ASSUME NEW f \in Asking, NEW text \in requests[f], Accepted(f, text) PROVE ShowInv'
  BY <1>9, AcceptedShows
<1>10. ASSUME NEW f \in Asking, NEW text \in requests[f], Refused(f, text) PROVE ShowInv'
  BY <1>10, RefusedShows
<1>11. ASSUME NEW f \in Asking, NEW text \in requests[f], Fails(f, text) PROVE ShowInv'
  BY <1>11, NothingShown DEF Fails
<1>12. CASE CheckAgain
  BY <1>12, FormShows DEF CheckAgain
<1>13. ASSUME NEW f \in ReadOnly, NEW text \in Text, PickFile(f, text) PROVE ShowInv'
  BY <1>13, NothingShown DEF PickFile, asked
<1>14. ASSUME NEW k \in Format, ChangeFormat(k) PROVE ShowInv'
  BY <1>14, NothingShown DEF ChangeFormat, asked
<1>15. CASE AddMedia
  BY <1>15, NothingShown DEF AddMedia, asked
<1> QED
  BY <1>1, <1>2, <1>3, <1>4, <1>5, <1>6, <1>7, <1>8, <1>9, <1>10, <1>11, <1>12,
     <1>13, <1>14, <1>15 DEF Next, ValidatorStep

LEMMA StepPlace == AskInv /\ PlaceInv /\ [Next]_vars => PlaceInv'
<1> SUFFICES ASSUME AskInv, PlaceInv, [Next]_vars PROVE PlaceInv'
  OBVIOUS
<1> USE DEF screen, PlaceInv
<1>1. CASE UNCHANGED vars
  BY <1>1 DEF vars
<1>2. ASSUME NEW e \in loaded, FocusIn(e) PROVE PlaceInv'
  BY <1>2 DEF FocusIn
<1>3. CASE FocusOut
  BY <1>3 DEF FocusOut, Leave, element
<1>4. ASSUME NEW text \in Text, Type(text) PROVE PlaceInv'
  BY <1>4 DEF Type
<1>5. ASSUME NEW tab \in BOOLEAN, KeyUp(tab) PROVE PlaceInv'
  BY <1>5 DEF KeyUp, element
<1>6. CASE Submit
  BY <1>6 DEF Submit
<1>7. CASE Refuse
  BY <1>7, InvalidFieldIsIn DEF Refuse, Fields
<1>8. CASE MoveFocus
  BY <1>8 DEF MoveFocus, Leave, element
<1>9. ASSUME NEW f \in Asking, NEW text \in requests[f], Accepted(f, text) PROVE PlaceInv'
  BY <1>9 DEF Accepted
<1>10. ASSUME NEW f \in Asking, NEW text \in requests[f], Refused(f, text) PROVE PlaceInv'
  BY <1>10 DEF Refused
<1>11. ASSUME NEW f \in Asking, NEW text \in requests[f], Fails(f, text) PROVE PlaceInv'
  BY <1>11 DEF Fails
<1>12. CASE CheckAgain
  BY <1>12 DEF CheckAgain
<1>13. ASSUME NEW f \in ReadOnly, NEW text \in Text, PickFile(f, text) PROVE PlaceInv'
  BY <1>13 DEF PickFile
<1>14. ASSUME NEW k \in Format, ChangeFormat(k) PROVE PlaceInv'
  BY <1>14 DEF ChangeFormat
<1>15. CASE AddMedia
  BY <1>15 DEF AddMedia
<1> QED
  BY <1>1, <1>2, <1>3, <1>4, <1>5, <1>6, <1>7, <1>8, <1>9, <1>10, <1>11, <1>12,
     <1>13, <1>14, <1>15 DEF Next, ValidatorStep

LEMMA StepHidden == AskInv /\ HiddenInv /\ PlaceInv /\ [Next]_vars => HiddenInv'
<1> SUFFICES ASSUME HiddenInv, PlaceInv, [Next]_vars PROVE HiddenInv'
  OBVIOUS
<1>1. CASE UNCHANGED <<loaded, format, hidden>>
  BY <1>1 DEF HiddenInv, Fields
<1>2. ASSUME NEW k \in Format, ChangeFormat(k) PROVE HiddenInv'
  BY <1>2, FormatAssumption
     DEF ChangeFormat, HiddenInv, HiddenFor, Fields, screen, HidesAudio, ShowsAudio
<1> QED
  BY <1>1, <1>2 DEF vars, screen, Next, ValidatorStep, FocusIn, FocusOut, Type, KeyUp,
     Submit, Refuse, MoveFocus, Accepted, Refused, Fails, CheckAgain, PickFile, AddMedia

LEMMA AllInvariance == Spec => [](AskInv /\ ShowInv /\ PlaceInv /\ HiddenInv)
<1>1. Init => AskInv /\ ShowInv /\ PlaceInv /\ HiddenInv
  <2> SUFFICES ASSUME Init PROVE ShowInv /\ PlaceInv /\ HiddenInv
    BY InitInv DEF IInv
  <2>1. \A f \in Field : label[f] \notin Method
    BY DEF Init, Method
  <2> QED
    BY <2>1, FormAssumption, FormatAssumption, InitInv, FieldsOfForm
       DEF Init, IInv, ShowInv, PlaceInv, HiddenInv, MarksFitInvalid, HidesAudio, ShowsAudio
<1>2. AskInv /\ ShowInv /\ PlaceInv /\ HiddenInv /\ [Next]_vars
        => (AskInv /\ ShowInv /\ PlaceInv /\ HiddenInv)'
  BY StepAsk, StepShow, StepPlace, StepHidden
<1> QED
  BY <1>1, <1>2, PTL DEF Spec

(* Type correctness of the validator and the page.                         *)
THEOREM FormTypes == Spec => []TypeOK
<1>1. AskInv /\ ShowInv /\ PlaceInv /\ HiddenInv => TypeOK
  <2> SUFFICES ASSUME AskInv, ShowInv, PlaceInv, HiddenInv PROVE TypeOK
    OBVIOUS
  <2>1. pendingRequest \in Nat
    BY AskingIsFinite, FS_Subset, FS_CardinalityType DEF AskInv
  <2> QED
    BY <2>1 DEF AskInv, ShowInv, PlaceInv, HiddenInv, TypeOK
<1> QED
  BY AllInvariance, <1>1, PTL

(* What the user is shown of a field agrees with what the validator keeps  *)
(* of it, in every form and after every order of events                    *)
(* (jquery.validate.js:344-381, 637-662 and 1032-1051).                    *)
THEOREM ShownIsKept == Spec => []MarksFitInvalid
<1>1. ShowInv => MarksFitInvalid
  BY DEF ShowInv
<1> QED
  BY AllInvariance, <1>1, PTL

(* No form is kept for a field that changeFormato() has hidden: its lists  *)
(* of formats agree with those of the rules                                *)
(* (app.js:67-97, jquery.validate.check.js:7-39).                          *)
THEOREM NothingHiddenIsInvalid == Spec => []InvalidIsVisible
<1>1. AskInv /\ HiddenInv => InvalidIsVisible
  <2> SUFFICES ASSUME AskInv, HiddenInv, NEW f \in hidden PROVE check(f) = "valid"
    BY DEF InvalidIsVisible, ErrorMap, Method
  <2>1. CASE f = "inputPath"
    <3>1. Rules[f] = {"input_Path"} /\ Passes("input_Path", f)
      BY <2>1 DEF HiddenInv, Rules, Passes, input_Path, HidesPath, PathAccepted
    <3> QED
      BY <3>1 DEF check, Failing
  <2>2. CASE f = "inputPuertoAudio"
    <3>1. Rules[f] = {"input_audio"} /\ Passes("input_audio", f)
      BY <2>2 DEF HiddenInv, Rules, Passes, input_audio, HidesAudio, AudioAccepted
    <3> QED
      BY <3>1 DEF check, Failing
  <2> QED
    BY <2>1, <2>2 DEF HiddenInv
<1> QED
  BY AllInvariance, <1>1, PTL

-----------------------------------------------------------------------------
(***************************************************************************)
(* What the servlet is sent.                                               *)
(***************************************************************************)
(* A form that has left the page passed every rule, and where the browser  *)
(* is then tells what the servlet made of it.                              *)
SentInv ==
  page # "form" =>
    /\ \A f \in Fields : Failing(f) = {}
    /\ page = "admin" => ~AddMediaFails
    /\ page = "error" => AddMediaFails

LEMMA StepSentInv ==
  IInv /\ AskInv' /\ PlaceInv' /\ SentInv /\ [Next]_vars => SentInv'
<1> SUFFICES ASSUME IInv, AskInv', PlaceInv', SentInv, [Next]_vars, page' # "form"
             PROVE  SentInv'
  BY DEF SentInv
<1>1. CASE page # "form"
  <2>1. /\ UNCHANGED <<loaded, value, format, hidden, old, valid>>
        /\ AddMedia \/ page' = page
    BY <1>1, SentStays DEF IInv
  <2>2. Fields' = Fields /\ AddMediaFails' = AddMediaFails
    BY <2>1 DEF Fields, AddMediaFails, Has
  <2>3. \A f \in Fields : Failing(f)' = Failing(f)
    BY <2>1 DEF Failing, Passes, remote, input_audio, input_Path, ip_multicast, digits,
                optional, required
  <2>4. page' = page \/ page' = IF AddMediaFails THEN "error" ELSE "admin"
    BY <2>1 DEF AddMedia
  <2> QED
    BY <1>1, <2>2, <2>3, <2>4 DEF SentInv
<1>2. CASE page = "form"
  <2>1. Submit /\ page' = "sent"
    BY <1>2, SubmitSends
  <2>2. /\ UNCHANGED <<loaded, value, format, hidden, old, valid>>
        /\ \A f \in Fields : check(f) = "valid"
    BY <2>1, SubmitValid DEF IInv
  <2>3. Fields' = Fields /\ \A f \in Fields : Failing(f)' = Failing(f)
    BY <2>2 DEF Fields, Failing, Passes, remote, input_audio, input_Path, ip_multicast,
                digits, optional, required
  <2>4. \A f \in Fields : Failing(f) = {}
    BY <2>2, FieldsOfForm, CheckResult DEF IInv
  <2> QED
    BY <2>1, <2>3, <2>4 DEF SentInv
<1> QED
  BY <1>1, <1>2

LEMMA SentInvariance == Spec => [](IInv /\ HiddenInv /\ SentInv)
<1>1. Init => SentInv
  BY DEF Init, SentInv
<1>2. IInv /\ AskInv' /\ PlaceInv' /\ SentInv /\ [Next]_vars => SentInv'
  BY StepSentInv
<1>3. IInv => AskInv
  BY DEF IInv
<1> QED
  BY <1>1, <1>2, <1>3, Invariance, AllInvariance, PTL DEF Spec

(* What a rule that has passed says of the text of its field.              *)
LEMMA PassedRule ==
  ASSUME NEW f, Failing(f) = {}, NEW method \in Rules[f]
  PROVE  Passes(method, f)
BY DEF Failing

LEMMA RulesOfMedia ==
  /\ Rules["inputTitulo"] = {"required"}
  /\ Rules["inputPath"] = {"input_Path"}
  /\ Rules["inputImagen"] = {"required"}
  /\ Rules["inputIPMC"] = {"required", "ip_multicast"}
  /\ Rules["inputPuertoVideo"] = {"required", "digits"}
  /\ Rules["inputPuertoAudio"] = {"input_audio"}
BY DEF Rules

(* A media that was added has all its format needs                         *)
(* (jquery.validate.check.js:3-66, AddMedia.java:107-139).                 *)
THEOREM AddedMediaIsComplete == Spec => []AddedIsComplete
<1>1. IInv /\ HiddenInv /\ SentInv => AddedIsComplete
  <2> SUFFICES ASSUME IInv, SentInv, page = "admin" PROVE AddedIsComplete
    BY DEF AddedIsComplete
  <2>1. /\ \A f \in Fields : Failing(f) = {} /\ f \in Field /\ value[f] \in Text
        /\ ~AddMediaFails
    BY FieldsOfForm DEF SentInv, IInv, AskInv
  <2>2. Has("inputTitulo", Text \ Blank)
    BY <2>1, PassedRule, RulesOfMedia DEF Has, Passes, required
  <2>3. Has("inputIPMC", Address)
    <3>1. "inputIPMC" \in Fields =>
            Passes("required", "inputIPMC") /\ Passes("ip_multicast", "inputIPMC")
      BY <2>1, PassedRule, RulesOfMedia
    <3> QED
      BY <3>1 DEF Has, Passes, required, ip_multicast, optional
  <2>4. Has("inputPath", IF format \in PathAccepted THEN Text ELSE Text \ {""})
    <3>1. "inputPath" \in Fields => Passes("input_Path", "inputPath")
      BY <2>1, PassedRule, RulesOfMedia
    <3>2. Passes("input_Path", "inputPath") => input_Path(value["inputPath"])
      BY DEF Passes
    <3> QED  BY <2>1, <3>1, <3>2 DEF Has, input_Path
  <2>5. Has("inputPuertoAudio", IF format \in AudioRequired THEN ParsesAsInt
                                ELSE ParsesAsInt \cup {""})
    <3>1. "inputPuertoAudio" \in Fields =>
            /\ Passes("input_audio", "inputPuertoAudio")
            /\ value["inputPuertoAudio"] \in ParsesAsInt \cup {""}
      BY <2>1, PassedRule, RulesOfMedia DEF AddMediaFails, Has
    <3>2. AudioRequired \cap AudioAccepted = {} /\ "" \notin Number
      BY DEF AudioRequired, AudioAccepted, Number, Digits
    <3> QED
      BY <3>1, <3>2 DEF Has, Passes, input_audio
  <2> QED
    BY <2>2, <2>3, <2>4, <2>5 DEF AddedIsComplete
<1> QED
  BY SentInvariance, <1>1, PTL

(* What the validator lets through the servlet takes, but for the texts    *)
(* that are named                                                          *)
(* (jquery.validate.check.js:3-66, AddMedia.java:107-139).                 *)
THEOREM SentFormIsAdded == Spec => []SentIsAdded
<1>1. IInv /\ HiddenInv /\ SentInv => SentIsAdded
  <2> SUFFICES ASSUME IInv, HiddenInv, SentInv, page = "error" PROVE SentIsAdded
    BY DEF SentIsAdded
  <2>1. /\ \A f \in Fields : Failing(f) = {} /\ f \in Field /\ value[f] \in Text
        /\ AddMediaFails
    BY FieldsOfForm DEF SentInv, IInv, AskInv
  <2>2. CASE ~Has("inputPuertoVideo", ParsesAsInt)
    <3>1. /\ "inputPuertoVideo" \in Fields
          /\ value["inputPuertoVideo"] \notin ParsesAsInt
      BY <2>2 DEF Has
    <3>2. /\ Passes("required", "inputPuertoVideo")
          /\ Passes("digits", "inputPuertoVideo")
      BY <2>1, <3>1, PassedRule, RulesOfMedia
    <3>3. value["inputPuertoVideo"] = "5000000000"
      BY <3>1, <3>2 DEF Passes, required, digits, optional, Digits, ParsesAsInt
    <3> QED
      BY <3>1, <3>3 DEF SentIsAdded, Has
  <2>3. CASE ~Has("inputPuertoAudio", ParsesAsInt \cup {""})
    <3>1. /\ "inputPuertoAudio" \in Fields
          /\ value["inputPuertoAudio"] \notin ParsesAsInt \cup {""}
      BY <2>3 DEF Has
    <3>2. Passes("input_audio", "inputPuertoAudio")
      BY <2>1, <3>1, PassedRule, RulesOfMedia
    <3>3. CASE value["inputPuertoAudio"] \in Number
      <4>1. value["inputPuertoAudio"] \in {"5000000000", "5000 x"}
        BY <3>1, <3>3 DEF Number, Digits, ParsesAsInt
      <4> QED
        BY <3>1, <4>1 DEF SentIsAdded, Has
    <3>4. CASE format \in AudioAccepted
      <4>1. format \in HidesAudio
        BY <3>4 DEF AudioAccepted, HidesAudio
      <4> QED
        BY <3>1, <4>1 DEF SentIsAdded, Has, HiddenInv
    <3> QED
      BY <3>2, <3>3, <3>4 DEF Passes, input_audio
  <2>4. CASE ~Has("inputImagen", Text \ {""})
    <3>1. "inputImagen" \in Fields => Passes("required", "inputImagen")
      BY <2>1, PassedRule, RulesOfMedia
    <3> QED
      BY <2>1, <2>4, <3>1 DEF Has, Passes, required, Blank
  <2> QED
    BY <2>1, <2>2, <2>3, <2>4 DEF AddMediaFails
<1> QED
  BY SentInvariance, <1>1, PTL

-----------------------------------------------------------------------------
(***************************************************************************)
(* The two sides together.                                                 *)
(***************************************************************************)
(* What the user is shown is what the validator keeps, and it is kept of   *)
(* fields in sight only (jquery.validate.js:364-381 and 613-719,           *)
(* app.js:67-97).                                                          *)
THEOREM WhatIsShownFits == Spec => []ShownFits
<1>1. MarksFitInvalid /\ InvalidIsVisible => ShownFits
  BY DEF ShownFits
<1> QED
  BY <1>1, ShownIsKept, NothingHiddenIsInvalid, PTL

(* The page and the servlet agree on what a form is, but for the texts     *)
(* that are named (jquery.validate.check.js:3-91, AddMedia.java:107-139).  *)
THEOREM WhatIsSentFits == Spec => []SentFits
<1>1. SentIsAdded /\ AddedIsComplete => SentFits
  BY DEF SentFits
<1> QED
  BY <1>1, SentFormIsAdded, AddedMediaIsComplete, PTL

-----------------------------------------------------------------------------
(***************************************************************************)
(* What the label of a field says, once the field was reported.            *)
(***************************************************************************)
(* The fields that no script changes behind the validator's back.          *)
Watched == Fields \ (ReadOnly \cup {"inputPuertoAudio"})

(* The label says what is wrong with the text, and nothing when it is not. *)
Tells(f) == IF Truth(f) = "valid" THEN label[f] = "hidden" ELSE label[f] = Truth(f)

(* The answer there is, if any, is about the text of the field.            *)
Answered(f) == f \notin pending /\ (f \in Asking => old[f] = value[f])

(* A reported field has a label, which tells the truth unless the user is  *)
(* in it or its answer is awaited; the server is asked about no blank text *)
(* and does not take what was refused.  This holds between the parts of a  *)
(* function that runs as well.                                             *)
TruthInv ==
  page = "form" =>
    /\ \A f \in submitted : label[f] # "absent"
    /\ \A f \in Field : f \notin pending /\ ~valid[f] => old[f] \notin Free
    /\ \A f \in Field : old[f] \notin Blank
    /\ \A f \in submitted \cap Watched : focus # f /\ Answered(f) => Tells(f)

(* The rules of these fields depend on their text and the server alone.    *)
LEMMA WatchedRules ==
  ASSUME AskInv, NEW f \in Watched
  PROVE  /\ f \in Field /\ f \in Fields
         /\ Rules[f] \subseteq {"required", "ip_multicast", "digits", "remote"}
         /\ f \in Asking => Rules[f] \subseteq {"required", "remote"}
<1>1. f \in Field /\ f \in DOMAIN Rules /\ f \in Fields
  BY FieldsOfForm, FormAssumption DEF Watched
<1> QED
  BY <1>1 DEF Watched, ReadOnly, Rules, Asking

(* The truth of a field changes with its text only.                        *)
LEMMA TruthStays ==
  ASSUME AskInv, NEW f \in Watched, value'[f] = value[f], UNCHANGED loaded,
         old'[f] = old[f], valid'[f] = valid[f]
  PROVE  Truth(f)' = Truth(f)
<1>1. Asking' = Asking
  BY DEF Asking, Fields
<1>2. \A method \in Rules[f] : Passes(method, f)' <=> Passes(method, f)
  BY WatchedRules DEF Passes, remote, ip_multicast, digits, optional, required
<1>3. Failing(f)' = Failing(f)
  BY <1>2 DEF Failing
<1>4. check(f)' = check(f)
  BY <1>3 DEF check
<1> QED
  BY <1>1, <1>4 DEF Truth, required

(* What check() finds is the truth once the answer is there.               *)
LEMMA CheckIsTrue ==
  ASSUME AskInv, NEW f \in Watched, Answered(f),
         ~valid[f] => old[f] \notin Free
  PROVE  check(f) = Truth(f)
<1>1. CASE ~(f \in Asking /\ required(value[f]))
  BY <1>1 DEF Truth
<1>2. CASE f \in Asking /\ required(value[f])
  <2>1. f \in Field /\ old[f] = value[f] /\ value[f] # None /\ "remote" \in Rules[f]
        /\ Rules[f] \subseteq {"required", "remote"}
    BY <1>2, WatchedRules, FormAssumption DEF Answered, Asking, AskInv
  <2>2. remote(f) <=> valid[f]
    BY <1>2, <2>1 DEF remote, optional
  <2>3. Failing(f) = IF valid[f] THEN {} ELSE {"remote"}
    BY <1>2, <2>1, <2>2 DEF Failing, Passes
  <2>4. valid[f] <=> value[f] \in Free
    BY <1>2, <2>1 DEF Answered, AskInv
  <2>5. First({"remote"}) = "remote"
    BY DEF First
  <2> QED
    BY <1>2, <2>1, <2>3, <2>4, <2>5 DEF check, Truth
<1> QED
  BY <1>1, <1>2

(* A field that was checked and is not being asked about.                  *)
LEMMA CheckedTells ==
  ASSUME AskInv, ShowInv, NEW fields, fields \subseteq Fields,
         NEW f \in Watched, f \in fields,
         f \in submitted => label[f] # "absent", f \in submitted \cup ErrorMap(fields),
         f \notin pending /\ ~valid[f] => old[f] \notin Free,
         showErrors(fields), Ask(fields), UNCHANGED <<loaded, value>>, Answered(f)'
  PROVE  Tells(f)'
<1>1. f \in Field /\ check(f) # "pending" /\ f \notin pending
      /\ old'[f] = old[f] /\ valid'[f] = valid[f]
  BY WatchedRules DEF Answered, Ask, startRequest, Undecided
<1>2. Truth(f)' = Truth(f)
  BY <1>1, TruthStays
<1>3. Asking' = Asking
  BY DEF Asking, Fields
<1>4. check(f) = Truth(f)
  BY <1>1, <1>3, CheckIsTrue DEF Answered
<1>5. label' = [g \in Field |-> IF g \in ErrorMap(fields) THEN check(g)
                                ELSE IF g \in ToHide(fields) THEN "hidden" ELSE label[g]]
  BY DEF showErrors, Labels
<1>6. CASE f \in ErrorMap(fields)
  BY <1>1, <1>2, <1>4, <1>5, <1>6 DEF ErrorMap, Method, Tells
<1>7. CASE f \notin ErrorMap(fields)
  <2>1. check(f) = "valid"
    BY <1>1, <1>7, CheckResult DEF ErrorMap
  <2>2. f \in ToHide(fields)
    BY <1>1, <1>7 DEF ToHide
  <2> QED
    BY <1>1, <1>2, <1>4, <1>5, <1>7, <2>1, <2>2 DEF Tells
<1> QED
  BY <1>6, <1>7

(* The server is asked about texts that are not blank.                     *)
LEMMA UndecidedIsFilled ==
  ASSUME NEW fields, NEW f \in Undecided(fields), f \in Field
  PROVE  value[f] \notin Blank
<1>1. check(f) = "pending" /\ Failing(f) \subseteq Method /\ "pending" \notin Method
  BY RulesAreMethods, FormAssumption DEF Undecided, Failing, Method
<1>2. "remote" \in Failing(f)
  BY <1>1, FirstIsIn DEF check
<1> QED
  BY <1>2 DEF Failing, Passes, remote, optional, required

(* Some fields are checked, the one that is left among them.               *)
LEMMA ChecksTell ==
  ASSUME AskInv, ShowInv, TruthInv, page = "form",
         NEW fields, fields \subseteq Fields,
         submitted' = submitted \cup ErrorMap(fields),
         showErrors(fields), Ask(fields), UNCHANGED screen,
         \A f \in Fields \ fields : focus' # f => focus # f
  PROVE  TruthInv'
<1>0. UNCHANGED <<loaded, value>> /\ Fields' = Fields /\ Asking' = Asking
      /\ Watched' = Watched /\ Fields \subseteq Field
  BY FieldsOfForm DEF screen, Fields, Asking, Watched
<1>1. /\ label' = [f \in Field |-> IF f \in ErrorMap(fields) THEN check(f)
                                   ELSE IF f \in ToHide(fields) THEN "hidden" ELSE label[f]]
      /\ ErrorMap(fields) \subseteq fields /\ ToHide(fields) \subseteq fields
  BY DEF showErrors, Labels, ErrorMap, ToHide
<1>2. /\ old' = [f \in Field |-> IF f \in Undecided(fields) THEN value[f] ELSE old[f]]
      /\ pending' = pending \cup Undecided(fields) /\ valid' = valid
      /\ Undecided(fields) \subseteq fields
  BY DEF Ask, startRequest, Undecided
<1>3. ASSUME NEW f \in submitted'
      PROVE  label'[f] # "absent"
  <2>1. f \in Field
    BY <1>0, <1>1, <1>3 DEF ShowInv
  <2>2. CASE f \in ErrorMap(fields)
    BY <1>1, <2>1, <2>2 DEF ErrorMap, Method
  <2>3. CASE f \notin ErrorMap(fields)
    BY <1>1, <1>3, <2>1, <2>3 DEF TruthInv
  <2> QED
    BY <2>2, <2>3
<1>4. \A f \in Field : f \notin pending' /\ ~valid'[f] => old'[f] \notin Free
  BY <1>2 DEF TruthInv
<1>6. \A f \in Field : old'[f] \notin Blank
  BY <1>2, UndecidedIsFilled DEF TruthInv
<1>5. ASSUME NEW f \in submitted' \cap Watched, focus' # f, Answered(f)'
      PROVE  Tells(f)'
  <2>1. f \in Field /\ f \in Fields
    BY <1>5, WatchedRules
  <2>2. CASE f \in fields
    BY <1>0, <1>5, <2>1, <2>2, CheckedTells DEF TruthInv
  <2>3. CASE f \notin fields
    <3>1. /\ old'[f] = old[f] /\ valid'[f] = valid[f] /\ label'[f] = label[f]
          /\ f \in submitted /\ focus # f
      BY <1>1, <1>2, <1>5, <2>1, <2>3
    <3>2. Answered(f)
      BY <1>0, <1>2, <1>5, <3>1 DEF Answered
    <3>3. Truth(f)' = Truth(f)
      BY <1>0, <1>5, <3>1, TruthStays
    <3> QED
      BY <1>5, <3>1, <3>2, <3>3 DEF TruthInv, Tells
  <2> QED
    BY <2>2, <2>3
<1> QED
  BY <1>0, <1>3, <1>4, <1>5, <1>6 DEF TruthInv

LEMMA FormTells ==
  ASSUME AskInv, ShowInv, TruthInv, page = "form", form, UNCHANGED screen
  PROVE  TruthInv'
BY ChecksTell DEF form

(* An element is left, or a key is released in it.                         *)
LEMMA ElementTells ==
  ASSUME AskInv, ShowInv, TruthInv, page = "form", NEW e, element(e), UNCHANGED screen,
         focus = e \/ focus' = focus
  PROVE  TruthInv'
<1>1. {e} \cap Fields \subseteq Fields
  OBVIOUS
<1> QED
  BY <1>1, ChecksTell DEF element

(* Nothing is checked: no text changes but that of the field the user is   *)
(* in, or of one that a script changes.                                    *)
LEMMA NothingTells ==
  ASSUME AskInv, ShowInv, TruthInv, page' = "form" => page = "form",
         UNCHANGED <<loaded, submitted, label, old, valid, pending>>,
         \A f \in submitted \cap Watched :
           focus' # f => focus # f /\ value'[f] = value[f]
  PROVE  TruthInv'
<1> SUFFICES ASSUME page' = "form" PROVE TruthInv'
  BY DEF TruthInv
<1>0. Watched' = Watched /\ Asking' = Asking
  BY DEF Watched, Asking, Fields
<1>1. ASSUME NEW f \in submitted \cap Watched, focus' # f, Answered(f)'
      PROVE  Tells(f)'
  <2>1. focus # f /\ value'[f] = value[f] /\ Answered(f)
    BY <1>0, <1>1 DEF Answered
  <2>2. Truth(f)' = Truth(f)
    BY <1>1, <2>1, TruthStays
  <2> QED
    BY <1>1, <2>1, <2>2 DEF TruthInv, Tells
<1> QED
  BY <1>0, <1>1 DEF TruthInv

LEMMA LeaveTells ==
  ASSUME AskInv, ShowInv, TruthInv, page = "form", Leave(focus), UNCHANGED screen
  PROVE  TruthInv'
<1>1. CASE focus # None /\ Leaves(focus)
  BY <1>1, ElementTells DEF Leave
<1>2. CASE ~(focus # None /\ Leaves(focus))
  <2>1. UNCHANGED <<loaded, submitted, label, old, valid, pending, value>>
    BY <1>2 DEF Leave, shown, asked, screen
  <2>2. focus \notin submitted
    BY <1>2, FieldsOfForm, FormAssumption DEF Leaves, ShowInv
  <2> QED
    BY <2>1, <2>2, NothingTells
<1> QED
  BY <1>1, <1>2

(* An answer comes.                                                        *)
LEMMA AnswerTells ==
  ASSUME AskInv, ShowInv, TruthInv, NEW f \in Asking, NEW text \in requests[f],
         Accepted(f, text) \/ Refused(f, text)
  PROVE  TruthInv'
<1>0. /\ page = "form" /\ UNCHANGED <<loaded, value, submitted, focus, old>>
      /\ Watched' = Watched /\ Asking' = Asking /\ Fields \subseteq Field
  BY FieldsOfForm DEF Accepted, Refused, Idle, screen, Watched, Asking, Fields
<1>b. PICK ok \in BOOLEAN : /\ pending' = pending \ {f} /\ (ok <=> text \in Free)
                            /\ valid' = [valid EXCEPT ![f] = ok]
  <2>1. CASE Accepted(f, text)
    BY <2>1 DEF Accepted, stopRequest
  <2>2. CASE Refused(f, text)
    BY <2>2 DEF Refused, stopRequest
  <2> QED
    BY <2>1, <2>2
<1>a. /\ f \in Field /\ text = old[f] /\ f \in pending /\ pending' = pending \ {f}
  BY <1>b, FieldsOfForm DEF AskInv
<1>1. label' = [label EXCEPT ![f] = IF text \in Free
                                    THEN IF @ = "absent" THEN @ ELSE "hidden"
                                    ELSE "remote"]
  BY DEF Accepted, Refused
<1>2. /\ label'[f] = (IF text \in Free
                      THEN IF label[f] = "absent" THEN "absent" ELSE "hidden"
                      ELSE "remote")
      /\ \A g \in Field : g # f => label'[g] = label[g] /\ valid'[g] = valid[g]
      /\ (valid'[f] <=> text \in Free)
  BY <1>0, <1>a, <1>b, <1>1 DEF ShowInv, AskInv
<1>3. \A g \in submitted : label'[g] # "absent"
  BY <1>0, <1>a, <1>2 DEF TruthInv, ShowInv
<1>4. \A g \in Field : g \notin pending' /\ ~valid'[g] => old[g] \notin Free
  BY <1>0, <1>a, <1>2 DEF TruthInv
<1>5. ASSUME NEW g \in submitted \cap Watched, focus # g, Answered(g)'
      PROVE  Tells(g)'
  <2>1. g \in Field
    BY <1>5, WatchedRules
  <2>2. CASE g = f
    <3>1. value[f] = text /\ required(text)
      BY <1>0, <1>a, <1>5, <2>2 DEF Answered, required, TruthInv
    <3>2. Truth(f)' = IF text \in Free THEN "valid" ELSE "remote"
      BY <1>0, <1>a, <3>1 DEF Truth, required
    <3>3. label[f] # "absent"
      BY <1>0, <1>5, <2>2 DEF TruthInv
    <3> QED
      BY <1>2, <2>2, <3>2, <3>3 DEF Tells
  <2>3. CASE g # f
    <3>1. Answered(g) /\ label'[g] = label[g]
      BY <1>0, <1>a, <1>2, <1>5, <2>1, <2>3 DEF Answered
    <3>2. Truth(g)' = Truth(g)
      BY <1>0, <1>a, <1>2, <1>5, <2>1, <2>3, TruthStays
    <3> QED
      BY <1>0, <1>a, <1>5, <3>1, <3>2 DEF TruthInv, Tells
  <2> QED
    BY <2>2, <2>3
<1> QED
  BY <1>0, <1>a, <1>3, <1>4, <1>5 DEF TruthInv

LEMMA StepTruth == IInv /\ ShowInv /\ TruthInv /\ [Next]_vars => TruthInv'
<1> SUFFICES ASSUME IInv, ShowInv, TruthInv, [Next]_vars PROVE TruthInv'
  OBVIOUS
<1>0. AskInv /\ (running # "idle" => page = "form")
  BY DEF IInv
<1> USE DEF shown, asked
<1>1. CASE UNCHANGED vars
  BY <1>1, NothingTells, <1>0 DEF vars, screen
<1>2. ASSUME NEW e \in loaded, FocusIn(e) PROVE TruthInv'
  <2>1. focus = None /\ None \notin submitted
    BY <1>2, <1>0, FieldsOfForm, FormAssumption DEF FocusIn, ShowInv
  <2> QED
    BY <1>2, <2>1, NothingTells, <1>0 DEF FocusIn, screen
<1>3. CASE FocusOut
  BY <1>3, LeaveTells, <1>0 DEF FocusOut, Idle
<1>4. ASSUME NEW text \in Text, Type(text) PROVE TruthInv'
  <2>1. \A f \in Field : f # focus => value'[f] = value[f]
    BY <1>0, <1>4 DEF Type, AskInv
  <2>2. submitted \subseteq Field
    BY <1>0, FieldsOfForm DEF ShowInv
  <2> QED
    BY <1>4, <2>1, <2>2, NothingTells, <1>0 DEF Type
<1>5. ASSUME NEW tab \in BOOLEAN, KeyUp(tab) PROVE TruthInv'
  BY <1>5, ElementTells, <1>0 DEF KeyUp, Idle
<1>6. CASE Submit
  <2>1. page = "form"
    BY <1>0, <1>6 DEF Submit, Submitting, Idle
  <2> QED
    BY <1>0, <1>6, <2>1, FormTells DEF Submit
<1>7. CASE Refuse
  BY <1>7, FormTells, <1>0 DEF Refuse, Submitting, Idle
<1>8. CASE MoveFocus
  BY <1>8, LeaveTells, NothingTells, <1>0 DEF MoveFocus, screen
<1>9. ASSUME NEW f \in Asking, NEW text \in requests[f], Accepted(f, text) PROVE TruthInv'
  BY <1>9, AnswerTells, <1>0
<1>10. ASSUME NEW f \in Asking, NEW text \in requests[f], Refused(f, text) PROVE TruthInv'
  BY <1>10, AnswerTells, <1>0
<1>11. ASSUME NEW f \in Asking, NEW text \in requests[f], Fails(f, text) PROVE TruthInv'
  BY <1>11, NothingTells, <1>0 DEF Fails, screen
<1>12. CASE CheckAgain
  BY <1>12, FormTells, <1>0 DEF CheckAgain
<1>13. ASSUME NEW f \in ReadOnly, NEW text \in Text, PickFile(f, text) PROVE TruthInv'
  <2>1. \A g \in Watched : value'[g] = value[g]
    BY <1>13, <1>0, WatchedRules DEF PickFile, AskInv, Watched
  <2> QED
    BY <1>13, <2>1, NothingTells, <1>0 DEF PickFile
<1>14. ASSUME NEW k \in Format, ChangeFormat(k) PROVE TruthInv'
  BY <1>14, NothingTells, <1>0 DEF ChangeFormat
<1>15. CASE AddMedia
  BY <1>15, NothingTells, <1>0 DEF AddMedia, screen
<1> QED
  BY <1>1, <1>2, <1>3, <1>4, <1>5, <1>6, <1>7, <1>8, <1>9, <1>10, <1>11, <1>12,
     <1>13, <1>14, <1>15 DEF Next, ValidatorStep

(* Once a field was reported its label tells the truth, whatever is typed, *)
(* answered and sent, but for the fields that scripts change               *)
(* (jquery.validate.js:344-381, 613-719 and 1032-1051, app.js:67-97).      *)
THEOREM ReportsTellTheTruth == Spec => []ReportedFieldsTellTheTruth
<1>1. Init => TruthInv
  BY FormAssumption DEF Init, TruthInv, Text
<1>2. IInv /\ ShowInv /\ TruthInv /\ [Next]_vars => TruthInv'
  BY StepTruth
<1>3. ShowInv /\ TruthInv => ReportedFieldsTellTheTruth
  BY DEF ShowInv, TruthInv, ReportedFieldsTellTheTruth, Watched, Answered, Tells, Idle
<1> QED
  BY <1>1, <1>2, <1>3, Invariance, AllInvariance, PTL DEF Spec
-----------------------------------------------------------------------------
(***************************************************************************)
(* The slider.                                                             *)
(***************************************************************************)
USE OrbitAssumption DEF OrbitAssumption

(* Until the page is loaded nothing has moved, and no clock was started.   *)
Untouched ==
  ~called => /\ intervals = {} /\ ~timerRunning
             /\ activeSlide = 0 /\ prevActiveSlide = Nothing /\ ~locked
             /\ \A s \in Slide : zIndex[s] = 0 /\ opacity[s] = 0

(* Afterwards the count of the slides is right, and only the sliders of    *)
(* more than one slide, or of none, have a clock and arrows.               *)
SetUpOnce ==
  called => /\ numberSlides = slides
            /\ slides = 1 => ~timer /\ ~directionalNav /\ intervals = {}

(* The lock is held exactly while the active slide moves in; on a page     *)
(* without slides nothing moves.                                           *)
LockFits ==
  /\ ~locked => moving = Nothing
  /\ locked /\ slides # 0 => moving = activeSlide
  /\ \A s \in Slide : s # moving => left[s] = "in"

(* The active slide lies over the others while it moves, and afterwards if *)
(* it was not taken for the slide before.                                  *)
ActiveInFront ==
  called => \A s \in Slide :
              IF s = activeSlide
              THEN moving # Nothing \/ prevActiveSlide # s => zIndex[s] = 3
              ELSE zIndex[s] <= 2

(* Right below the active slide are the one it replaces and those that a   *)
(* refused shift made the slider forget; and it has forgotten one when it  *)
(* takes the active slide for the one before.                              *)
LeftBehind ==
  slides # 0 =>
    /\ \A s \in Slide \ {activeSlide} :
         zIndex[s] = 2 <=> s \in forgotten \/ (moving # Nothing /\ s = prevActiveSlide)
    /\ activeSlide \notin forgotten /\ prevActiveSlide \notin forgotten
    /\ prevActiveSlide = activeSlide /\ slides # 1 => forgotten # {}
    /\ moving # Nothing => prevActiveSlide \in Slide /\ slides # 1
    /\ slides = 1 => forgotten = {}

OrbitInv == /\ OneSlideOneClock
        /\ Untouched /\ SetUpOnce /\ LockFits /\ ActiveInFront /\ LeftBehind

(* The number of slides is a natural number, and so are the slides.        *)
LEMMA Slides ==
  ASSUME OrbitTypeOK
  PROVE  slides \in Nat /\ Slide \subseteq Nat /\ Nothing \notin Slide
BY DEF OrbitTypeOK, Slide

LEMMA OrbitInitInv == OrbitInit => OrbitInv
<1> SUFFICES ASSUME OrbitInit PROVE OrbitInv
  OBVIOUS
<1>0. slides \in Nat /\ Slide \subseteq Nat /\ Nothing \notin Slide
      /\ (slides # 0 => 0 \in Slide)
  BY DEF OrbitInit, Slide
<1>a. /\ zIndex \in [Slide -> 0 .. 3] /\ opacity \in [Slide -> 0 .. 1]
      /\ left \in [Slide -> {"in", "next", "prev"}]
  BY DEF OrbitInit
<1>b. activeSlide \in Slide \/ slides = 0
  BY <1>0 DEF OrbitInit
<1>c. {hiddenTimer, called, locked, timer, directionalNav, timerRunning} \subseteq BOOLEAN
  BY DEF OrbitInit
<1>d. slides \in 0 .. MaxSlides /\ numberSlides \in {0, slides} /\ degrees \in 0 .. Turn
  BY DEF OrbitInit
<1>1. OrbitTypeOK
  BY <1>a, <1>b, <1>c, <1>d DEF OrbitInit, OrbitTypeOK
<1>2. OneIsSeen /\ OneClock /\ Untouched /\ SetUpOnce /\ LockFits /\ ActiveInFront
      /\ LeftBehind
  BY <1>0 DEF OrbitInit, OneIsSeen, OneClock, Untouched, SetUpOnce, LockFits, ActiveInFront,
     LeftBehind
<1> QED
  BY <1>1, <1>2 DEF OrbitInv, OneSlideOneClock

-----------------------------------------------------------------------------
(* The clock is started only when none is running, and always stopped: one *)
(* clock at most, shown as it is.                                          *)
LEMMA StartClock ==
  ASSUME OrbitTypeOK, OneClock, intervals = {}, startClock, UNCHANGED hiddenTimer
  PROVE  OneClock' /\ clock' \in Clock /\ intervals' \subseteq Clock
         /\ timerRunning' \in BOOLEAN
BY DEF startClock, OneClock, OrbitTypeOK

LEMMA StopClock ==
  ASSUME OrbitTypeOK, OneClock, stopClock, UNCHANGED hiddenTimer
  PROVE  OneClock' /\ intervals' = {} /\ ~timerRunning' /\ clock' = clock
BY DEF stopClock, OneClock, OrbitTypeOK

(* The slides beside the active one are slides, and other ones.            *)
LEMMA Beside ==
  ASSUME OrbitTypeOK, numberSlides = slides, slides \notin {0, 1}
  PROVE  /\ Succ(activeSlide) \in Slide \ {activeSlide}
         /\ Pred(activeSlide) \in Slide \ {activeSlide}
<1>1. slides \in Nat /\ activeSlide \in 0 .. slides - 1
  BY DEF OrbitTypeOK, Slide
<1> QED
  BY <1>1 DEF Succ, Pred, Slide

(* What shift() does to the slides of a page that has any: nothing but to  *)
(* remember the active slide, or to move to another one.                   *)
LEMMA ShiftStep ==
  ASSUME OrbitTypeOK, numberSlides = slides, slides # 0, NEW d \in {"next", "prev"},
         shift(d), UNCHANGED slides
  PROVE  /\ prevActiveSlide' = activeSlide /\ activeSlide \in Slide
         /\ \/ /\ UNCHANGED <<activeSlide, locked, moving, style>> /\ (slides = 1 \/ locked)
               /\ forgotten' = forgotten \cup ({prevActiveSlide} \ {activeSlide, Nothing})
            \/ /\ ~locked /\ locked' /\ slides # 1
               /\ forgotten' = forgotten \ {activeSlide'}
               /\ activeSlide' \in Slide \ {activeSlide} /\ moving' = activeSlide'
               /\ zIndex' \in [Slide -> 0 .. 3] /\ opacity' \in [Slide -> 0 .. 1]
               /\ left' \in [Slide -> {"in", "next", "prev"}]
               /\ \A s \in Slide :
                    /\ zIndex'[s] = IF s = activeSlide' THEN 3
                                    ELSE IF s = activeSlide THEN 2 ELSE zIndex[s]
                    /\ opacity'[s] = IF s = activeSlide THEN 0
                                     ELSE IF s = activeSlide' THEN 1 ELSE opacity[s]
                    /\ left'[s] = IF s = activeSlide' THEN d ELSE left[s]
<1>1. activeSlide \in Slide /\ slides \in Nat
  BY DEF OrbitTypeOK
<1>2. CASE slides # 1 /\ ~locked
  <2>1. /\ locked' /\ activeSlide' \in Slide \ {activeSlide}
        /\ moving' = activeSlide'
        /\ zIndex' = Css(Css(zIndex, activeSlide, 2), activeSlide', 3)
        /\ opacity' = Css(Css(opacity, activeSlide', 1), activeSlide, 0)
        /\ left' = Css(left, activeSlide', d)
    BY <1>2, Beside DEF shift, Accept
  <2>2. zIndex \in [Slide -> 0 .. 3] /\ opacity \in [Slide -> 0 .. 1]
        /\ left \in [Slide -> {"in", "next", "prev"}]
    BY DEF OrbitTypeOK
  <2>3. zIndex' \in [Slide -> 0 .. 3]
        /\ \A s \in Slide : zIndex'[s] = IF s = activeSlide' THEN 3
                                         ELSE IF s = activeSlide THEN 2 ELSE zIndex[s]
    BY <2>1, <2>2 DEF Css
  <2>4. opacity' \in [Slide -> 0 .. 1]
        /\ \A s \in Slide : opacity'[s] = IF s = activeSlide THEN 0
                                     ELSE IF s = activeSlide' THEN 1 ELSE opacity[s]
    BY <2>1, <2>2 DEF Css
  <2>5. left' \in [Slide -> {"in", "next", "prev"}]
        /\ \A s \in Slide : left'[s] = IF s = activeSlide' THEN d ELSE left[s]
    BY <2>1, <2>2 DEF Css
  <2> QED
    BY <1>1, <1>2, <2>1, <2>3, <2>4, <2>5 DEF shift
<1>3. CASE ~(slides # 1 /\ ~locked)
  BY <1>1, <1>3 DEF shift, OrbitTypeOK
<1> QED
  BY <1>2, <1>3

(* shift() keeps what concerns the slides, whoever calls it.               *)
LEMMA ShiftKeeps ==
  ASSUME OrbitInv, called, NEW d \in {"next", "prev"}, shift(d),
         UNCHANGED <<slider, pressed>>, OneClock',
         degrees' \in 0 .. Turn, clock' \in Clock \cup {Nothing}, intervals' \subseteq Clock,
         timerRunning' \in BOOLEAN, slides = 1 => intervals' = {}
  PROVE  OrbitInv'
<1> USE DEF OrbitInv, OneSlideOneClock
<1>0. /\ slides' = slides /\ Slide' = Slide /\ numberSlides' = slides /\ called'
      /\ slides \in Nat /\ Slide \subseteq Nat /\ Nothing \notin Slide
      /\ UNCHANGED <<called, hiddenTimer, timer, directionalNav, pressed>>
  BY Slides DEF slider, Slide, SetUpOnce
<1>1. Untouched' /\ SetUpOnce'
  BY <1>0 DEF Untouched, SetUpOnce
<1>2. CASE slides = 0
  <2>1. Slide = {}
    BY <1>2 DEF Slide
  <2>2. ~locked => moving = Nothing
    BY DEF LockFits
  <2>3. /\ zIndex' \in [Slide -> 0 .. 3] /\ opacity' \in [Slide -> 0 .. 1]
        /\ left' \in [Slide -> {"in", "next", "prev"}]
        /\ locked' \in BOOLEAN /\ moving' = Nothing
    BY <2>1, <2>2 DEF shift, Accept, Css, OrbitTypeOK, style
  <2> QED
    BY <1>0, <1>1, <1>2, <2>1, <2>3
    DEF OrbitTypeOK, OneIsSeen, LockFits, ActiveInFront, LeftBehind
<1>3. CASE slides # 0
  <2>1. /\ prevActiveSlide' = activeSlide /\ activeSlide \in Slide
        /\ \/ /\ UNCHANGED <<activeSlide, locked, moving, style>> /\ (slides = 1 \/ locked)
              /\ forgotten' = forgotten \cup ({prevActiveSlide} \ {activeSlide, Nothing})
           \/ /\ ~locked /\ locked' /\ slides # 1
              /\ forgotten' = forgotten \ {activeSlide'}
              /\ activeSlide' \in Slide \ {activeSlide} /\ moving' = activeSlide'
              /\ zIndex' \in [Slide -> 0 .. 3] /\ opacity' \in [Slide -> 0 .. 1]
              /\ left' \in [Slide -> {"in", "next", "prev"}]
              /\ \A s \in Slide :
                   /\ zIndex'[s] = IF s = activeSlide' THEN 3
                                   ELSE IF s = activeSlide THEN 2 ELSE zIndex[s]
                   /\ opacity'[s] = IF s = activeSlide THEN 0
                                    ELSE IF s = activeSlide' THEN 1 ELSE opacity[s]
                   /\ left'[s] = IF s = activeSlide' THEN d ELSE left[s]
    BY <1>0, <1>3, ShiftStep DEF SetUpOnce
  <2>a. forgotten' \subseteq Slide
    BY <1>3, <2>1 DEF OrbitTypeOK
  <2>2. OrbitTypeOK'
    BY <1>0, <2>1, <2>a DEF OrbitTypeOK, style
  <2>3. OneIsSeen' /\ LockFits'
    BY <1>0, <1>3, <2>1 DEF OneIsSeen, LockFits, style
  <2>4. ActiveInFront'
    BY <1>0, <1>3, <2>1 DEF ActiveInFront, LockFits, style, OrbitTypeOK
  <2>5. LeftBehind'
    BY <1>0, <1>3, <2>1 DEF LeftBehind, LockFits, style, OrbitTypeOK
  <2> QED
    BY <1>1, <2>2, <2>3, <2>4, <2>5
<1> QED
  BY <1>2, <1>3

(* The steps of the clock, the animation and the user.                     *)
LEMMA LoadKeeps == OrbitInv /\ Load => OrbitInv'
<1> SUFFICES ASSUME OrbitInv, Load PROVE OrbitInv'
  OBVIOUS
<1> USE DEF OrbitInv, OneSlideOneClock
<1>0. /\ slides' = slides /\ Slide' = Slide /\ numberSlides' = slides /\ called' /\ ~called
      /\ slides \in Nat /\ Slide \subseteq Nat /\ Nothing \notin Slide
      /\ UNCHANGED <<hiddenTimer, activeSlide, prevActiveSlide, locked, moving, left,
                     forgotten, degrees, pressed>>
      /\ timer' = (slides # 1) /\ directionalNav' = (slides # 1)
  BY Slides DEF Load, Slide, OnlyOneSlide
<1>1. OneClock' /\ clock' \in Clock \cup {Nothing} /\ intervals' \subseteq Clock
      /\ timerRunning' \in BOOLEAN /\ (slides = 1 => intervals' = {})
  BY <1>0, StartClock DEF Load, OnlyOneSlide, Untouched, clockwork, OneClock, OrbitTypeOK
<1>2. /\ zIndex' \in [Slide -> 0 .. 3] /\ opacity' \in [Slide -> 0 .. 1]
      /\ \A s \in Slide : /\ zIndex'[s] = IF s = 0 THEN 3 ELSE 0
                          /\ opacity'[s] = IF s = 0 THEN 1 ELSE 0
  BY <1>0 DEF Load, FirstSlide, Css, Untouched, OrbitTypeOK
<1>3. OrbitTypeOK'
  BY <1>0, <1>1, <1>2 DEF OrbitTypeOK
<1>4. activeSlide = 0 /\ prevActiveSlide = Nothing /\ ~locked /\ moving = Nothing
  BY <1>0 DEF Untouched, LockFits
<1>5. OneIsSeen' /\ LockFits' /\ ActiveInFront' /\ LeftBehind'
  BY <1>0, <1>2, <1>4 DEF OneIsSeen, LockFits, ActiveInFront, LeftBehind, Untouched
<1> QED
  BY <1>0, <1>1, <1>3, <1>5 DEF Untouched, SetUpOnce

(* What stays of the invariant while the slides do.                        *)
LEMMA StillSlides ==
  ASSUME OrbitInv, UNCHANGED <<slider, position>>, OneClock',
         degrees' \in 0 .. Turn, clock' \in Clock \cup {Nothing}, intervals' \subseteq Clock,
         timerRunning' \in BOOLEAN, pressed' \in Slide \cup {Nothing},
         (~called => intervals' = {} /\ ~timerRunning'), slides = 1 => intervals' = {}
  PROVE  OrbitInv'
<1> USE DEF OrbitInv, OneSlideOneClock, slider, position, style, Slide
<1>1. OrbitTypeOK'
  BY DEF OrbitTypeOK
<1>2. OneIsSeen' /\ LockFits' /\ ActiveInFront' /\ LeftBehind'
  BY DEF OneIsSeen, LockFits, ActiveInFront, LeftBehind
<1>3. Untouched' /\ SetUpOnce'
  BY DEF Untouched, SetUpOnce
<1> QED
  BY <1>1, <1>2, <1>3

LEMMA ClockKeeps ==
  ASSUME OrbitInv, NEW c \in Clock, Rotate(c) \/ Strike(c) \/ StrikeHidden(c)
  PROVE  OrbitInv'
<1> USE DEF OrbitInv, OneSlideOneClock
<1>0. degrees \in 0 .. Turn /\ called /\ slides # 1
      /\ UNCHANGED <<slider, clockwork, pressed>>
  BY DEF Rotate, Strike, StrikeHidden, Untouched, SetUpOnce, OrbitTypeOK
<1>1. OneClock' /\ clock' \in Clock \cup {Nothing} /\ intervals' \subseteq Clock
      /\ timerRunning' \in BOOLEAN
  BY <1>0 DEF OneClock, clockwork, slider, OrbitTypeOK
<1>2. CASE Rotate(c)
  <2>1. degrees' \in 0 .. Turn
    BY <1>0, <1>2 DEF Rotate
  <2>2. UNCHANGED <<slider, position>> /\ pressed' \in Slide \cup {Nothing}
    BY <1>2 DEF Rotate, OrbitTypeOK
  <2> QED
    BY <1>0, <1>1, <2>1, <2>2, StillSlides
<1>3. CASE Strike(c) \/ StrikeHidden(c)
  <2>1. shift("next") /\ degrees' \in 0 .. Turn
    BY <1>0, <1>3 DEF Strike, StrikeHidden
  <2> QED
    BY <1>0, <1>1, <2>1, ShiftKeeps
<1> QED
  BY <1>2, <1>3

LEMMA ArriveKeeps == OrbitInv /\ Arrive => OrbitInv'
<1> SUFFICES ASSUME OrbitInv, Arrive PROVE OrbitInv'
  OBVIOUS
<1> USE DEF OrbitInv, OneSlideOneClock
<1>0. /\ slides' = slides /\ Slide' = Slide /\ slides # 0 /\ locked
      /\ moving = activeSlide /\ moving \in Slide /\ activeSlide \in Slide
      /\ slides \in Nat /\ Slide \subseteq Nat /\ Nothing \notin Slide
      /\ UNCHANGED <<slider, clockwork, activeSlide, prevActiveSlide, opacity, forgotten, degrees,
                     pressed>>
      /\ ~locked' /\ moving' = Nothing
  BY Slides DEF Arrive, Slide, slider, LockFits, OrbitTypeOK
<1>1. /\ left' \in [Slide -> {"in", "next", "prev"}] /\ zIndex' \in [Slide -> 0 .. 3]
      /\ \A s \in Slide : /\ left'[s] = "in"
                          /\ zIndex'[s] = IF s = prevActiveSlide THEN 1 ELSE zIndex[s]
  BY <1>0 DEF Arrive, Css, OrbitTypeOK, LockFits
<1>a. UNCHANGED <<slides, numberSlides, hiddenTimer, called, timer, directionalNav,
                  timerRunning, clock, intervals>>
      /\ locked' \in BOOLEAN
  BY <1>0 DEF slider, clockwork, Arrive
<1>2. OrbitTypeOK'
  BY <1>0, <1>a, <1>1 DEF OrbitTypeOK
<1>3. OneIsSeen' /\ LockFits' /\ OneClock'
  BY <1>0, <1>1 DEF OneIsSeen, LockFits, OneClock, slider, clockwork
<1>d. called' = called /\ moving # Nothing
  BY <1>0 DEF Arrive, slider
<1>e. ASSUME called, NEW s \in Slide
      PROVE  IF s = activeSlide THEN prevActiveSlide # s => zIndex'[s] = 3 ELSE zIndex'[s] <= 2
  <2>1. IF s = activeSlide THEN zIndex[s] = 3 ELSE zIndex[s] <= 2
    BY <1>d, <1>e DEF ActiveInFront
  <2> QED
    BY <1>1, <2>1
<1>4. ActiveInFront'
  BY <1>0, <1>d, <1>e DEF ActiveInFront
<1>b. \A s \in Slide \ {activeSlide} : zIndex'[s] = 2 <=> s \in forgotten
  BY <1>0, <1>1 DEF LeftBehind
<1>c. /\ activeSlide \notin forgotten /\ prevActiveSlide \notin forgotten
      /\ prevActiveSlide = activeSlide /\ slides # 1 => forgotten # {}
      /\ slides = 1 => forgotten = {}
  BY <1>0 DEF LeftBehind
<1>6. LeftBehind'
  BY <1>0, <1>b, <1>c DEF LeftBehind
<1>5. Untouched' /\ SetUpOnce'
  BY <1>0 DEF Untouched, SetUpOnce, slider, clockwork
<1> QED
  BY <1>2, <1>3, <1>4, <1>5, <1>6

LEMMA UserKeeps ==
  ASSUME OrbitInv,
         ClickTimer \/ (\E d \in {"next", "prev"} : ClickArrow(d)) \/ Press
  PROVE  OrbitInv'
<1> USE DEF OrbitInv, OneSlideOneClock
<1>0. degrees \in 0 .. Turn /\ pressed \in Slide \cup {Nothing}
      /\ clock \in Clock \cup {Nothing} /\ intervals \subseteq Clock
      /\ timerRunning \in BOOLEAN /\ called
  BY DEF OrbitTypeOK, ClickTimer, ClickArrow, Press
<1>1. CASE ClickTimer
  <2>1. UNCHANGED <<slider, position, degrees, pressed>> /\ slides # 1 /\ ~hiddenTimer
        /\ UNCHANGED hiddenTimer
    BY <1>1 DEF ClickTimer, SetUpOnce, slider
  <2>2. CASE timerRunning
    <3>1. stopClock /\ timerRunning' \in BOOLEAN
      BY <1>1, <2>2 DEF ClickTimer, stopClock
    <3>2. OneClock' /\ intervals' = {} /\ ~timerRunning' /\ clock' = clock
      BY <2>1, <3>1, StopClock
    <3>3. degrees' \in 0 .. Turn /\ pressed' \in Slide \cup {Nothing}
      BY <1>0, <2>1
    <3> QED
      BY <1>0, <2>1, <3>1, <3>2, <3>3, StillSlides
  <2>3. CASE ~timerRunning
    <3>1. startClock /\ intervals = {}
      BY <1>1, <2>1, <2>3 DEF ClickTimer, OneClock
    <3> QED
      BY <1>0, <2>1, <3>1, StartClock, StillSlides
  <2> QED
    BY <2>2, <2>3
<1>2. ASSUME NEW d \in {"next", "prev"}, ClickArrow(d)
      PROVE  OrbitInv'
  <2>1. /\ UNCHANGED <<slider, degrees, pressed>> /\ stopClock /\ shift(d)
        /\ UNCHANGED hiddenTimer
    BY <1>2 DEF ClickArrow, slider
  <2>2. OneClock' /\ intervals' = {} /\ ~timerRunning' /\ clock' = clock
    BY <2>1, StopClock
  <2>3. timerRunning' \in BOOLEAN
    BY <2>1 DEF stopClock
  <2> QED
    BY <1>0, <2>1, <2>2, <2>3, ShiftKeeps
<1>3. CASE Press
  <2>1. UNCHANGED <<slider, position, clockwork, degrees>> /\ pressed' \in Slide
    BY <1>3 DEF Press, InPlace
  <2>2. OneClock' /\ UNCHANGED <<clock, intervals, timerRunning>>
    BY <2>1 DEF OneClock, slider, clockwork
  <2>3. slides = 1 => intervals' = {}
    BY <1>0, <2>2 DEF SetUpOnce
  <2> QED
    BY <1>0, <2>1, <2>2, <2>3, StillSlides
<1> QED
  BY <1>1, <1>2, <1>3

LEMMA OrbitNextInv == OrbitInv /\ [OrbitNext]_orbitVars => OrbitInv'
<1> SUFFICES ASSUME OrbitInv, [OrbitNext]_orbitVars PROVE OrbitInv'
  OBVIOUS
<1>1. CASE UNCHANGED orbitVars
  <2> USE DEF OrbitInv, OneSlideOneClock
  <2>1. UNCHANGED <<slider, position, clockwork, degrees, pressed>>
    BY <1>1 DEF orbitVars
  <2>2. OneClock'
    BY <2>1 DEF OneClock, slider, clockwork
  <2>3. /\ degrees' \in 0 .. Turn /\ clock' \in Clock \cup {Nothing} /\ intervals' \subseteq Clock
        /\ timerRunning' \in BOOLEAN /\ pressed' \in Slide \cup {Nothing}
    BY <2>1 DEF OrbitTypeOK, clockwork
  <2>4. (~called => intervals' = {} /\ ~timerRunning') /\ (slides = 1 => intervals' = {})
    BY <2>1 DEF Untouched, SetUpOnce, clockwork
  <2> QED
    BY <2>1, <2>2, <2>3, <2>4, StillSlides
<1> QED
  BY <1>1, LoadKeeps, ClockKeeps, ArriveKeeps, UserKeeps DEF OrbitNext

LEMMA OrbitInvariance == OrbitSpec => []OrbitInv
BY OrbitInitInv, OrbitNextInv, PTL DEF OrbitSpec

(* However the timer, the arrows and the animations interleave, with any   *)
(* number of medias one slide is seen and one clock at most is running     *)
(* (jquery.foundation.orbit.js:275-369, 500-579).                          *)
THEOREM OneSlideAndOneClock == OrbitSpec => []OneSlideOneClock
<1>1. OrbitInv => OneSlideOneClock
  BY DEF OrbitInv
<1> QED
  BY <1>1, OrbitInvariance, PTL

-----------------------------------------------------------------------------
(* Of the slides at a place, the one in front is the active slide, the one *)
(* it replaces while it moves in, or one that was forgotten.               *)
LEMMA WhoIsInFront ==
  ASSUME OrbitInv, called,
         NEW here \in {InPlace, InPlace \cup ({moving} \cap Slide)},
         NEW s \in here, Front(s, here)
  PROVE  /\ s \in Slide
         /\ \/ s = activeSlide
            \/ s = prevActiveSlide /\ moving # Nothing
            \/ s \in forgotten /\ (moving # Nothing \/ prevActiveSlide = activeSlide)
<1> USE DEF OrbitInv, OneSlideOneClock
<1>0. here \subseteq Slide /\ s \in Slide /\ slides \in Nat /\ slides # 0
      /\ activeSlide \in Slide /\ zIndex \in [Slide -> 0 .. 3]
  BY Slides DEF InPlace, OrbitTypeOK, Slide
<1>1. \A t \in here : zIndex[t] <= zIndex[s]
  BY <1>0 DEF Front
<1>2. \A t \in Slide : t # moving => t \in here
  BY <1>0 DEF LockFits, InPlace
<1>3. zIndex[s] = 2 /\ s # activeSlide =>
        s \in forgotten \/ (moving # Nothing /\ s = prevActiveSlide)
  BY <1>0 DEF LeftBehind
<1>4. s # activeSlide => zIndex[s] <= 2
  BY <1>0 DEF ActiveInFront
<1>5. CASE moving # Nothing
  <2>1. moving = activeSlide
    BY <1>0, <1>5 DEF LockFits
  <2>2. \E t \in Slide \ {activeSlide} : zIndex[t] = 2
    <3>1. CASE prevActiveSlide = activeSlide
      <4>1. slides # 1
        BY <1>0, <1>5, <3>1 DEF LeftBehind
      <4>2. PICK t : t \in forgotten
        BY <1>0, <3>1, <4>1 DEF LeftBehind
      <4> QED
        BY <1>0, <4>2 DEF LeftBehind, OrbitTypeOK
    <3>2. CASE prevActiveSlide # activeSlide
      BY <1>0, <1>5, <3>2 DEF LeftBehind
    <3> QED
      BY <3>1, <3>2
  <2>3. zIndex[s] >= 2
    BY <1>0, <1>1, <1>2, <2>1, <2>2
  <2> QED
    BY <1>0, <1>3, <1>4, <1>5, <2>3
<1>6. CASE moving = Nothing /\ prevActiveSlide # activeSlide
  <2>1. activeSlide \in here /\ zIndex[activeSlide] = 3
    BY <1>0, <1>2, <1>6, Slides DEF ActiveInFront
  <2> QED
    BY <1>0, <1>1, <1>4, <2>1
<1>7. CASE moving = Nothing /\ prevActiveSlide = activeSlide
  <2>1. CASE slides = 1
    BY <1>0, <2>1 DEF Slide
  <2>2. CASE slides # 1
    <3>1. PICK t : t \in forgotten
      BY <1>0, <1>7, <2>2 DEF LeftBehind
    <3>2. t \in here /\ zIndex[t] = 2
      BY <1>0, <1>2, <1>7, <3>1, Slides DEF LeftBehind, OrbitTypeOK
    <3>3. zIndex[s] >= 2
      BY <1>0, <1>1, <3>2
    <3> QED
      BY <1>0, <1>3, <1>4, <1>7, <3>3
  <2> QED
    BY <2>1, <2>2
<1> QED
  BY <1>5, <1>6, <1>7

(* The button that is pressed belongs to the media that is seen, to the    *)
(* one it replaces while it moves in, or to one that was left when a shift *)
(* was refused, before the next shift has ended                            *)
(* (jquery.foundation.orbit.js:500-579).                                   *)
THEOREM ButtonsOfSeenOrLeft == OrbitSpec => PressesSeenOrLeft
<1>1. OrbitInv /\ [OrbitNext]_orbitVars
        => [pressed' # pressed =>
              \/ pressed' = activeSlide
              \/ pressed' = prevActiveSlide /\ moving # Nothing
              \/ pressed' \in forgotten /\ (moving # Nothing \/ prevActiveSlide = activeSlide)
           ]_orbitVars
  <2> SUFFICES ASSUME OrbitInv, OrbitNext, pressed' # pressed
               PROVE  \/ pressed' = activeSlide
                      \/ pressed' = prevActiveSlide /\ moving # Nothing
                      \/ pressed' \in forgotten
                         /\ (moving # Nothing \/ prevActiveSlide = activeSlide)
    OBVIOUS
  <2>1. Press
    BY DEF OrbitNext, Load, Rotate, Strike, StrikeHidden, Arrive, ClickTimer, ClickArrow
  <2> QED
    BY <2>1, WhoIsInFront DEF Press
<1> QED
  BY <1>1, OrbitInvariance, PTL DEF OrbitSpec, PressesSeenOrLeft
=============================================================================
