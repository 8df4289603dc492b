---------------------------- MODULE AddMediaForm ----------------------------
(***************************************************************************)
(* The form of the administration page that starts a media: what the       *)
(* scripts of the page do when the format changes and when a file is       *)
(* picked, and the servlet that reads a form that was sent.  A form that   *)
(* asks the server takes its place in some behaviours.                     *)
(***************************************************************************)
EXTENDS Validator

(* subPath() and subImagen(): a script sets the text, no event reaches the *)
(* validator.  The button that opens the dialog takes the focus away.      *)
PickFile(f, text) ==
  /\ Idle /\ focus = None
  /\ f \in (Fields \cap ReadOnly) \ hidden /\ text \in Typed[f]
  /\ value' = [value EXCEPT ![f] = text]
  /\ UNCHANGED <<loaded, format, hidden, focus, page, lastActive, lastElement,
                 shown, asked, formSubmitted, running>>

(* Mutant of HidesAudio: a format with sound hides the audio port.         *)
HidesSound == {"H264_Video", "H263_Video", "H264_Encoding_Video",
               "H263_Encoding_Video_WebCam", "H263_Encoding_Video_Screen",
               "H263_Video_Audio"}

HidesAudio == {"H264_Video", "H263_Video", "H264_Encoding_Video",
               "H263_Encoding_Video_WebCam", "H263_Encoding_Video_Screen"}
ShowsAudio == {"H264_Video_Audio", "H264_Encoding_Video_Audio",
               "H263_Video_Audio"}
HidesPath  == {"H263_Encoding_Video_WebCam", "H263_Encoding_Video_Screen"}

(* The select offers the formats the lists name, first one that hides      *)
(* nothing.                                                                *)
ASSUME FormatAssumption ==
  Format \subseteq HidesAudio \cup ShowsAudio /\ FirstFormat \in ShowsAudio

HiddenFor(k) ==
  {f \in Fields :
     \/ f = "inputPuertoAudio" /\ k \in HidesAudio
     \/ f = "inputPuertoAudio" /\ k \notin ShowsAudio /\ f \in hidden
     \/ f = "inputPath" /\ k \in HidesPath}

(* changeFormato().                                                        *)
ChangeFormat(k) ==
  /\ Idle /\ focus = Select /\ k # format
  /\ format' = k
  /\ hidden' = HiddenFor(k)
  /\ UNCHANGED <<loaded, value, focus, page, lastActive, lastElement, shown,
                 asked, formSubmitted, running>>

-----------------------------------------------------------------------------
(* AddMedia.doPost(): a port must be an int; the image is written to the   *)
(* disk, which fails without a name.                                       *)
Has(f, texts) == f \in Fields => value[f] \in texts
ParsesAsInt == {"5000"}

AddMediaFails ==
  \/ ~Has("inputPuertoVideo", ParsesAsInt)
  \/ ~Has("inputPuertoAudio", ParsesAsInt \cup {""})
  \/ ~Has("inputImagen", Text \ {""})

AddMedia ==
  /\ page = "sent" /\ Select \in loaded
  /\ page' = IF AddMediaFails THEN "error" ELSE "admin"
  /\ UNCHANGED <<screen, focus, lastActive, lastElement, shown, asked,
                 formSubmitted, running>>

(* What follows is a page that is loaded anew.                             *)
Next ==
  \/ ValidatorStep
  \/ \E f \in ReadOnly, text \in Text : PickFile(f, text)
  \/ \E k \in Format : ChangeFormat(k)
  \/ AddMedia

vars == <<screen, focus, page, lastActive, lastElement, shown, asked,
          formSubmitted, running>>

Spec == Init /\ [][Next]_vars

-----------------------------------------------------------------------------
(* The validator keeps the names of fields that have rules, and a label    *)
(* shows the message of a rule.                                            *)
TypeOK ==
  /\ loaded \in Forms
  /\ value \in [Field -> Text] /\ format \in Format
  /\ hidden \subseteq Fields
  /\ focus \in loaded \cup {None} /\ lastActive \in loaded \cup {None}
  /\ lastElement \in loaded \cup {None}
  /\ submitted \subseteq Fields /\ invalid \subseteq Fields
  /\ marked \subseteq Fields /\ current \subseteq Fields
  /\ label \in [Field -> Method \cup {"absent", "hidden"}]
  /\ old \in [Field -> Text \cup {None}] /\ valid \in [Field -> BOOLEAN]
  /\ requests \in [Field -> SUBSET Text]
  /\ pending \subseteq Asking /\ pendingRequest \in Nat
  /\ formSubmitted \in BOOLEAN
  /\ page \in {"form", "sent", "admin", "error"}
  /\ running \in {"idle", "form", "submit", "focus"}

(* What the user sees of a field agrees with what the validator keeps of   *)
(* it: its label is shown exactly while its name is in invalid, although   *)
(* element(), form() and the answers of the server keep them by different  *)
(* ways; only a field whose answer is awaited may show the label of the    *)
(* text before.  The marks agree as well, except in a form that asks the   *)
(* server, where the answer for one field takes the mark of another.       *)
MarksFitInvalid ==
  /\ \A f \in Fields \ pending : f \in invalid <=> label[f] \in Method
  /\ Asking = {} => marked = invalid

(* What is wrong with a text, as the server sees it.                       *)
Truth(f) ==
  IF f \in Asking /\ required(value[f])
  THEN IF value[f] \in Free THEN "valid" ELSE "remote"
  ELSE check(f)

(* Once a field was reported, its label tells the truth whenever the user  *)
(* is elsewhere and no answer is awaited.  A file that was picked and a    *)
(* format that was changed are the exceptions: no event of theirs reaches  *)
(* the validator, so that the path, the image and the audio port may be    *)
(* marked without a reason, or the other way round, until the form is      *)
(* sent.                                                                   *)
ReportedFieldsTellTheTruth ==
  Idle =>
    \A f \in submitted \ (ReadOnly \cup {"inputPuertoAudio"} \cup pending) :
      focus # f /\ (f \in Asking => old[f] = value[f]) =>
        IF Truth(f) = "valid" THEN label[f] = "hidden" ELSE label[f] = Truth(f)

(* A form is never kept for a field the user cannot see: the lists of      *)
(* formats of changeFormato() agree with those of the two rules.           *)
InvalidIsVisible == page = "form" => ErrorMap(Fields) \cap hidden = {}

(* The validator knows how many answers it waits for: a field is counted   *)
(* once, however often it asks, and not any more when its answer has come. *)
(* A request that fails stays counted.                                     *)
PendingIsCounted ==
  /\ pendingRequest = Cardinality(pending)
  /\ \A f \in Field : requests[f] # {} => f \in pending

(* A form is sent with texts the server has accepted, whatever was typed   *)
(* while it waited for the answers.                                        *)
SentIsAccepted == page # "form" => \A f \in Asking : Truth(f) = "valid"

(* What the validator lets through the servlet takes, except for a port    *)
(* too large for an int, an audio port with more than a number in it, and  *)
(* what was left in the audio port before it was hidden.                   *)
SentIsAdded ==
  page = "error" =>
    \/ ~Has("inputPuertoVideo", Text \ {"5000000000"})
    \/ ~Has("inputPuertoAudio", Text \ {"5000000000", "5000 x"})
    \/ "inputPuertoAudio" \in hidden /\ ~Has("inputPuertoAudio", {""})

(* A media that was added has all its format needs: a file unless it is    *)
(* captured, an audio port when it has sound, a title and an address.      *)
AddedIsComplete ==
  page = "admin" =>
    /\ Has("inputTitulo", Text \ Blank)
    /\ Has("inputIPMC", Address)
    /\ Has("inputPath", IF format \in PathAccepted THEN Text ELSE Text \ {""})
    /\ Has("inputPuertoAudio", IF format \in AudioRequired THEN ParsesAsInt
                               ELSE ParsesAsInt \cup {""})

(* After every order of typing, leaving, sending and answers, what is shown *)
(* is what the validator keeps, and it is kept of fields in sight only     *)
(* (jquery.validate.js:364-381, 613-719, app.js:67-95).                    *)
ShownFits == MarksFitInvalid /\ InvalidIsVisible

(* A form that asks the server is sent when all its answers have come, and *)
(* they are about the texts that are sent (jquery.validate.js:774-793,     *)
(* 1003-1054).                                                             *)
AnswersAreAwaited == PendingIsCounted /\ SentIsAccepted

(* The page and the servlet agree on what a form is: what is sent is added *)
(* but for the texts that are named, and what is added is a whole media    *)
(* (jquery.validate.check.js:7-91, AddMedia.java:42-162).                  *)
SentFits == SentIsAdded /\ AddedIsComplete
=============================================================================
