-------------------------------- MODULE Ajax --------------------------------
(***************************************************************************)
(* jQuery.ajax: the way of a request from its options to its callbacks,    *)
(* the transport that sends it, abort() and the timeout, and the counter   *)
(* of the requests that tells the page of the first one and the last.      *)
(*                                                                         *)
(* The page has its say at every stage (a prefilter, beforeSend, the       *)
(* handlers of the global events, the callbacks) and may make and abort    *)
(* requests there: `calls' is the stack of what is being executed, the     *)
(* innermost first.  What is sent and what comes back is left out, except  *)
(* for what the callbacks are told of it; Jsonp says what becomes of an    *)
(* answer, and puts the actions together.                                  *)
(***************************************************************************)
EXTENDS Integers, Sequences, FiniteSets

CONSTANTS
  MaxRequests,   \* how many requests the page makes
  Kinds,         \* the options they are made with: `global', `async',
                 \*   `timeout' and `beforeSend', given or not
  Off            \* undefined

Requests == 1 .. MaxRequests
Options == [{"global", "async", "timeout", "beforeSend"} -> BOOLEAN]

ASSUME AjaxAssumption ==
  /\ MaxRequests \in Nat
  /\ Kinds \subseteq Options
  /\ Off \notin Options

VARIABLES
  options,      \* s
  state,        \* the variable of that name
  transport,    \* whether it is set
  xhr,          \* whether the transport waits for its XMLHttpRequest
  timers,       \* the requests whose timeout is pending
  fireGlobals,  \* the requests with that variable set
  installed,    \* those whose callbacks were installed
  deferred,     \* how it was settled, or "no"
  completed,    \* completeDeferred was fired
  statusText,   \* what the callbacks are told
  active,       \* jQuery.active
  calls,        \* the stack
  told,         \* how often each callback was called
  starts, stops,  \* how often ajaxStart and ajaxStop were triggered
  reopened,     \* the requests that were done before they were sent
  thrown        \* a function of the page has thrown

request == <<options, state, transport, xhr, timers, fireGlobals, installed>>
answer == <<deferred, completed, statusText, told>>
counter == <<active, starts, stops>>
vars == <<request, answer, counter, calls, reopened, thrown>>

Init ==
  /\ options = [r \in Requests |-> Off]
  /\ state = [r \in Requests |-> 0]
  /\ transport = [r \in Requests |-> FALSE]
  /\ xhr = [r \in Requests |-> "none"]
  /\ timers = {} /\ fireGlobals = {} /\ installed = {}
  /\ deferred = [r \in Requests |-> "no"]
  /\ completed = [r \in Requests |-> FALSE]
  /\ statusText = [r \in Requests |-> Off]
  /\ active = 0
  /\ calls = <<>>
  /\ told = [r \in Requests |-> [success |-> 0, error |-> 0, complete |-> 0]]
  /\ starts = 0 /\ stops = 0
  /\ reopened = {} /\ thrown = FALSE

Top == Head(calls)
Below == Tail(calls)
At(what, pc) == calls # <<>> /\ Top.runs = what /\ Top.at = pc

Making(r, pc) == [runs |-> "ajax", r |-> r, at |-> pc]
Finishing(r, pc) == [runs |-> "done", r |-> r, at |-> pc]
Body(of, r) == [runs |-> "body", r |-> r, at |-> of]
GlobalEvent(r, type) == IF r \in fireGlobals THEN <<Body(type, r)>> ELSE <<>>

-----------------------------------------------------------------------------
(* Mutant of Done: it does not look whether it was called before.          *)
DoneAgain(r, result, text, open, rest) ==
  /\ xhr' = open
  /\ state' = [state EXCEPT ![r] = 2]
  /\ timers' = timers \ {r}
  /\ transport' = [transport EXCEPT ![r] = FALSE]
  /\ statusText' = [statusText EXCEPT ![r] = text]
  /\ calls' = <<Finishing(r, result)>> \o rest

(* done(), up to the callbacks: once only.  `open' tells the transports    *)
(* that still wait.                                                        *)
Done(r, result, text, open, rest) ==
  /\ xhr' = open
  /\ IF state[r] = 2
     THEN /\ calls' = rest
          /\ UNCHANGED <<state, timers, transport, statusText>>
     ELSE /\ state' = [state EXCEPT ![r] = 2]
          /\ timers' = timers \ {r}
          /\ transport' = [transport EXCEPT ![r] = FALSE]
          /\ statusText' = [statusText EXCEPT ![r] = text]
          /\ calls' = <<Finishing(r, result)>> \o rest

(* Mutant of Abort: the transport is not told.                             *)
AbortSilently(r, text, rest) == Done(r, "reject", text, xhr, rest)

(* abort(): the transport is told, as long as there is one.                *)
Abort(r, text, rest) ==
  Done(r, "reject", text,
       IF transport[r] /\ xhr[r] = "open" THEN [xhr EXCEPT ![r] = "closed"]
       ELSE xhr, rest)

strAbort(r) == IF r \in installed THEN "abort" ELSE "canceled"

Tell(r, what) == [told EXCEPT ![r][what] = @ + 1]

(* Mutant of Settle: complete is for what is a success.                    *)
SettleOnly ==
  /\ calls # <<>> /\ Top.runs = "done" /\ Top.at \in {"resolve", "reject"}
  /\ LET r == Top.r
         how == IF Top.at = "resolve" THEN "success" ELSE "error"
         next == IF Top.at = "resolve"
                 THEN GlobalEvent(r, "ajaxSuccess")
                      \o <<Finishing(r, "complete")>> \o Below
                 ELSE GlobalEvent(r, "ajaxError")
                      \o <<Finishing(r, "count")>> \o Below
         calling == deferred[r] = "no" /\ r \in installed
     IN  /\ deferred' = IF deferred[r] = "no"
                        THEN [deferred EXCEPT ![r] = Top.at] ELSE deferred
         /\ told' = IF calling THEN Tell(r, how) ELSE told
         /\ calls' = (IF calling THEN <<Body(how, r)>> ELSE <<>>) \o next
  /\ UNCHANGED <<request, completed, statusText, counter, reopened, thrown>>

(* done(): the deferred is settled and its callbacks are called.           *)
Settle ==
  /\ calls # <<>> /\ Top.runs = "done" /\ Top.at \in {"resolve", "reject"}
  /\ LET r == Top.r
         how == IF Top.at = "resolve" THEN "success" ELSE "error"
         event == IF Top.at = "resolve" THEN "ajaxSuccess" ELSE "ajaxError"
         next == GlobalEvent(r, event) \o <<Finishing(r, "complete")>> \o Below
         calling == deferred[r] = "no" /\ r \in installed
     IN  /\ deferred' = IF deferred[r] = "no"
                        THEN [deferred EXCEPT ![r] = Top.at] ELSE deferred
         /\ told' = IF calling THEN Tell(r, how) ELSE told
         /\ calls' = (IF calling THEN <<Body(how, r)>> ELSE <<>>) \o next
  /\ UNCHANGED <<request, completed, statusText, counter, reopened, thrown>>

Complete ==
  /\ At("done", "complete")
  /\ LET r == Top.r
         calling == ~completed[r] /\ r \in installed
     IN  /\ completed' = [completed EXCEPT ![r] = TRUE]
         /\ told' = IF calling THEN Tell(r, "complete") ELSE told
         /\ calls' = (IF calling THEN <<Body("complete", r)>> ELSE <<>>)
                     \o GlobalEvent(r, "ajaxComplete")
                     \o <<Finishing(r, "count")>> \o Below
  /\ UNCHANGED <<request, deferred, statusText, counter, reopened, thrown>>

(* Mutant of CountDown: the counter is read before it is decremented.      *)
CountDownLate ==
  /\ At("done", "count")
  /\ IF Top.r \in fireGlobals
     THEN /\ active' = active - 1
          /\ stops' = IF active = 0 THEN stops + 1 ELSE stops
          /\ calls' = (IF active = 0 THEN <<Body("ajaxStop", Top.r)>>
                      ELSE <<>>) \o Below
     ELSE calls' = Below /\ UNCHANGED <<active, stops>>
  /\ UNCHANGED <<request, answer, starts, reopened, thrown>>

(* The counter: the page is told when no request is left.                  *)
CountDown ==
  /\ At("done", "count")
  /\ IF Top.r \in fireGlobals
     THEN /\ active' = active - 1
          /\ stops' = IF active = 1 THEN stops + 1 ELSE stops
          /\ calls' = (IF active = 1 THEN <<Body("ajaxStop", Top.r)>>
                      ELSE <<>>) \o Below
     ELSE calls' = Below /\ UNCHANGED <<active, stops>>
  /\ UNCHANGED <<request, answer, starts, reopened, thrown>>

-----------------------------------------------------------------------------
(* Mutant of CountUp: what a prefilter has aborted is counted.             *)
CountUpAborted ==
  /\ At("ajax", "filtered")
  /\ LET r == Top.r
         counts == options[r].global
         first == counts /\ active = 0
     IN  /\ fireGlobals' = IF counts THEN fireGlobals \cup {r} ELSE fireGlobals
         /\ active' = IF counts THEN active + 1 ELSE active
         /\ starts' = IF first THEN starts + 1 ELSE starts
         /\ calls' = (IF state[r] = 2 THEN <<>>
                      ELSE (IF first THEN <<Body("ajaxStart", r)>> ELSE <<>>)
                           \o <<Making(r, IF options[r].beforeSend
                                          THEN "beforeSend" ELSE "install")>>)
                     \o Below
  /\ UNCHANGED <<options, state, transport, xhr, timers, installed, answer,
                 stops, reopened, thrown>>

(* ajax(), after the prefilters.                                           *)
CountUp ==
  /\ At("ajax", "filtered")
  /\ LET r == Top.r
         counts == state[r] # 2 /\ options[r].global
         first == counts /\ active = 0
     IN  /\ fireGlobals' = IF counts THEN fireGlobals \cup {r} ELSE fireGlobals
         /\ active' = IF counts THEN active + 1 ELSE active
         /\ starts' = IF first THEN starts + 1 ELSE starts
         /\ calls' = (IF state[r] = 2 THEN <<>>
                      ELSE (IF first THEN <<Body("ajaxStart", r)>> ELSE <<>>)
                           \o <<Making(r, IF options[r].beforeSend
                                          THEN "beforeSend" ELSE "install")>>)
                     \o Below
  /\ UNCHANGED <<options, state, transport, xhr, timers, installed, answer,
                 stops, reopened, thrown>>

BeforeSend ==
  /\ At("ajax", "beforeSend")
  /\ calls' = <<Body("beforeSend", Top.r), Making(Top.r, "asked")>> \o Below
  /\ UNCHANGED <<request, answer, counter, reopened, thrown>>

(* beforeSend has returned.                                                *)
Allowed ==
  /\ At("ajax", "asked")
  /\ IF state[Top.r] = 2 THEN Abort(Top.r, "canceled", Below)
     ELSE /\ calls' = <<Making(Top.r, "install")>> \o Below
          /\ UNCHANGED <<xhr, state, timers, transport, statusText>>
  /\ UNCHANGED <<options, fireGlobals, installed, deferred, completed, told,
                 counter, reopened, thrown>>

Refused ==
  /\ At("ajax", "refused")
  /\ Abort(Top.r, "canceled", Below)
  /\ UNCHANGED <<options, fireGlobals, installed, deferred, completed, told,
                 counter, reopened, thrown>>

(* Mutant of Install: they wait for what has been already.                 *)
InstallLate ==
  /\ At("ajax", "install")
  /\ installed' = installed \cup {Top.r}
  /\ calls' = <<Making(Top.r, "transport")>> \o Below
  /\ UNCHANGED <<options, state, transport, xhr, timers, fireGlobals, answer,
                 counter, reopened, thrown>>

(* The callbacks are installed, and called at once when the request was    *)
(* done meanwhile.                                                         *)
Install ==
  /\ At("ajax", "install")
  /\ installed' = installed \cup {Top.r}
  /\ LET r == Top.r
         failed == deferred[r] = "reject"
         over == completed[r]
     IN  /\ told' = [told EXCEPT ![r].error = IF failed THEN @ + 1 ELSE @,
                                 ![r].complete = IF over THEN @ + 1 ELSE @]
         /\ calls' = (IF failed THEN <<Body("error", r)>> ELSE <<>>)
                     \o (IF over THEN <<Body("complete", r)>> ELSE <<>>)
                     \o <<Making(r, "transport")>> \o Below
  /\ UNCHANGED <<options, state, transport, xhr, timers, fireGlobals, deferred,
                 completed, statusText, counter, reopened, thrown>>

GetTransport ==
  /\ At("ajax", "transport")
  /\ transport' = [transport EXCEPT ![Top.r] = TRUE]
  /\ calls' = GlobalEvent(Top.r, "ajaxSend") \o <<Making(Top.r, "send")>>
              \o Below
  /\ UNCHANGED <<options, state, xhr, timers, fireGlobals, installed, answer,
                 counter, reopened, thrown>>

(* A request to another server, which this browser does not support.       *)
NoTransport ==
  /\ At("ajax", "transport")
  /\ Done(Top.r, "reject", "error", xhr, Below)
  /\ UNCHANGED <<options, fireGlobals, installed, deferred, completed, told,
                 counter, reopened, thrown>>

(* send() of the transport, up to the listener.                            *)
Open(r) == xhr' = [xhr EXCEPT ![r] = "open"]

(* The request is sent: `state' is set whatever it was, and the transport  *)
(* may be gone by now, which is an exception like those of send().         *)
Send ==
  /\ At("ajax", "send") /\ transport[Top.r]
  /\ LET r == Top.r
     IN  /\ state' = [state EXCEPT ![r] = 1]
         /\ reopened' = IF state[r] = 2 THEN reopened \cup {r} ELSE reopened
         /\ timers' = IF options[r].async /\ options[r].timeout
                      THEN timers \cup {r} ELSE timers
         /\ Open(r)
         /\ calls' = (IF options[r].async THEN <<>> ELSE <<Making(r, "wait")>>)
                     \o Below
  /\ UNCHANGED <<options, transport, fireGlobals, installed, answer, counter,
                 thrown>>

SendThrows ==
  /\ At("ajax", "send")
  /\ LET r == Top.r
     IN  /\ state' = [state EXCEPT ![r] = 2]
         /\ reopened' = IF state[r] = 2 THEN reopened \cup {r} ELSE reopened
         /\ timers' = timers \ {r}
         /\ transport' = [transport EXCEPT ![r] = FALSE]
         /\ statusText' = [statusText EXCEPT ![r] = "error"]
         /\ calls' = <<Finishing(r, "reject")>> \o Below
  /\ UNCHANGED <<options, xhr, fireGlobals, installed, deferred, completed,
                 told, counter, thrown>>

(* The listener of the transport: `text' is what becomes of the answer;    *)
(* one that was not to be waited for comes within send().                  *)
Answered(r, text, rest) ==
  /\ xhr[r] = "open"
  /\ Done(r, IF text = "success" THEN "resolve" ELSE "reject", text,
          [xhr EXCEPT ![r] = "closed"], rest)
  /\ UNCHANGED <<options, fireGlobals, installed, deferred, completed, told,
                 counter, reopened, thrown>>

Wait(text) == At("ajax", "wait") /\ Answered(Top.r, text, Below)
Answer(r, text) == calls = <<>> /\ Answered(r, text, <<>>)

Timeout(r) ==
  /\ calls = <<>> /\ r \in timers
  /\ Abort(r, "timeout", <<>>)
  /\ UNCHANGED <<options, fireGlobals, installed, deferred, completed, told,
                 counter, reopened, thrown>>

-----------------------------------------------------------------------------
(* What the page does, at the bottom of the stack or wherever it has its   *)
(* say.                                                                    *)
InBody == calls # <<>> /\ Top.runs = "body"
UserCode == calls = <<>> \/ InBody

Request(r, s) ==
  /\ UserCode /\ options[r] = Off
  /\ \A q \in 1 .. r - 1 : options[q] # Off
  /\ options' = [options EXCEPT ![r] = s]
  /\ calls' = <<Body("prefilter", r), Making(r, "filtered")>> \o calls
  /\ UNCHANGED <<state, transport, xhr, timers, fireGlobals, installed, answer,
                 counter, reopened, thrown>>

UserAbort(r) ==
  /\ UserCode /\ options[r] # Off
  /\ Abort(r, strAbort(r), calls)
  /\ UNCHANGED <<options, fireGlobals, installed, deferred, completed, told,
                 counter, reopened, thrown>>

Return ==
  /\ InBody
  /\ calls' = Below
  /\ UNCHANGED <<request, answer, counter, reopened, thrown>>

ReturnFalse ==
  /\ At("body", "beforeSend")
  /\ calls' = <<Making(Top.r, "refused")>> \o Tail(Below)
  /\ UNCHANGED <<request, answer, counter, reopened, thrown>>

Throw ==
  /\ InBody
  /\ calls' = <<>>
  /\ thrown' = TRUE
  /\ UNCHANGED <<request, answer, counter, reopened>>

-----------------------------------------------------------------------------
Idle == calls = <<>> /\ ~thrown

(* The types, and that the counter loses no request but one that was sent  *)
(* after it was done.                                                      *)
TypeOK ==
  /\ options \in [Requests -> Options \cup {Off}]
  /\ state \in [Requests -> 0 .. 2]
  /\ xhr \in [Requests -> {"none", "open", "closed"}]
  /\ deferred \in [Requests -> {"no", "resolve", "reject"}]
  /\ statusText \in [Requests -> {Off, "success", "error", "parsererror",
                                  "timeout", "abort", "canceled"}]
  /\ \A R \in {timers, fireGlobals, installed, reopened} : R \subseteq Requests
  /\ active + Cardinality(reopened) \in 0 .. MaxRequests

(* A request that is over has called one of success and error, and         *)
(* complete, once, however it ended and however often it was aborted; one  *)
(* that was canceled before it had callbacks has called none.              *)
OneAnswer ==
  \A r \in Requests :
    LET t == told[r]
    IN  /\ t.success + t.error <= 1 /\ t.complete <= 1
        /\ Idle /\ state[r] = 2 /\ r \in installed =>
             t.success + t.error = 1 /\ t.complete = 1

(* When the script has returned, jQuery.active counts the requests that    *)
(* are under way, and a page that is idle is told so.  An exception leaves *)
(* the counter too large; a request that is aborted by a handler of        *)
(* ajaxSend, or of ajaxStart when it has no beforeSend, is done twice and  *)
(* leaves it too small.                                                    *)
ActiveFits ==
  Idle /\ reopened = {} =>
    active = Cardinality({r \in fireGlobals : state[r] = 1})

(* ajaxStart and ajaxStop come in turn, the first with the first request   *)
(* of a set and the second with the last, even when requests are made by   *)
(* the handlers of these events, and when the counter is wrong.            *)
StartsAndStops == starts - stops = IF active > 0 THEN 1 ELSE 0

(* When the script has returned, a request that is under way is one whose  *)
(* answer is still listened to, and no other is; a timeout is left of no   *)
(* other request.                                                          *)
UnderWay ==
  calls = <<>> =>
    /\ \A r \in Requests : xhr[r] = "open" <=> state[r] = 1
    /\ \A r \in timers : state[r] = 1

(* Whatever comes first of the answer, the timeout and abort() settles the *)
(* request, once, and leaves nothing of it behind (jquery-1.9.1.js:7821-   *)
(* 7831, 7969-8016).                                                       *)
AnswersFit == OneAnswer /\ UnderWay

(* The counter of requests and the global events follow what is under way, *)
(* also when handlers of these events make and abort requests              *)
(* (jquery-1.9.1.js:7869-7882, 8091-8098).                                 *)
CountersFit == TypeOK /\ ActiveFits /\ StartsAndStops

(* A request with a timeout ends, answered or not.                         *)
EndsInTime ==
  \A r \in Requests : r \in timers ~> completed[r] \/ thrown
=============================================================================
