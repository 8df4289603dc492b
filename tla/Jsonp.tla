------------------------------- MODULE Jsonp --------------------------------
(***************************************************************************)
(* What jQuery.ajax makes of an answer, and the requests whose answer is a *)
(* script that calls a function of the page (JSONP): the name that such a  *)
(* request gives its function, which is used again when it is over, and    *)
(* what it finds and leaves behind under this name.                        *)
(*                                                                         *)
(* Every action is one of Ajax with what happens to the functions and the  *)
(* data types in it.  The answers of JSONP requests carry the number of    *)
(* the request that they were made for.  The answers 204 and 304, which    *)
(* are not converted, a dataFilter and the option `throws' are left out.   *)
(***************************************************************************)
EXTENDS Ajax, AjaxConvert

CONSTANT Made   \* the pairs of the options of a request and what it wants

Wants == [types : Seq(Types \cup {"*", "jsonp"}), jsonp : BOOLEAN,
          cross : BOOLEAN, given : BOOLEAN]   \* the page gives the name

(* The names: numbers, and 0 for the one that is given.                    *)
Names == 0 .. MaxRequests

ASSUME JsonpAssumption ==
  /\ \A m \in Made : /\ m[1] \in Kinds /\ m[2] \in Wants
                     /\ m[2].types # <<>>
                     /\ m[2].cross => m[1].async  \* a script is not waited for
  /\ Off \notin Names

VARIABLES
  wants,         \* what the requests were made with
  dataTypes,     \* s.dataTypes
  callbackName,  \* of a JSONP request
  window,        \* the request whose function has that name
  overwritten,   \* what had the name before
  container,     \* the answer the function was called with
  oldCallbacks, nonce,
  late,          \* the aborted requests whose script is still under way
  response,      \* the answer a request was resolved with
  strayed,       \* a script has called the function after its own request
                 \*   was over
  shared         \* two requests under way have used the given name

types == <<wants, dataTypes>>
names == <<callbackName, oldCallbacks, nonce>>
functions == <<window, overwritten, container>>
history == <<response, strayed, shared>>
jsonpVars == <<types, names, functions, late, history>>

JsonpInit ==
  /\ Init
  /\ wants = [r \in Requests |-> Off] /\ dataTypes = [r \in Requests |-> <<>>]
  /\ callbackName = [r \in Requests |-> Off]
  /\ window = [n \in Names |-> Off]
  /\ overwritten = [r \in Requests |-> Off]
  /\ container = [r \in Requests |-> Off]
  /\ oldCallbacks = <<>> /\ nonce = 0
  /\ late = {}
  /\ response = [r \in Requests |-> Off] /\ strayed = FALSE /\ shared = FALSE

IsJsonp(r) == callbackName[r] # Off

(* Requests of other servers' scripts have a transport of their own.       *)
UsesScript(r) == Head(dataTypes[r]) = "script" /\ wants[r].cross

ConvertersOf(r) ==
  IF IsJsonp(r) THEN Append(Converters, ScriptJson) ELSE Converters

-----------------------------------------------------------------------------
(* Mutant of Name: the number of a new name is not counted up.             *)
NameTwice(given) ==
  IF given THEN [name |-> 0, old |-> oldCallbacks, nonce |-> nonce]
  ELSE IF oldCallbacks # <<>>
  THEN [name |-> Last(oldCallbacks), old |-> Front(oldCallbacks),
        nonce |-> nonce]
  ELSE [name |-> nonce + 1, old |-> oldCallbacks, nonce |-> nonce]

(* jsonpCallback(): a name that is free, or a new one.                     *)
Name(given) ==
  IF given THEN [name |-> 0, old |-> oldCallbacks, nonce |-> nonce]
  ELSE IF oldCallbacks # <<>>
  THEN [name |-> Last(oldCallbacks), old |-> Front(oldCallbacks),
        nonce |-> nonce]
  ELSE [name |-> nonce + 1, old |-> oldCallbacks, nonce |-> nonce + 1]

(* The prefilter of JSONP, which installs the function.                    *)
Prefilter(r, w) ==
  IF w.jsonp
  THEN LET n == Name(w.given)
       IN  /\ dataTypes' = [dataTypes EXCEPT ![r] =
                             <<"script", "json">> \o Tail(w.types)]
           /\ callbackName' = [callbackName EXCEPT ![r] = n.name]
           /\ oldCallbacks' = n.old /\ nonce' = n.nonce
           /\ overwritten' = [overwritten EXCEPT ![r] = window[n.name]]
           /\ window' = [window EXCEPT ![n.name] = r]
           /\ shared' = (shared \/ (w.given /\ window[n.name] # Off))
  ELSE /\ dataTypes' = [dataTypes EXCEPT ![r] = w.types]
       /\ UNCHANGED <<names, overwritten, window, shared>>

(* The prefilter of scripts: those of other servers make no global events. *)
WithScript(s, w) ==
  LET script == w.jsonp \/ Head(w.types) = "script"
  IN  [s EXCEPT !.global = @ /\ ~(script /\ w.cross)]

Make(r, s, w) ==
  /\ Request(r, WithScript(s, w))
  /\ wants' = [wants EXCEPT ![r] = w]
  /\ Prefilter(r, w)
  /\ UNCHANGED <<container, late, response, strayed>>

Settled(r) == deferred[r] # "no"

-----------------------------------------------------------------------------
(* A script of request r runs and calls the function, if there is one.     *)
Calls(r) == IsJsonp(r) /\ window[callbackName[r]] # Off
Called(r) == [container EXCEPT ![window[callbackName[r]]] = r]

(* A request that was sent after it was done has its script run, too, but  *)
(* its name is free by now, or that of another one.                        *)
Strays(r, delivers) == strayed' = (strayed \/ (delivers /\ Settled(r)))

(* The answer to an XMLHttpRequest: its status, its content type, whether  *)
(* what it contains can be parsed or, when it is a script, runs.           *)
TextAnswer(r, ok, contentType, parses, text) ==
  LET cs == ConvertersOf(r)
      list == HandleResponses(cs, dataTypes[r], contentType, <<"text">>)
      called == {IF i = 0 THEN "none" ELSE cs[i].to :
                   i \in ToSet(Conversion(cs, list))}
      runs == ok /\ parses /\ "script" \in called
      delivers == runs /\ Calls(r)
      fails == \/ "none" \in called
               \/ ~parses /\ called \cap {"json", "xml", "script"} # {}
               \/ IsJsonp(r) /\ ~delivers
  IN  /\ xhr[r] = "open" /\ ~UsesScript(r)
      /\ text = IF ~ok THEN "error"
                ELSE IF fails THEN "parsererror" ELSE "success"
      /\ dataTypes' = [dataTypes EXCEPT ![r] = list]
      /\ container' = IF delivers THEN Called(r) ELSE container
      /\ response' = IF ok /\ ~fails /\ IsJsonp(r)
                     THEN [response EXCEPT ![r] = container'[r]] ELSE response
      /\ Strays(r, delivers)
      /\ UNCHANGED <<wants, names, window, overwritten, late, shared>>

AnswerText(r, ok, contentType, parses) ==
  \E text \in {"success", "error", "parsererror"} :
    TextAnswer(r, ok, contentType, parses, text) /\ Answer(r, text)
WaitText(ok, contentType, parses) ==
  /\ At("ajax", "wait")
  /\ \E text \in {"success", "error", "parsererror"} :
       TextAnswer(Top.r, ok, contentType, parses, text) /\ Wait(text)

(* A script of another server was loaded: what it was to do it has done, or *)
(* not.                                                                    *)
AnswerScript(r, runs) ==
  LET delivers == runs /\ Calls(r)
      heard == IF delivers THEN Called(r) ELSE container
      fails == IsJsonp(r) /\ heard[r] = Off
  IN  /\ xhr[r] = "open" /\ UsesScript(r)
      /\ Answer(r, IF fails THEN "parsererror" ELSE "success")
      /\ container' = heard
      /\ response' = [response EXCEPT ![r] = heard[r]]
      /\ Strays(r, delivers)
      /\ UNCHANGED <<types, names, window, overwritten, late, shared>>

(* The script of a request that was aborted is loaded all the same.        *)
LateScript(r) ==
  /\ calls = <<>> /\ r \in late
  /\ late' = late \ {r}
  /\ container' = IF Calls(r) THEN Called(r) ELSE container
  /\ strayed' = (strayed \/ Calls(r))
  /\ UNCHANGED <<vars, types, names, window, overwritten, response, shared>>

(* Mutant of CleanUp: what was overwritten is not restored.                *)
CleanUpKeeps(r) ==
  /\ oldCallbacks' = IF wants[r].given THEN oldCallbacks
                     ELSE Append(oldCallbacks, callbackName[r])
  /\ container' = [container EXCEPT ![r] = Off]
  /\ UNCHANGED window

(* always(): the name is free again, and who had it before is told.        *)
CleanUp(r) ==
  LET before == overwritten[r]
      handed == IF container[r] # Off /\ before # Off
               THEN [container EXCEPT ![before] = container[r]] ELSE container
  IN  /\ window' = [window EXCEPT ![callbackName[r]] = before]
      /\ oldCallbacks' = IF wants[r].given THEN oldCallbacks
                         ELSE Append(oldCallbacks, callbackName[r])
      /\ container' = [handed EXCEPT ![r] = Off]

SettleAndCleanUp ==
  /\ Settle
  /\ IF deferred[Top.r] = "no" /\ IsJsonp(Top.r)
     THEN CleanUp(Top.r) ELSE UNCHANGED <<window, oldCallbacks, container>>
  /\ UNCHANGED <<types, callbackName, nonce, overwritten, late, history>>

-----------------------------------------------------------------------------
(* The other steps: when a script is no longer waited for, the element is  *)
(* removed, which does not keep the browser from loading it.               *)
Leaves ==
  {r \in Requests : xhr[r] = "open" /\ xhr'[r] = "closed" /\ UsesScript(r)}

Plainly ==
  /\ late' = late \cup Leaves
  /\ UNCHANGED <<types, names, functions, history>>

FindTransport ==
  GetTransport \/ (NoTransport /\ wants[Top.r].cross /\ ~UsesScript(Top.r))

Sending == Send \/ (SendThrows /\ (UsesScript(Top.r) => ~transport[Top.r]))

LibraryStep ==
  \/ SettleAndCleanUp
  \/ /\ \/ Complete \/ CountDown
        \/ CountUp \/ BeforeSend \/ Allowed \/ Refused \/ Install
        \/ FindTransport \/ Sending
     /\ Plainly
  \/ \E ok, parses \in BOOLEAN, contentType \in {"json", "none"} :
       WaitText(ok, contentType, parses)

PageStep ==
  \/ \E r \in Requests, m \in Made : Make(r, m[1], m[2])
  \/ (\E r \in Requests : UserAbort(r)) /\ Plainly
  \/ (ReturnFalse \/ Throw) /\ Plainly

Return_ == Return /\ Plainly
Late(r) == Timeout(r) /\ Plainly

Next ==
  \/ LibraryStep \/ PageStep \/ Return_
  \/ \E r \in Requests :
       \/ Late(r) \/ LateScript(r)
       \/ \E runs \in BOOLEAN : AnswerScript(r, runs)
       \/ \E ok, parses \in BOOLEAN, contentType \in {"json", "none"} :
            AnswerText(r, ok, contentType, parses)

all == <<vars, jsonpVars>>

Spec == JsonpInit /\ [][Next]_all

(* The interpreter goes on, the functions of the page return, and a        *)
(* timeout comes; an answer need not.                                      *)
FairSpec ==
  /\ Spec
  /\ WF_all(LibraryStep) /\ WF_all(Return_)
  /\ \A r \in Requests : WF_all(Late(r))

-----------------------------------------------------------------------------
(* A name that jQuery has made is free, once, or it is of one request that *)
(* is not settled, whose function it names; the given name is left as it   *)
(* was found unless two requests have shared it (8361-8424).               *)
NamesFit ==
  /\ IsInjective(oldCallbacks)
  /\ \A n \in 1 .. nonce :
       IF Contains(oldCallbacks, n) THEN window[n] = Off
       ELSE /\ window[n] # Off
            /\ callbackName[window[n]] = n /\ ~Settled(window[n])
  /\ ~shared => window[0] = Off \/ ~Settled(window[0])

(* A request is resolved with the answer that was made for it, unless the  *)
(* script of another one came after that one was over, when its name was   *)
(* used again, or two requests have shared the given name (8369-8424).     *)
OwnAnswers ==
  \A r \in Requests : response[r] \in {Off, r} \/ strayed \/ shared

(* A JSONP function belongs to one request from its making to its          *)
(* clean-up, and the answer it takes is that request's own                 *)
(* (jquery-1.9.1.js:8361-8424).                                            *)
JsonpFits == NamesFit /\ OwnAnswers

(* Whatever a request expects and whatever the answer is, each converter   *)
(* that is called is given what it is made for, the last one makes what    *)
(* was expected, and a conversion fails for want of converters only when   *)
(* no chain of them would do (8178-8267).  Nothing of this depends on the  *)
(* state but the converters of the request: the first one shows it.        *)
ConversionsFit ==
  /\ calls = <<Body("prefilter", 1), Making(1, "filtered")>>
  /\ \A r \in Requests \ {1} : options[r] = Off
  => \A list \in Lists, contentType \in Contents \cup {"none"},
        responses \in {<<>>, <<"text">>} :
       ConversionFits(ConvertersOf(1), list, contentType, responses)
=============================================================================
