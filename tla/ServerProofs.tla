---------------------------- MODULE ServerProofs ----------------------------
(***************************************************************************)
(* Proofs about the RTSP side of the server: first RtspServerListener, for *)
(* any number of connections, media, titles, streams and sessions; then    *)
(* RtspService, for any number of threads, clients and stacks.             *)
(***************************************************************************)
EXTENDS RtspServerListener, RtspService, FiniteSetTheorems, TLAPS

(* The request being handled is one, of the method its step is of. *)
HandlerInv ==
  step # "idle" =>
    /\ serving \in Client
    /\ q \in Request
    /\ step \in {"begin", "lookup", "found"} => q.method \in {"DESCRIBE", "PLAY", "SETUP"}
    /\ step = "generate" => q.method = "SETUP"

(* What the lookup has found, and what it means that it found nothing. *)
FoundInv ==
  /\ step \in {"idle", "begin", "lookup"} => found = NULL
  /\ step \in {"found", "generate", "reply"} /\ found # NULL =>
       found \in Titled(during, q.title)
  /\ step = "found" /\ found = NULL =>
       changed = "shrunk" \/ Titled(throughout, q.title) = {}
  /\ step = "generate" \/ (step = "reply" /\ q.method = "SETUP") => found # NULL

Inv == TypeOK /\ HandlerInv /\ FoundInv

-----------------------------------------------------------------------------
(***************************************************************************)
(* The operators.                                                          *)
(***************************************************************************)

(* A request of any method has a session or none, and only requests that *)
(* name a media have a title.                                            *)
LEMMA RequestFields ==
  ASSUME NEW r \in Request
  PROVE  /\ r.session \in Session \cup {NULL}
         /\ r.title \in Title \cup {NULL}
         /\ r.method \in {"BAD", "OPTIONS", "DESCRIBE", "PLAY", "SETUP"}
         /\ r.method \in {"BAD", "OPTIONS"} => r.title = NULL
BY DEF Request

(* A SETUP stays one when it is given a session. *)
LEMMA SetupOfSession ==
  ASSUME NEW r \in Request, r.method = "SETUP", NEW s \in Session
  PROVE  /\ [r EXCEPT !.session = s] \in Request
         /\ [r EXCEPT !.session = s].method = "SETUP"
         /\ [r EXCEPT !.session = s].title = r.title
         /\ [r EXCEPT !.session = s].session = s
BY DEF Request

(* NULL is nothing else. *)
LEMMA NullIsNone ==
  /\ NULL \notin Client
  /\ NULL \notin Media
  /\ NULL \notin Session
  /\ NULL \notin Title
  /\ NULL \notin Request
  /\ NULL \notin Response
<1>1. Session \subseteq Nat BY ListenerAssumption DEF ListenerAssumption, Session
<1>. QED BY <1>1, ListenerAssumption, NullAssumption DEF ListenerAssumption, NullAssumption

(* A response is one. *)
LEMMA ReplyTypes ==
  ASSUME TypeOK, serving \in Client,
         NEW status \in {"OK", "REJECTED", "SERVICE_UNAVAILABLE", "SESSION_NOT_FOUND"},
         NEW s \in Session \cup {NULL}, NEW m \in Media \cup {NULL},
         Reply(status, s, m),
         UNCHANGED <<onAir, sessions, now, exited, generated>>
  PROVE  Inv'
<1>1. [status |-> status, session |-> s, media |-> m] \in Response
  BY DEF Response
<1>2. response' \in [Client -> Response \cup {NULL}]
  BY <1>1 DEF TypeOK, Reply
<1>3. request' \in [Client -> Request \cup {NULL}]
  BY DEF TypeOK, Reply
<1>4. TypeOK' BY <1>2, <1>3 DEF TypeOK, Reply
<1>5. HandlerInv' /\ FoundInv' BY DEF HandlerInv, FoundInv, Reply
<1>. QED BY <1>4, <1>5 DEF Inv

-----------------------------------------------------------------------------
(***************************************************************************)
(* Type correctness, and what the handler knows.                           *)
(***************************************************************************)

LEMMA InvInit == Init => Inv
<1> SUFFICES ASSUME Init PROVE Inv
  OBVIOUS
<1>1. now \in Session
  BY ListenerAssumption DEF ListenerAssumption, Init, Session
<1>2. /\ request \in [Client -> Request \cup {NULL}]
      /\ response \in [Client -> Response \cup {NULL}]
  BY DEF Init
<1>3. TypeOK BY <1>1, <1>2 DEF Init, TypeOK
<1>. QED BY <1>3 DEF Init, Inv, HandlerInv, FoundInv

(* The clock, the registry and the clients. *)
LEMMA EnvironmentStep ==
  ASSUME Inv,
         \/ Tick
         \/ \E m \in Media : Add(m) \/ Remove(m)
         \/ \E c \in Client : Send(c)
  PROVE  Inv'
<1>1. CASE Tick
  <2>1. now' \in Session
    BY <1>1, ListenerAssumption DEF ListenerAssumption, Inv, TypeOK, Session, Tick
  <2>. QED
    BY <1>1, <2>1 DEF Tick, Inv, TypeOK, HandlerInv, FoundInv, handler, lookup, q, Titled
<1>2. ASSUME NEW m \in Media, Add(m) PROVE Inv'
  <2>1. TypeOK'
    BY <1>2 DEF Inv, TypeOK, Add, handler
  <2>2. HandlerInv'
    BY <1>2 DEF Inv, HandlerInv, Add, handler, q
  <2>3. step # "lookup" => UNCHANGED lookup
    BY <1>2 DEF Add, lookup
  <2>4. FoundInv'
    BY <1>2, <2>3 DEF Inv, FoundInv, Add, handler, lookup, q, Titled
  <2>. QED BY <2>1, <2>2, <2>4 DEF Inv
<1>3. ASSUME NEW m \in Media, Remove(m) PROVE Inv'
  <2>1. TypeOK'
    BY <1>3 DEF Inv, TypeOK, Remove, handler
  <2>2. HandlerInv'
    BY <1>3 DEF Inv, HandlerInv, Remove, handler, q
  <2>3. step # "lookup" => UNCHANGED lookup
    BY <1>3 DEF Remove, lookup
  <2>4. FoundInv'
    BY <1>3, <2>3 DEF Inv, FoundInv, Remove, handler, lookup, q, Titled
  <2>. QED BY <2>1, <2>2, <2>4 DEF Inv
<1>4. ASSUME NEW c \in Client, Send(c) PROVE Inv'
  <2>1. PICK r \in Request : request' = [request EXCEPT ![c] = r]
    BY <1>4 DEF Send
  <2>2. TypeOK' BY <1>4, <2>1 DEF Inv, TypeOK, Send, handler, lookup
  <2>3. step # "idle" => q' = q
    <3>1. request[c] = NULL BY <1>4 DEF Send
    <3>2. step # "idle" => serving # c
      BY <3>1, NullIsNone DEF Inv, HandlerInv, q
    <3>. QED BY <1>4, <2>1, <3>2 DEF Inv, TypeOK, HandlerInv, Send, handler, q
  <2>4. HandlerInv' /\ FoundInv'
    BY <1>4, <2>3 DEF Inv, HandlerInv, FoundInv, Send, handler, lookup, Titled
  <2>. QED BY <2>2, <2>4 DEF Inv
<1>. QED BY <1>1, <1>2, <1>3, <1>4

(* The steps of the handler before its answer. *)
LEMMA LookupStep ==
  ASSUME Inv,
         \/ \E c \in Client : Receive(c)
         \/ BeginLookup \/ EndLookup \/ LookupThrows \/ SetupOfMissing \/ SetupFound
  PROVE  Inv'
<1> USE NullIsNone
<1>1. ASSUME NEW c \in Client, Receive(c) PROVE Inv'
  <2>1. q' \in Request /\ q' = request[c]
    BY <1>1 DEF Receive, Inv, TypeOK, q
  <2>2. TypeOK' BY <1>1 DEF Inv, TypeOK, Receive, lookup
  <2>3. HandlerInv' BY <1>1, <2>1, RequestFields DEF HandlerInv, Receive, q
  <2>4. FoundInv'
    <3>1. step' = "reply" => q'.method # "SETUP"
      BY <1>1, <2>1 DEF Receive
    <3>2. step' \in {"reply", "begin"} /\ found' = NULL
      BY <1>1 DEF Receive, At, Inv, FoundInv
    <3>. QED BY <3>1, <3>2 DEF FoundInv
  <2>. QED BY <2>2, <2>3, <2>4 DEF Inv
<1>2. CASE BeginLookup
  <2>1. TypeOK' BY <1>2 DEF Inv, TypeOK, BeginLookup
  <2>2. HandlerInv' BY <1>2 DEF Inv, HandlerInv, BeginLookup, At, q
  <2>3. FoundInv' BY <1>2 DEF Inv, FoundInv, BeginLookup, At
  <2>. QED BY <2>1, <2>2, <2>3 DEF Inv
<1>3. CASE EndLookup
  <2>1. PICK f \in Titled(during, q.title) \cup {NULL} :
          /\ f = NULL => changed = "shrunk" \/ Titled(throughout, q.title) = {}
          /\ found' = f
    BY <1>3 DEF EndLookup
  <2>2. f \in Media \cup {NULL} BY DEF Titled, Inv, TypeOK
  <2>3. TypeOK' BY <1>3, <2>1, <2>2 DEF Inv, TypeOK, EndLookup, lookup
  <2>4. HandlerInv' BY <1>3 DEF Inv, HandlerInv, EndLookup, At, q
  <2>5. FoundInv'
    BY <1>3, <2>1 DEF FoundInv, EndLookup, lookup, q, Titled
  <2>. QED BY <2>3, <2>4, <2>5 DEF Inv
<1>4. CASE LookupThrows \/ SetupOfMissing
  <2>1. TypeOK' BY <1>4 DEF Inv, TypeOK, LookupThrows, SetupOfMissing, handler, lookup
  <2>2. HandlerInv' /\ FoundInv'
    BY <1>4 DEF Inv, HandlerInv, FoundInv, LookupThrows, SetupOfMissing, handler,
                lookup, q, Titled
  <2>. QED BY <2>1, <2>2 DEF Inv
<1>5. CASE SetupFound
  <2>1. TypeOK' BY <1>5 DEF Inv, TypeOK, SetupFound, lookup
  <2>2. HandlerInv' BY <1>5 DEF Inv, HandlerInv, SetupFound, At, q
  <2>3. FoundInv'
    BY <1>5 DEF Inv, FoundInv, SetupFound, At, lookup, q, Titled
  <2>. QED BY <2>1, <2>2, <2>3 DEF Inv
<1>. QED BY <1>1, <1>2, <1>3, <1>4, <1>5

(* A session is generated: the request goes on with it. *)
LEMMA GenerateStep == ASSUME Inv, GenerateSession PROVE Inv'
<1>1. /\ serving \in Client
      /\ q \in Request
      /\ q.method = "SETUP"
      /\ found # NULL
      /\ found \in Titled(during, q.title)
  BY DEF GenerateSession, At, Inv, HandlerInv, FoundInv
<1>2. now \in Session BY DEF Inv, TypeOK
<1>3. /\ q' = [q EXCEPT !.session = now]
      /\ request' \in [Client -> Request \cup {NULL}]
  BY <1>1, <1>2, SetupOfSession DEF GenerateSession, Inv, TypeOK, q
<1>4. q' \in Request /\ q'.method = "SETUP" /\ q'.title = q.title
  BY <1>1, <1>2, <1>3, SetupOfSession
<1>5. TypeOK'
  BY <1>3 DEF GenerateSession, Inv, TypeOK, lookup
<1>6. HandlerInv' BY <1>1, <1>4 DEF GenerateSession, HandlerInv
<1>7. FoundInv' BY <1>1, <1>4 DEF GenerateSession, FoundInv, lookup, Titled
<1>. QED BY <1>5, <1>6, <1>7 DEF Inv

(* The answers. *)
LEMMA ReplyStep ==
  ASSUME Inv, ReplyAtOnce \/ DescribeReply \/ PlayReply \/ SetupReply
  PROVE  Inv'
<1>1. serving \in Client /\ TypeOK
  BY DEF ReplyAtOnce, DescribeReply, PlayReply, SetupReply, At, Inv, HandlerInv
<1>2. q.session \in Session \cup {NULL}
  BY RequestFields DEF ReplyAtOnce, DescribeReply, PlayReply, SetupReply, At, Inv,
                       HandlerInv
<1>3. found \in Media \cup {NULL} BY <1>1 DEF TypeOK
<1>4. CASE ReplyAtOnce
  <2>1. PICK status \in {"OK", "REJECTED", "SESSION_NOT_FOUND"} : Reply(status, NULL, NULL)
    BY <1>4 DEF ReplyAtOnce
  <2>. QED BY <1>1, <1>4, <2>1, ReplyTypes DEF ReplyAtOnce
<1>5. CASE DescribeReply
  <2>1. PICK status \in {"OK", "SERVICE_UNAVAILABLE"} : Reply(status, NULL, found)
    BY <1>5 DEF DescribeReply
  <2>. QED BY <1>1, <1>3, <1>5, <2>1, ReplyTypes DEF DescribeReply
<1>6. CASE PlayReply
  <2>1. PICK status \in {"OK", "SERVICE_UNAVAILABLE", "SESSION_NOT_FOUND"},
             s \in {q.session, NULL} : Reply(status, s, NULL)
    BY <1>6 DEF PlayReply
  <2>. QED BY <1>1, <1>2, <1>6, <2>1, ReplyTypes DEF PlayReply
<1>7. CASE SetupReply
  <2>1. PICK status \in {"OK", "SERVICE_UNAVAILABLE", "SESSION_NOT_FOUND"},
             s \in {q.session, NULL} : Reply(status, s, NULL)
    BY <1>7 DEF SetupReply
  <2>. QED BY <1>1, <1>2, <1>7, <2>1, ReplyTypes DEF SetupReply
<1>. QED BY <1>4, <1>5, <1>6, <1>7

LEMMA InvStep == Inv /\ [Next]_vars => Inv'
<1> SUFFICES ASSUME Inv, [Next]_vars PROVE Inv'
  OBVIOUS
<1>1. CASE UNCHANGED vars
  BY <1>1 DEF vars, handler, lookup, Inv, TypeOK, HandlerInv, FoundInv, q, Titled
<1>. QED
  BY <1>1, EnvironmentStep, LookupStep, GenerateStep, ReplyStep DEF Next, Handle

(* The handler always works on a request that was received, and on a media   *)
(* its lookup returned (RtspServerListener.java:42-92 and 476-501).          *)
LEMMA Invariant == Spec => []Inv
BY InvInit, InvStep, PTL DEF Spec

(* Every reachable state of the listener is type correct. *)
THEOREM TypeCorrect == Spec => []TypeOK
<1>1. Inv => TypeOK BY DEF Inv
<1>. QED BY Invariant, <1>1, PTL

-----------------------------------------------------------------------------
(***************************************************************************)
(* The sessions.                                                           *)
(***************************************************************************)

(* Only GenerateSession touches the sessions. *)
LEMMA SessionsChange ==
  [Next]_vars => GenerateSession \/ UNCHANGED <<sessions, generated>>
BY DEF Next, vars, Tick, Add, Remove, Send, Handle, Receive, ReplyAtOnce, BeginLookup,
       EndLookup, LookupThrows, DescribeReply, PlayReply, SetupOfMissing, SetupFound,
       SetupReply

(* Only the answers of the handler change the responses. *)
LEMMA AnswerSteps ==
  [Next]_vars =>
    response' = response \/ ReplyAtOnce \/ DescribeReply \/ PlayReply \/ SetupReply
BY DEF Next, vars, Tick, Add, Remove, Send, Handle, Receive, BeginLookup, EndLookup,
       LookupThrows, SetupOfMissing, SetupFound, GenerateSession

(* generateSession() never gives an id twice, whatever the clock does between *)
(* two SETUPs (RtspServerListener.java:414-436).                              *)
THEOREM UniqueSessions == Spec => []SessionsAreUnique
<1>1. Init => SessionsAreUnique
  BY FS_EmptySet DEF Init, SessionsAreUnique
<1>2. Inv /\ SessionsAreUnique /\ [Next]_vars => SessionsAreUnique'
  <2> SUFFICES ASSUME Inv, SessionsAreUnique, [Next]_vars PROVE SessionsAreUnique'
    OBVIOUS
  <2>1. IsFiniteSet(sessions)
    <3>1. IsFiniteSet(0 .. IdPeriod - 1)
      BY FS_Interval, ListenerAssumption DEF ListenerAssumption
    <3>. QED BY <3>1, FS_Subset DEF Inv, TypeOK, Session
  <2>2. CASE GenerateSession
    <3>1. Cardinality(sessions \cup {now}) = Cardinality(sessions) + 1
      BY <2>1, <2>2, FS_AddElement DEF GenerateSession
    <3>. QED BY <2>2, <3>1 DEF GenerateSession, SessionsAreUnique
  <2>3. CASE UNCHANGED <<sessions, generated>>
    BY <2>3 DEF SessionsAreUnique
  <2>. QED BY <2>2, <2>3, SessionsChange
<1>. QED BY <1>1, <1>2, Invariant, PTL DEF Spec

(* A session that an answer names is one the server knows and never forgets  *)
(* (RtspServerListener.java:160-175 and 205-211).                            *)
THEOREM KnownSessions == Spec => []GivenSessionsAreKnown
<1>1. Init => GivenSessionsAreKnown
  BY DEF Init, GivenSessionsAreKnown
<1>2. Inv /\ GivenSessionsAreKnown /\ [Next]_vars => GivenSessionsAreKnown'
  <2> SUFFICES ASSUME Inv, GivenSessionsAreKnown, [Next]_vars,
                      NEW c \in Client, response'[c] # NULL
               PROVE  response'[c].session \in sessions' \cup {NULL}
    BY DEF GivenSessionsAreKnown
  <2>1. sessions \subseteq sessions'
    BY SessionsChange DEF GenerateSession
  <2>2. CASE response' = response
    BY <2>1, <2>2 DEF GivenSessionsAreKnown
  <2>3. ASSUME NEW status, NEW s \in sessions \cup {NULL}, NEW m, Reply(status, s, m)
        PROVE  response'[c].session \in sessions' \cup {NULL}
    <3>1. CASE c = serving
      BY <2>1, <2>3, <3>1 DEF Inv, TypeOK, Reply
    <3>2. CASE c # serving
      BY <2>1, <2>3, <3>2 DEF Inv, TypeOK, Reply, GivenSessionsAreKnown
    <3>. QED BY <3>1, <3>2
  <2>4. CASE ReplyAtOnce BY <2>3, <2>4 DEF ReplyAtOnce
  <2>5. CASE DescribeReply BY <2>3, <2>5 DEF DescribeReply
  <2>6. CASE PlayReply BY <2>3, <2>6 DEF PlayReply
  <2>7. CASE SetupReply BY <2>3, <2>7 DEF SetupReply
  <2>. QED BY <2>2, <2>4, <2>5, <2>6, <2>7, AnswerSteps
<1>. QED BY <1>1, <1>2, Invariant, PTL DEF Spec

(* Sessions can be trusted: no id is given twice, and none that was given is *)
(* forgotten (RtspServerListener.java:156-211, 430-435).                     *)
THEOREM SessionsAreTrusted == Spec => []SessionsFit
<1>1. SessionsAreUnique /\ GivenSessionsAreKnown => SessionsFit
  BY DEF SessionsFit
<1>. QED BY <1>1, UniqueSessions, KnownSessions, PTL

-----------------------------------------------------------------------------
(***************************************************************************)
(* The answers.                                                            *)
(***************************************************************************)

(* An answer is given to the request being served only. *)
LEMMA AnswerIsOwn ==
  ASSUME TypeOK, NEW status, NEW s, NEW m, Reply(status, s, m),
         NEW c \in Client, response'[c] # response[c]
  PROVE  /\ c = serving
         /\ response'[c] = [status |-> status, session |-> s, media |-> m]
BY DEF TypeOK, Reply

(* What an answer says of a media was true at some time of the lookup, for   *)
(* any registry, however it changes meanwhile (RtspServerListener.java:      *)
(* 106-214): the guarantee of the lookup, that it finds only what was listed *)
(* and misses a media only on a removal, carries through to the client.      *)
THEOREM TrueAnswers == Spec => AnswersFitTheRegistry
<1> DEFINE Fit(c) ==
             LET r       == request[c]
                 listed  == Titled(during, r.title)
                 streams == UNION {StreamsOf[m] : m \in listed}
             IN  /\ response'[c].status = "OK" =>
                      /\ listed # {}
                      /\ r.method = "DESCRIBE" => response'[c].media \in listed
                      /\ r.method = "SETUP" => r.stream \in streams
                 /\ response'[c].status = "SERVICE_UNAVAILABLE" =>
                      \/ Titled(throughout, r.title) = {}
                      \/ changed = "shrunk"
                      \/ r.method = "SETUP"
                           /\ \E m \in listed : r.stream \notin StreamsOf[m]
<1>1. ASSUME Inv, [Next]_vars, NEW c \in Client, response'[c] # response[c],
             request[c].title # NULL
      PROVE  Fit(c)
  <2>1. TypeOK /\ FoundInv /\ HandlerInv BY <1>1 DEF Inv
  <2>2. ASSUME NEW s, NEW m, Reply("OK", s, m), found # NULL,
               found \in Titled(during, q.title),
               q.method = "DESCRIBE" => m = found,
               q.method = "SETUP" => q.stream \in StreamsOf[found]
        PROVE  Fit(c)
    <3>1. c = serving /\ response'[c] = [status |-> "OK", session |-> s, media |-> m]
      BY <1>1, <2>1, <2>2, AnswerIsOwn
    <3>. QED BY <2>2, <3>1 DEF q
  <2>3. ASSUME Reply("SERVICE_UNAVAILABLE", NULL, NULL),
               \/ Titled(throughout, q.title) = {}
               \/ changed = "shrunk"
               \/ /\ q.method = "SETUP"
                  /\ \E m \in Titled(during, q.title) : q.stream \notin StreamsOf[m]
        PROVE  Fit(c)
    <3>1. /\ c = serving
          /\ response'[c] =
               [status |-> "SERVICE_UNAVAILABLE", session |-> NULL, media |-> NULL]
      BY <1>1, <2>1, <2>3, AnswerIsOwn
    <3>. QED BY <2>3, <3>1 DEF q
  <2>4. ASSUME Reply("SESSION_NOT_FOUND", NULL, NULL) PROVE Fit(c)
    <3>1. response'[c] = [status |-> "SESSION_NOT_FOUND", session |-> NULL, media |-> NULL]
      BY <1>1, <2>1, <2>4, AnswerIsOwn
    <3>. QED BY <3>1
  <2>5. CASE ReplyAtOnce
    <3>1. q \in Request /\ (c = serving => q.title # NULL)
      BY <1>1, <2>1, <2>5 DEF HandlerInv, ReplyAtOnce, At, q
    <3>2. c = serving
      BY <1>1, <2>1, <2>5, AnswerIsOwn DEF ReplyAtOnce
    <3>3. q.method \notin {"BAD", "OPTIONS"} BY <3>1, <3>2, RequestFields
    <3>. QED BY <2>4, <2>5, <3>3 DEF ReplyAtOnce
  <2>6. CASE DescribeReply
    <3>1. step = "found" /\ q.method = "DESCRIBE" BY <2>6 DEF DescribeReply, At
    <3>2. CASE found = NULL BY <2>1, <2>3, <2>6, <3>1, <3>2 DEF DescribeReply, FoundInv
    <3>3. CASE found # NULL BY <2>1, <2>2, <2>6, <3>1, <3>3 DEF DescribeReply, FoundInv
    <3>. QED BY <3>2, <3>3
  <2>7. CASE PlayReply
    <3>1. step = "found" /\ q.method = "PLAY" BY <2>7 DEF PlayReply, At
    <3>2. CASE found = NULL BY <2>1, <2>3, <2>7, <3>1, <3>2 DEF PlayReply, FoundInv
    <3>3. CASE found # NULL
      BY <2>1, <2>2, <2>4, <2>7, <3>1, <3>3 DEF PlayReply, FoundInv
    <3>. QED BY <3>2, <3>3
  <2>8. CASE SetupReply
    <3>1. /\ q.method = "SETUP" /\ found # NULL
          /\ found \in Titled(during, q.title)
      BY <2>1, <2>8 DEF SetupReply, At, FoundInv
    <3>. QED BY <2>2, <2>3, <2>4, <2>8, <3>1 DEF SetupReply
  <2>. QED BY <1>1, <2>5, <2>6, <2>7, <2>8, AnswerSteps
<1>2. Inv /\ [Next]_vars =>
        [ \A c \in Client :
            response'[c] # response[c] /\ request[c].title # NULL => Fit(c) ]_vars
  BY <1>1
<1>. QED BY <1>2, Invariant, PTL DEF Spec, AnswersFitTheRegistry

-----------------------------------------------------------------------------
(***************************************************************************)
(* RtspService.                                                            *)
(***************************************************************************)
(* Requests that have yet to create their stack. *)
Starting == {t \in Thread : pc[t] \in {"stop", "close", "release", "new"}}

(* The bound on stacks is kept because each request creates one. *)
Budget == created + Cardinality(Starting) <= MaxStacks

TypeInv == ServiceTypeOK /\ Budget

(* Whoever leaves the port free is on the way to bind a stack to it. *)
Restarting ==
  port # 0 \/ \E t \in Thread : pc[t] \in {"release", "new", "start", "bind"}

(* The state of a request that no other one has overlapped. *)
Serving == port = serverStack /\ channel[serverStack] = "open"

Disconnected == port = 0 /\ \A c \in Peer : connection[c] = 0

OnlyServed == \A c \in Peer : connection[c] \in {0, serverStack}

Phase(t) ==
  /\ pc[t] = "stop" => Serving
  /\ pc[t] = "close" => Serving /\ mine[t] = serverStack
  /\ pc[t] = "release" => port = 0 /\ mine[t] = serverStack
  /\ pc[t] \in {"new", "start"} => Disconnected
  /\ pc[t] = "bind" => Disconnected /\ mine[t] = serverStack
  /\ pc[t] = "assign" => port = serverStack /\ mine[t] = serverStack

Orderly ==
  /\ \A t, u \in Thread : pc[t] # "idle" /\ pc[u] # "idle" => t = u
  /\ replaced = {}
  /\ OnlyServed
  /\ Quiet => Serving
  /\ \A t \in Thread : Phase(t)

OneByOne == ~overlapped => Orderly

-----------------------------------------------------------------------------
(***************************************************************************)
(* Type correctness.                                                       *)
(***************************************************************************)

(* A request that stays on the same side of NewStack() keeps the budget. *)
LEMMA BudgetKept ==
  ASSUME Budget, created' = created, Starting' = Starting
  PROVE  Budget'
BY DEF Budget

(* Starting is a finite set, and its size a natural number. *)
LEMMA StartingFinite == IsFiniteSet(Starting) /\ Cardinality(Starting) \in Nat
<1>1. IsFiniteSet(Starting)
  BY ServiceAssumption, FS_Subset DEF ServiceAssumption, Starting
<1>. QED BY <1>1, FS_CardinalityType

(* A step of a request keeps the budget and the types. *)
LEMMA TypeStep == TypeInv /\ [ServiceNext]_serviceVars => TypeInv'
<1> SUFFICES ASSUME TypeInv, [ServiceNext]_serviceVars PROVE TypeInv'
  OBVIOUS
<1> USE ServiceAssumption DEF ServiceAssumption, Stack
<1>1. ASSUME NEW c \in Peer, Connect(c) \/ Disconnect(c) PROVE TypeInv'
  <2>1. connection' \in [Peer -> 0 .. MaxStacks]
    <3>1. /\ connection \in [Peer -> 0 .. MaxStacks]
          /\ port \in 0 .. MaxStacks
          /\ 0 \in 0 .. MaxStacks
      BY DEF TypeInv, ServiceTypeOK
    <3>2. CASE Connect(c) BY <3>1, <3>2 DEF Connect
    <3>3. CASE Disconnect(c) BY <3>1, <3>3 DEF Disconnect
    <3>. QED BY <1>1, <3>2, <3>3
  <2>2. ServiceTypeOK' BY <1>1, <2>1 DEF TypeInv, ServiceTypeOK, Connect, Disconnect
  <2>3. Budget'
    BY <1>1, BudgetKept DEF TypeInv, Starting, Connect, Disconnect
  <2>. QED BY <2>2, <2>3 DEF TypeInv
<1>2. ASSUME NEW t \in Thread, StopServer(t) PROVE TypeInv'
  <2>1. ServiceTypeOK' BY <1>2 DEF TypeInv, ServiceTypeOK, StopServer, Goto
  <2>2. Starting' = Starting \cup {t} /\ t \notin Starting
    BY <1>2 DEF TypeInv, ServiceTypeOK, StopServer, Goto, Starting
  <2>3. Cardinality(Starting') = Cardinality(Starting) + 1
    BY <2>2, StartingFinite, FS_AddElement
  <2> DEFINE Active == {u \in Thread : pc[u] # "idle"}
  <2>4. Cardinality(Starting) <= Cardinality(Active)
    <3>1. Starting \subseteq Active BY DEF Starting
    <3>2. IsFiniteSet(Active) BY FS_Subset
    <3>. QED BY <3>1, <3>2, FS_Subset
  <2>5. created' = created /\ created + Cardinality(Active) < MaxStacks
    BY <1>2 DEF StopServer
  <2>6. Cardinality(Active) \in Nat
    <3>1. IsFiniteSet(Active) BY FS_Subset
    <3>. QED BY <3>1, FS_CardinalityType
  <2> HIDE DEF Active
  <2>7. created \in Nat BY DEF TypeInv, ServiceTypeOK
  <2>8. Budget'
    BY <2>3, <2>4, <2>5, <2>6, <2>7, StartingFinite DEF Budget
  <2>. QED BY <2>1, <2>8 DEF TypeInv
<1>3. ASSUME NEW t \in Thread, NewStack(t) PROVE TypeInv'
  <2>1. Starting' = Starting \ {t} /\ t \in Starting
    BY <1>3 DEF TypeInv, ServiceTypeOK, NewStack, Goto, Starting
  <2>2. Cardinality(Starting') = Cardinality(Starting) - 1
    BY <2>1, StartingFinite, FS_RemoveElement
  <2>3. created \in Nat /\ created' = created + 1
    BY <1>3 DEF TypeInv, ServiceTypeOK, NewStack
  <2>4. Budget' BY <2>2, <2>3, StartingFinite DEF TypeInv, Budget
  <2>5. Cardinality(Starting') \in Nat
    BY <2>1, StartingFinite, FS_RemoveElement, FS_CardinalityType
  <2>6. created' \in Stack
    BY <2>3, <2>4, <2>5 DEF Budget
  <2>7. ServiceTypeOK' BY <1>3, <2>6 DEF TypeInv, ServiceTypeOK, NewStack, Goto
  <2>. QED BY <2>4, <2>7 DEF TypeInv
<1>4. ASSUME NEW t \in Thread,
             ReadStack(t) \/ StopFails(t) \/ Close(t) \/ Release(t)
               \/ StartStack(t) \/ Bind(t) \/ BindFails(t) \/ AssignChannel(t)
      PROVE  TypeInv'
  <2>1. ServiceTypeOK'
    <3>1. CASE ReadStack(t) \/ StartStack(t)
      BY <3>1 DEF TypeInv, ServiceTypeOK, ReadStack, StartStack, Goto
    <3>2. CASE StopFails(t) \/ Release(t)
      BY <3>2 DEF TypeInv, ServiceTypeOK, StopFails, Release, Goto
    <3>3. CASE Close(t)
      BY <3>3 DEF TypeInv, ServiceTypeOK, Close, Goto
    <3>4. CASE Bind(t)
      <4>1. mine[t] \in 0 .. MaxStacks BY DEF TypeInv, ServiceTypeOK
      <4>2. port' \in 0 .. MaxStacks BY <3>4, <4>1 DEF Bind
      <4>3. replaced' \in SUBSET Stack BY <3>4 DEF TypeInv, ServiceTypeOK, Bind
      <4>. QED BY <3>4, <4>2, <4>3 DEF TypeInv, ServiceTypeOK, Bind, Goto
    <3>5. CASE BindFails(t)
      BY <3>5 DEF TypeInv, ServiceTypeOK, BindFails, Goto
    <3>6. CASE AssignChannel(t)
      BY <3>6 DEF TypeInv, ServiceTypeOK, AssignChannel, Goto
    <3>. QED BY <1>4, <3>1, <3>2, <3>3, <3>4, <3>5, <3>6
  <2>2. Starting' = Starting
    <3>1. CASE ReadStack(t) \/ StopFails(t) \/ Close(t) \/ Release(t)
      BY <3>1 DEF TypeInv, ServiceTypeOK, Starting, ReadStack, StopFails, Close, Release, Goto
    <3>2. CASE StartStack(t) \/ Bind(t) \/ BindFails(t) \/ AssignChannel(t)
      BY <3>2 DEF TypeInv, ServiceTypeOK, Starting, StartStack, Bind, BindFails, AssignChannel,
                  Goto
    <3>. QED BY <1>4, <3>1, <3>2
  <2>3. created' = created
    BY <1>4 DEF ReadStack, StopFails, Close, Release, StartStack, Bind, BindFails,
                AssignChannel
  <2>4. Budget' BY <2>2, <2>3, BudgetKept DEF TypeInv
  <2>. QED BY <2>1, <2>4 DEF TypeInv
<1>5. CASE UNCHANGED serviceVars
  <2>1. ServiceTypeOK' BY <1>5 DEF TypeInv, ServiceTypeOK, serviceVars
  <2>2. Budget' BY <1>5, BudgetKept DEF TypeInv, Starting, serviceVars
  <2>. QED BY <2>1, <2>2 DEF TypeInv
<1>. QED BY <1>1, <1>2, <1>3, <1>4, <1>5 DEF ServiceNext, RequestStep

(* The first state, in which no request runs. *)
LEMMA TypeInit == ServiceInit => TypeInv
<1> SUFFICES ASSUME ServiceInit PROVE TypeInv
  OBVIOUS
<1>1. ServiceTypeOK
  <2>1. 1 \in Stack /\ {0, 1} \subseteq 0 .. MaxStacks
    BY ServiceAssumption DEF ServiceAssumption, Stack
  <2>2. channel \in [Stack -> {"null", "open", "closed"}]
    BY DEF ServiceInit
  <2>3. /\ connection \in [Peer -> 0 .. MaxStacks]
        /\ mine \in [Thread -> Stack]
    BY <2>1 DEF ServiceInit
  <2>4. pc \in [Thread -> {"idle", "stop", "close", "release", "new", "start", "bind",
                           "assign"}]
    BY DEF ServiceInit
  <2>. QED BY <2>1, <2>2, <2>3, <2>4 DEF ServiceInit, ServiceTypeOK
<1>2. Starting = {} BY DEF ServiceInit, Starting
<1>3. Budget
  BY <1>2, FS_EmptySet, ServiceAssumption DEF ServiceAssumption, ServiceInit, Budget
<1>. QED BY <1>1, <1>3 DEF TypeInv

(* Every reachable state of the service is type correct, however many        *)
(* requests overlap; in particular no more stacks are created than requests. *)
THEOREM ServiceTypeCorrect == ServiceSpec => []ServiceTypeOK
<1>1. TypeInv => ServiceTypeOK BY DEF TypeInv
<1>. QED BY TypeInit, TypeStep, <1>1, PTL DEF ServiceSpec

-----------------------------------------------------------------------------
(***************************************************************************)
(* The service is never lost.                                              *)
(***************************************************************************)

(* The port is freed by a request that goes on to bind a stack, and a bind *)
(* fails only if the port is in use.                                       *)
LEMMA RestartingStep == ServiceTypeOK /\ Restarting /\ [ServiceNext]_serviceVars => Restarting'
<1> SUFFICES ASSUME ServiceTypeOK, Restarting, [ServiceNext]_serviceVars PROVE Restarting'
  OBVIOUS
<1> USE DEF ServiceTypeOK, Restarting, Stack
<1>1. ASSUME NEW c \in Peer, Connect(c) \/ Disconnect(c) PROVE Restarting'
  BY <1>1 DEF Connect, Disconnect
<1>2. ASSUME NEW t \in Thread, StopServer(t) \/ ReadStack(t) PROVE Restarting'
  BY <1>2 DEF StopServer, ReadStack, Goto
<1>3. ASSUME NEW t \in Thread, StopFails(t) \/ Close(t) \/ Release(t) PROVE Restarting'
  BY <1>3 DEF StopFails, Close, Release, Goto
<1>4. ASSUME NEW t \in Thread, NewStack(t) \/ StartStack(t) PROVE Restarting'
  BY <1>4 DEF NewStack, StartStack, Goto
<1>5. ASSUME NEW t \in Thread, Bind(t) PROVE Restarting'
  BY <1>5, ServiceAssumption DEF Bind, Goto, ServiceAssumption
<1>6. ASSUME NEW t \in Thread, BindFails(t) PROVE Restarting'
  BY <1>6 DEF BindFails, Goto
<1>7. ASSUME NEW t \in Thread, AssignChannel(t) PROVE Restarting'
  BY <1>7 DEF AssignChannel, Goto
<1>8. CASE UNCHANGED serviceVars
  BY <1>8 DEF serviceVars
<1>. QED
  BY <1>1, <1>2, <1>3, <1>4, <1>5, <1>6, <1>7, <1>8 DEF ServiceNext, RequestStep

(* However many StopServer requests overlap, and wherever they are           *)
(* interrupted by one another, a stack serves the port when none runs        *)
(* (ServerRTSP.java:159-201).                                                *)
THEOREM NeverLost == ServiceSpec => []ServesWhenQuiet
<1>1. ServiceInit => Restarting BY DEF ServiceInit, Restarting
<1>2. Restarting => ServesWhenQuiet BY DEF Restarting, ServesWhenQuiet, Quiet
<1>. QED BY <1>1, <1>2, RestartingStep, ServiceTypeCorrect, PTL DEF ServiceSpec

-----------------------------------------------------------------------------
(***************************************************************************)
(* One request at a time.                                                  *)
(***************************************************************************)

(* Clients come and go, and do not come while the port is free. *)
LEMMA ClientsKeepOrder ==
  ASSUME ServiceTypeOK, Orderly, NEW c \in Peer, Connect(c) \/ Disconnect(c)
  PROVE  Orderly'
<1>1. /\ port # 0 \/ \A d \in Peer : connection'[d] \in {0, connection[d]}
      /\ \A d \in Peer : connection'[d] \in {0, connection[d], port}
  BY DEF ServiceTypeOK, Connect, Disconnect
<1>2. UNCHANGED <<serverStack, channel, replaced, port, pc, mine>>
  BY DEF Connect, Disconnect
<1>3. port \in {0, serverStack}
  BY DEF Orderly, Quiet, Serving, Phase, Disconnected, ServiceTypeOK
<1>4. OnlyServed' BY <1>1, <1>2, <1>3 DEF Orderly, OnlyServed
<1>5. (Quiet => Serving)' BY <1>2 DEF Orderly, Quiet, Serving
<1>6. Disconnected => Disconnected' BY <1>1, <1>2 DEF Disconnected
<1>7. ASSUME NEW t \in Thread PROVE Phase(t)'
  BY <1>2, <1>6 DEF Orderly, Phase, Serving
<1>. QED BY <1>2, <1>4, <1>5, <1>7 DEF Orderly

(* A request that begins is the only one. *)
LEMMA BeginKeepsOrder ==
  ASSUME ServiceTypeOK, Orderly, NEW t \in Thread, StopServer(t), ~overlapped'
  PROVE  Orderly'
<1>1. Quiet /\ Serving BY DEF ServiceTypeOK, StopServer, Orderly
<1>2. UNCHANGED <<serverStack, channel, replaced, port, connection, mine>>
  BY DEF StopServer
<1>3. \A u \in Thread : pc'[u] = IF u = t THEN "stop" ELSE "idle"
  BY <1>1 DEF ServiceTypeOK, StopServer, Goto, Quiet
<1>4. Serving' /\ OnlyServed' /\ replaced' = {}
  BY <1>1, <1>2 DEF Orderly, Serving, OnlyServed
<1>5. ASSUME NEW u \in Thread PROVE Phase(u)'
  BY <1>3, <1>4 DEF Phase
<1>. QED BY <1>3, <1>4, <1>5 DEF Orderly, Quiet

(* A step of the only request takes it to its next phase. *)
LEMMA RequestKeepsOrder ==
  ASSUME ServiceTypeOK, Orderly, NEW t \in Thread, RequestStep(t)
  PROVE  Orderly'
<1> DEFINE at(s) == \A u \in Thread : pc'[u] = IF u = t THEN s ELSE "idle"
<1>1. /\ pc[t] # "idle"
      /\ \A u \in Thread \ {t} : pc[u] = "idle"
  <2>1. pc[t] # "idle"
    BY DEF RequestStep, Goto, ReadStack, StopFails, Close, Release, NewStack, StartStack,
           Bind, BindFails, AssignChannel
  <2>. QED BY <2>1 DEF Orderly
<1>2. replaced = {} /\ OnlyServed /\ Phase(t) BY DEF Orderly
<1>3. CASE ReadStack(t)
  <2>1. at("close") BY <1>1, <1>3 DEF ServiceTypeOK, ReadStack, Goto
  <2>2. Serving' /\ mine'[t] = serverStack' /\ OnlyServed' /\ replaced' = {}
    BY <1>2, <1>3 DEF ServiceTypeOK, ReadStack, Goto, Phase, Serving, OnlyServed
  <2>3. \A u \in Thread : Phase(u)' BY <2>1, <2>2 DEF Phase
  <2>. QED BY <2>1, <2>2, <2>3 DEF Orderly, Quiet
<1>4. CASE StopFails(t)
  BY <1>2, <1>4 DEF StopFails, Goto, Phase, Serving
<1>5. CASE Close(t)
  <2>1. at("release") BY <1>1, <1>5 DEF ServiceTypeOK, Close, Goto
  <2>2. port' = 0 /\ mine'[t] = serverStack' /\ OnlyServed' /\ replaced' = {}
    BY <1>2, <1>5 DEF Close, Goto, Phase, Serving, OnlyServed
  <2>3. \A u \in Thread : Phase(u)' BY <2>1, <2>2 DEF Phase
  <2>. QED BY <2>1, <2>2, <2>3 DEF Orderly, Quiet
<1>6. CASE Release(t)
  <2>1. at("new") BY <1>1, <1>6 DEF ServiceTypeOK, Release, Goto
  <2>2. port = 0 /\ mine[t] = serverStack /\ Connected(mine[t]) = {}
    BY <1>2, <1>6 DEF Release, Goto, Phase
  <2>3. Disconnected' /\ OnlyServed' /\ replaced' = {}
    BY <1>2, <1>6, <2>2 DEF Release, Connected, Disconnected, OnlyServed
  <2>4. \A u \in Thread : Phase(u)' BY <2>1, <2>3 DEF Phase
  <2>. QED BY <2>1, <2>3, <2>4 DEF Orderly, Quiet
<1>7. CASE NewStack(t)
  <2>1. at("start") BY <1>1, <1>7 DEF ServiceTypeOK, NewStack, Goto
  <2>2. Disconnected' /\ OnlyServed' /\ replaced' = {}
    BY <1>2, <1>7 DEF NewStack, Goto, Phase, Disconnected, OnlyServed
  <2>3. \A u \in Thread : Phase(u)' BY <2>1, <2>2 DEF Phase
  <2>. QED BY <2>1, <2>2, <2>3 DEF Orderly, Quiet
<1>8. CASE StartStack(t)
  <2>1. at("bind") BY <1>1, <1>8 DEF ServiceTypeOK, StartStack, Goto
  <2>2. /\ Disconnected' /\ OnlyServed' /\ replaced' = {}
        /\ mine'[t] = serverStack'
    BY <1>2, <1>8 DEF ServiceTypeOK, StartStack, Goto, Phase, Disconnected, OnlyServed
  <2>3. \A u \in Thread : Phase(u)' BY <2>1, <2>2 DEF Phase
  <2>. QED BY <2>1, <2>2, <2>3 DEF Orderly, Quiet
<1>9. CASE Bind(t)
  <2>1. at("assign") BY <1>1, <1>9 DEF ServiceTypeOK, Bind, Goto
  <2>2. /\ port' = serverStack' /\ mine'[t] = serverStack'
        /\ OnlyServed' /\ replaced' = {}
    BY <1>2, <1>9 DEF Bind, Goto, Phase, OnlyServed
  <2>3. \A u \in Thread : Phase(u)' BY <2>1, <2>2 DEF Phase
  <2>. QED BY <2>1, <2>2, <2>3 DEF Orderly, Quiet
<1>10. CASE BindFails(t)
  BY <1>2, <1>10 DEF BindFails, Goto, Phase, Disconnected
<1>11. CASE AssignChannel(t)
  <2>1. at("idle") BY <1>1, <1>11 DEF ServiceTypeOK, AssignChannel, Goto
  <2>2. Serving' /\ OnlyServed' /\ replaced' = {}
    BY <1>2, <1>11 DEF ServiceTypeOK, AssignChannel, Goto, Phase, Serving, OnlyServed
  <2>3. \A u \in Thread : Phase(u)' BY <2>1 DEF Phase
  <2>. QED BY <2>1, <2>2, <2>3 DEF Orderly
<1>. QED
  BY <1>3, <1>4, <1>5, <1>6, <1>7, <1>8, <1>9, <1>10, <1>11 DEF RequestStep

(* Order is kept as long as nothing overlaps. *)
LEMMA OneByOneStep == ServiceTypeOK /\ OneByOne /\ [ServiceNext]_serviceVars => OneByOne'
<1> SUFFICES ASSUME ServiceTypeOK, OneByOne, [ServiceNext]_serviceVars, ~overlapped' PROVE Orderly'
  BY DEF OneByOne
<1>1. ASSUME NEW c \in Peer, Connect(c) \/ Disconnect(c) PROVE Orderly'
  <2>1. ~overlapped BY <1>1 DEF Connect, Disconnect
  <2>. QED BY <1>1, <2>1, ClientsKeepOrder DEF OneByOne
<1>2. ASSUME NEW t \in Thread, StopServer(t) PROVE Orderly'
  <2>1. ~overlapped BY <1>2 DEF StopServer, ServiceTypeOK
  <2>. QED BY <1>2, <2>1, BeginKeepsOrder DEF OneByOne
<1>3. ASSUME NEW t \in Thread, RequestStep(t) PROVE Orderly'
  <2>1. ~overlapped
    BY <1>3 DEF RequestStep, ReadStack, StopFails, Close, Release, NewStack, StartStack,
                Bind, BindFails, AssignChannel
  <2>. QED BY <1>3, <2>1, RequestKeepsOrder DEF OneByOne
<1>4. CASE UNCHANGED serviceVars
  BY <1>4 DEF serviceVars, OneByOne, Orderly, OnlyServed, Quiet, Serving, Phase, Disconnected
<1>. QED BY <1>1, <1>2, <1>3, <1>4 DEF ServiceNext

(* As long as no two requests overlap, stop() leaves the port free and no    *)
(* client connected, and between requests the field holds the stack that     *)
(* serves (ServerRTSP.java:174-201): what goes wrong needs an overlap.       *)
THEOREM TrackIsKept == ServiceSpec => []KeepsTrack
<1>1. ServiceInit => OneByOne
  <2> SUFFICES ASSUME ServiceInit PROVE Orderly
    BY DEF OneByOne
  <2>1. Serving /\ OnlyServed /\ replaced = {}
    BY ServiceAssumption DEF ServiceAssumption, ServiceInit, Stack, Serving, OnlyServed
  <2>. QED BY <2>1 DEF ServiceInit, Orderly, Phase
<1>2. OneByOne => KeepsTrack
  BY DEF OneByOne, Orderly, KeepsTrack, Phase, Serving, Disconnected
<1>. QED BY <1>1, <1>2, OneByOneStep, ServiceTypeCorrect, PTL DEF ServiceSpec
=============================================================================
