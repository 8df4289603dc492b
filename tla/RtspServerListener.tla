------------------------- MODULE RtspServerListener -------------------------
(***************************************************************************)
(* The request handlers of the multicast server.  Requests of all          *)
(* connections are handled one at a time (RtspServerStackImpl holds the    *)
(* monitor of the listener); the media they look up come and go meanwhile. *)
(*                                                                         *)
(* A lookup takes two steps, from the creation of its iterator to its      *)
(* result.  What it may return or miss when the list changes in between is *)
(* what MediaReaders shows of the iterator: a media is missed only after a *)
(* removal, and an exception needs a modification.  Every exception of a   *)
(* lookup ends in System.exit().                                           *)
(*                                                                         *)
(* URIs have the form the client library builds, rtsp://host:port/title    *)
(* or, for SETUP, rtsp://host:port/title/stream.                           *)
(***************************************************************************)
EXTENDS Naturals, FiniteSets

CONSTANTS
  Client,       \* connections
  Media,        \* media that may be on air
  Title,        \* their titles
  TitleOf,      \* title of each media
  Stream,       \* names of streams in a URI
  StreamsOf,    \* streams of each media
  IdPeriod,     \* bound: milliseconds after which generated ids repeat
  MaxSessions,  \* bound: sessions generated
  NULL

ASSUME ListenerAssumption ==
  /\ TitleOf \in [Media -> Title]
  /\ StreamsOf \in [Media -> SUBSET Stream]
  /\ IdPeriod \in Nat \ {0}
  /\ MaxSessions \in 1 .. IdPeriod
  /\ NULL \notin Client \cup Media \cup Title \cup Stream \cup Nat

(* The ids that generateSession() can come to, numbered by the millisecond *)
(* that seeds the generator.                                               *)
Session == 0 .. IdPeriod - 1

(* "BAD" is a request that getcSeq(), checkProtocol(), getMethod() or *)
(* checkTransport() rejects.                                          *)
Request ==
  [method : {"BAD", "OPTIONS"}, title : {NULL}, stream : {NULL}, session : {NULL}]
    \cup [method : {"DESCRIBE"}, title : Title, stream : {NULL}, session : {NULL}]
    \cup [method : {"PLAY"}, title : Title, stream : {NULL},
          session : Session \cup {NULL}]
    \cup [method : {"SETUP"}, title : Title, stream : Stream,
          session : Session \cup {NULL}]

(* The status, the Session header and the media whose SDP is sent. *)
Response ==
  [status  : {"OK", "REJECTED", "SERVICE_UNAVAILABLE", "SESSION_NOT_FOUND"},
   session : Session \cup {NULL},
   media   : Media \cup {NULL}]

ASSUME NullAssumption == NULL \notin Request \cup Response

VARIABLES
  onAir,       \* the media in ServerRTSP.medias
  sessions,    \* ServerRTSP.sessions
  now,         \* the id the current millisecond seeds
  request,     \* request of each connection that is not yet answered
  response,    \* last response on each connection
  serving,     \* connection whose request holds the monitor of the listener
  step,        \* next step of its handler
  found,       \* the media its lookup returned
  exited,      \* has System.exit() been called, and why?
  during,      \* media listed at some time of the running lookup
  throughout,  \* media listed all the time of the running lookup
  changed,     \* what happened to the list since the lookup began
  generated    \* history: number of sessions generated

handler == <<serving, step, found>>
lookup  == <<during, throughout, changed>>
vars == <<onAir, sessions, now, request, response, handler, exited, lookup,
          generated>>

TypeOK ==
  /\ onAir \in SUBSET Media
  /\ sessions \in SUBSET Session
  /\ now \in Session
  /\ request \in [Client -> Request \cup {NULL}]
  /\ response \in [Client -> Response \cup {NULL}]
  /\ serving \in Client \cup {NULL}
  /\ step \in {"idle", "begin", "lookup", "found", "generate", "reply"}
  /\ found \in Media \cup {NULL}
  /\ exited \in {"no", "missing", "raced"}
  /\ during \in SUBSET Media
  /\ throughout \in SUBSET during
  /\ changed \in {"no", "grown", "shrunk"}
  /\ generated \in Nat

Init ==
  /\ onAir = {}
  /\ sessions = {}
  /\ now = 0
  /\ request = [c \in Client |-> NULL]
  /\ response = [c \in Client |-> NULL]
  /\ serving = NULL
  /\ step = "idle"
  /\ found = NULL
  /\ exited = "no"
  /\ during = {}
  /\ throughout = {}
  /\ changed = "no"
  /\ generated = 0

(* The request being handled. *)
q == request[serving]

Titled(S, t) == {m \in S : TitleOf[m] = t}

(* The process is alive and its handler is at the given step. *)
At(s) == exited = "no" /\ step = s

-----------------------------------------------------------------------------
(***************************************************************************)
(* The environment: the clock, the registry and the clients.               *)
(***************************************************************************)
Tick ==
  /\ exited = "no"
  /\ now' = (now + 1) % IdPeriod
  /\ UNCHANGED <<onAir, sessions, request, response, handler, exited, lookup,
                 generated>>

(* addMedia(), deleteMedia() or deleteAllMedia() updates the list. *)
Add(m) ==
  /\ exited = "no"
  /\ m \notin onAir
  /\ onAir' = onAir \cup {m}
  /\ IF step = "lookup"
       THEN /\ during' = during \cup {m}
            /\ changed' = IF changed = "no" THEN "grown" ELSE changed
       ELSE UNCHANGED <<during, changed>>
  /\ UNCHANGED <<sessions, now, request, response, handler, exited, throughout,
                 generated>>

Remove(m) ==
  /\ exited = "no"
  /\ m \in onAir
  /\ onAir' = onAir \ {m}
  /\ IF step = "lookup"
       THEN throughout' = throughout \ {m} /\ changed' = "shrunk"
       ELSE UNCHANGED <<throughout, changed>>
  /\ UNCHANGED <<sessions, now, request, response, handler, exited, during,
                 generated>>

(* A client sends a request when its last one has been answered. *)
Send(c) ==
  /\ exited = "no"
  /\ request[c] = NULL
  /\ \E r \in Request :
       /\ r.method = "SETUP" /\ r.session = NULL =>
            generated + Cardinality({d \in Client :
              request[d] # NULL /\ request[d].method = "SETUP"}) < MaxSessions
       /\ request' = [request EXCEPT ![c] = r]
  /\ UNCHANGED <<onAir, sessions, now, response, handler, exited, lookup,
                 generated>>

-----------------------------------------------------------------------------
(***************************************************************************)
(* The handlers.                                                           *)
(***************************************************************************)

(* Answer the request and leave the monitor. *)
Reply(status, session, media) ==
  /\ response' = [response EXCEPT ![serving] =
                    [status |-> status, session |-> session, media |-> media]]
  /\ request' = [request EXCEPT ![serving] = NULL]
  /\ serving' = NULL
  /\ step' = "idle"
  /\ found' = NULL
  /\ during' = {}
  /\ throughout' = {}
  /\ changed' = "no"

(* Enter the monitor and onRtspRequest().  A PLAY without a Session header is *)
(* refused before the media is looked up.                                     *)
Receive(c) ==
  /\ At("idle")
  /\ request[c] # NULL
  /\ serving' = c
  /\ step' = IF \/ request[c].method \in {"BAD", "OPTIONS"}
                \/ request[c].method = "PLAY" /\ request[c].session = NULL
               THEN "reply"
               ELSE "begin"
  /\ UNCHANGED <<onAir, sessions, now, request, response, found, exited, lookup,
                 generated>>

(* Answers that need no media. *)
ReplyAtOnce ==
  /\ At("reply")
  /\ q.method # "SETUP"
  /\ \/ q.method = "BAD"     /\ Reply("REJECTED", NULL, NULL)
     \/ q.method = "OPTIONS" /\ Reply("OK", NULL, NULL)
     \/ q.method = "PLAY"    /\ Reply("SESSION_NOT_FOUND", NULL, NULL)
  /\ UNCHANGED <<onAir, sessions, now, exited, generated>>

(* medias.iterator() in ServerRTSP.getMedia() *)
BeginLookup ==
  /\ At("begin")
  /\ step' = "lookup"
  /\ during' = onAir
  /\ throughout' = onAir
  /\ changed' = "no"
  /\ UNCHANGED <<onAir, sessions, now, request, response, serving, found, exited,
                 generated>>

(* getMedia() returns; it misses a media that was there only on a removal. *)
EndLookup ==
  /\ At("lookup")
  /\ \E f \in Titled(during, q.title) \cup {NULL} :
       /\ f = NULL => changed = "shrunk" \/ Titled(throughout, q.title) = {}
       /\ found' = f
  /\ step' = "found"
  /\ UNCHANGED <<onAir, sessions, now, request, response, serving, exited, lookup,
                 generated>>

(* next() throws; the handler calls System.exit(-1). *)
LookupThrows ==
  /\ At("lookup")
  /\ changed # "no"
  /\ exited' = "raced"
  /\ UNCHANGED <<onAir, sessions, now, request, response, handler, lookup,
                 generated>>

DescribeReply ==
  /\ At("found")
  /\ q.method = "DESCRIBE"
  /\ \/ found = NULL /\ Reply("SERVICE_UNAVAILABLE", NULL, NULL)
     \/ found # NULL /\ Reply("OK", NULL, found)
  /\ UNCHANGED <<onAir, sessions, now, exited, generated>>

(* Mutant of PlayReply: the session is not checked. *)
PlayReplyAnySession ==
  /\ At("found")
  /\ q.method = "PLAY"
  /\ IF found = NULL THEN Reply("SERVICE_UNAVAILABLE", NULL, NULL)
                     ELSE Reply("OK", q.session, NULL)
  /\ UNCHANGED <<onAir, sessions, now, exited, generated>>

PlayReply ==
  /\ At("found")
  /\ q.method = "PLAY"
  /\ \/ /\ found = NULL
        /\ Reply("SERVICE_UNAVAILABLE", NULL, NULL)
     \/ /\ found # NULL /\ q.session \notin sessions
        /\ Reply("SESSION_NOT_FOUND", NULL, NULL)
     \/ /\ found # NULL /\ q.session \in sessions
        /\ Reply("OK", q.session, NULL)
  /\ UNCHANGED <<onAir, sessions, now, exited, generated>>

(* generateTransport() calls the method of a null media; the exception is *)
(* caught with System.exit(-1).                                           *)
SetupOfMissing ==
  /\ At("found")
  /\ q.method = "SETUP"
  /\ found = NULL
  /\ exited' = "missing"
  /\ UNCHANGED <<onAir, sessions, now, request, response, handler, lookup,
                 generated>>

SetupFound ==
  /\ At("found")
  /\ q.method = "SETUP"
  /\ found # NULL
  /\ step' = IF q.session = NULL THEN "generate" ELSE "reply"
  /\ UNCHANGED <<onAir, sessions, now, request, response, serving, found, exited,
                 lookup, generated>>

(* Mutant of GenerateSession: the new id is not compared with the old ones. *)
GenerateAnySession ==
  /\ At("generate")
  /\ sessions' = sessions \cup {now}
  /\ request' = [request EXCEPT ![serving].session = now]
  /\ step' = "reply"
  /\ generated' = generated + 1
  /\ UNCHANGED <<onAir, now, response, serving, found, exited, lookup>>

(* Mutant of GenerateSession: every try is seeded with the same millisecond. *)
GenerateSameSeed ==
  /\ At("generate")
  /\ now = 0
  /\ now \notin sessions
  /\ sessions' = sessions \cup {now}
  /\ request' = [request EXCEPT ![serving].session = now]
  /\ step' = "reply"
  /\ generated' = generated + 1
  /\ UNCHANGED <<onAir, now, response, serving, found, exited, lookup>>

(* generateSession() tries until the millisecond gives a new id.  The id is *)
(* kept in the request, as if the client had sent it.                       *)
GenerateSession ==
  /\ At("generate")
  /\ now \notin sessions
  /\ sessions' = sessions \cup {now}
  /\ request' = [request EXCEPT ![serving].session = now]
  /\ step' = "reply"
  /\ generated' = generated + 1
  /\ UNCHANGED <<onAir, now, response, serving, found, exited, lookup>>

(* Mutant of SetupReply: the transport is not checked. *)
SetupReplyAnyStream ==
  /\ At("reply")
  /\ q.method = "SETUP"
  /\ IF q.session \notin sessions THEN Reply("SESSION_NOT_FOUND", NULL, NULL)
                                  ELSE Reply("OK", q.session, NULL)
  /\ UNCHANGED <<onAir, sessions, now, exited, generated>>

SetupReply ==
  /\ At("reply")
  /\ q.method = "SETUP"
  /\ \/ /\ q.session \notin sessions
        /\ Reply("SESSION_NOT_FOUND", NULL, NULL)
     \/ /\ q.session \in sessions /\ q.stream \notin StreamsOf[found]
        /\ Reply("SERVICE_UNAVAILABLE", NULL, NULL)
     \/ /\ q.session \in sessions /\ q.stream \in StreamsOf[found]
        /\ Reply("OK", q.session, NULL)
  /\ UNCHANGED <<onAir, sessions, now, exited, generated>>

Handle ==
  \/ \E c \in Client : Receive(c)
  \/ ReplyAtOnce
  \/ BeginLookup
  \/ EndLookup
  \/ LookupThrows
  \/ DescribeReply
  \/ PlayReply
  \/ SetupOfMissing
  \/ SetupFound
  \/ GenerateSession
  \/ SetupReply

Next ==
  \/ Tick
  \/ \E m \in Media : Add(m) \/ Remove(m)
  \/ \E c \in Client : Send(c)
  \/ Handle

Spec == Init /\ [][Next]_vars

(* The clock runs, and so do the worker threads of the stack.  Which of the *)
(* waiting connections enters the monitor is up to the JVM: strong fairness *)
(* for each connection is assumed of it.                                    *)
FairSpec ==
  /\ Spec
  /\ WF_vars(Tick)
  /\ WF_vars(Handle)
  /\ SF_vars(GenerateSession)
  /\ \A c \in Client : SF_vars(Receive(c))

-----------------------------------------------------------------------------
(***************************************************************************)
(* Properties.                                                             *)
(***************************************************************************)

(* generateSession() never hands out an id twice, also when two clients set *)
(* up in the same millisecond (RtspServerListener.java:430-435).            *)
SessionsAreUnique == generated = Cardinality(sessions)

(* A session a client holds is one the server knows: a client that was      *)
(* answered OK is never refused for its session later, whatever the media   *)
(* do meanwhile (RtspServerListener.java:160-175 and 205-211).              *)
GivenSessionsAreKnown ==
  \A c \in Client :
    response[c] # NULL => response[c].session \in sessions \cup {NULL}

(* What makes a session trustworthy: its id is of one SETUP only, and the   *)
(* server knows it as long as a client holds it, also when several SETUPs   *)
(* fall in one millisecond or are refused (RtspServerListener.java:156-211).*)
SessionsFit == SessionsAreUnique /\ GivenSessionsAreKnown

(* What an answer says of a media was true at some time while the handler   *)
(* looked for it: OK names a media (and, for SETUP, a stream of it) that was *)
(* listed; 503 says that none was listed all the while, that one was removed *)
(* meanwhile or that the stream is unknown (RtspServerListener.java:106-213).*)
AnswersFitTheRegistry ==
  [][ \A c \in Client :
        response'[c] # response[c] /\ request[c].title # NULL =>
          LET r       == request[c]
              listed  == Titled(during, r.title)
              streams == UNION {StreamsOf[m] : m \in listed}
          IN  /\ response'[c].status = "OK" =>
                   /\ listed # {}
                   /\ r.method = "DESCRIBE" => response'[c].media \in listed
                   /\ r.method = "SETUP" => r.stream \in streams
              /\ response'[c].status = "SERVICE_UNAVAILABLE" =>
                   \/ Titled(throughout, r.title) = {}
                   \/ changed = "shrunk"
                   \/ r.method = "SETUP"
                        /\ \E m \in listed : r.stream \notin StreamsOf[m] ]_vars

(* As long as the process lives every request is answered: the monitor of   *)
(* the listener is always left and generateSession() finds a new id         *)
(* (RtspServerStackImpl.java:90-94, RtspServerListener.java:414-436).       *)
RequestsAreAnswered ==
  \A c \in Client :
    request[c] # NULL ~> request[c] = NULL \/ exited # "no"
=============================================================================
