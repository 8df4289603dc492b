----------------------------- MODULE ClientRTSP -----------------------------
(***************************************************************************)
(* The RTSP client library as the Android player uses it.                  *)
(*                                                                         *)
(* ClientRTSP is one object for all plays.  A player registers itself as   *)
(* its observer and queues a task that runs playMedia(); one task runs at  *)
(* a time (AsyncTask).  playMedia() resets the fields, stops the old stack,*)
(* creates a new one, connects and sends DESCRIBE.  From then on the       *)
(* worker thread of the stack drives the handshake: each response handler  *)
(* checks the response against the fields and sends the next request.      *)
(*                                                                         *)
(* Until playMedia() has stopped the old stack, the old worker and the     *)
(* task work on the same fields.  Stopping waits for the worker to end and *)
(* interrupts it, so afterwards the task is alone until DESCRIBE is sent.  *)
(*                                                                         *)
(* The server answers each request, with an error or with what             *)
(* RtspServerListener answers.  Another server may also send responses     *)
(* nobody asked for.  Connections may be refused, be closed silently or be *)
(* reset.                                                                  *)
(***************************************************************************)
EXTENDS Naturals, Sequences

CONSTANTS
  Media,      \* media to play
  Stream,     \* names of their streams
  StreamsOf,  \* streams of the SDP of each media, in its order
  MaxPlays,   \* bound: players opened
  MaxStrays,  \* bound: responses nobody asked for
  NULL

ASSUME ClientAssumption ==
  /\ StreamsOf \in [Media -> Seq(Stream) \ {<<>>}]
  /\ MaxPlays \in Nat
  /\ MaxStrays \in Nat
  /\ "PLAY" \notin Stream
  /\ NULL \notin Media \cup Stream \cup Nat \cup {"DESCRIBE", "SETUP", "PLAY"}

Play == 1 .. MaxPlays

VARIABLES
  \* fields of ClientRTSP
  cmd_sent, media, cSeq, session, sdp, streamsSetup, clientStack,
  \* the players and their tasks
  play,          \* number of players opened
  target,        \* media each of them plays
  observer,      \* the registered observer, 0 for none
  outcome,       \* what each player was notified of, and of whose handshake
  task,          \* the play whose task runs or ran last
  pc,            \* next statement of playMedia(), "idle" if none runs
  interrupted,   \* has the running task been cancelled?
  \* stack k is the one created by the task of play k
  chan,          \* its channel
  dial,          \* its connection attempt
  unsent,        \* request to write once it is connected
  worker,        \* state of its worker thread
  next,          \* the stream to set up or "PLAY", to be sent by the worker
  toServer,      \* requests on the connection
  toClient,      \* responses on the connection
  \* the server
  issued,        \* number of sessions issued
  strays,        \* number of responses sent that nobody asked for
  answered,      \* history: requests answered OK on each connection
  cut            \* history: was a connection closed without an exception?

fields  == <<cmd_sent, media, cSeq, session, sdp, streamsSetup, clientStack>>
players == <<play, target>>
told    == <<observer, outcome>>
caller  == <<task, pc, interrupted>>
wire    == <<chan, dial, unsent>>
threads == <<worker, next>>
traffic == <<toServer, toClient>>
server  == <<issued, strays, answered, cut>>
vars == <<fields, players, told, caller, wire, threads, traffic, server>>

Request ==
  [method : {"DESCRIBE", "SETUP", "PLAY"}, media : Media,
   stream : Stream \cup {NULL}, cSeq : Nat, session : Nat \cup {NULL}]

(* "to" is the method that is answered; it is not part of the message. *)
Response ==
  [status : {"OK", "error"}, to : {"DESCRIBE", "SETUP", "PLAY", NULL}, cSeq : Nat,
   session : Nat \cup {NULL}, sdp : Media \cup {NULL}]

TypeOK ==
  /\ cmd_sent \in {"DESCRIBE", "SETUP", "PLAY", NULL}
  /\ media \in Media \cup {NULL}
  /\ cSeq \in Nat
  /\ session \in Nat \cup {NULL}
  /\ sdp \in Media \cup {NULL}
  /\ streamsSetup \in Seq(Stream)
  /\ clientStack \in 0 .. MaxPlays
  /\ play \in 0 .. MaxPlays
  /\ target \in [Play -> Media \cup {NULL}]
  /\ observer \in 0 .. MaxPlays
  /\ outcome \in [Play -> {NULL} \cup [ok : BOOLEAN, sdp : Media \cup {NULL},
                                        by : Play]]
  /\ task \in 0 .. play
  /\ pc \in {"idle", "reset", "session", "media", "start", "stop", "release",
             "create", "describe", "await"}
  /\ interrupted \in BOOLEAN
  /\ chan \in [Play -> {"null", "open", "closed"}]
  /\ dial \in [Play -> {"none", "dialing", "failed"}]
  /\ unsent \in [Play -> Request \cup {NULL}]
  /\ worker \in [Play -> {"idle", "send", "await"}]
  /\ next \in [Play -> Stream \cup {"PLAY", NULL}]
  /\ toServer \in [Play -> Seq(Request)]
  /\ toClient \in [Play -> Seq(Response)]
  /\ issued \in Nat
  /\ strays \in 0 .. MaxStrays
  /\ answered \in [Play -> SUBSET Request]
  /\ cut \in BOOLEAN

Init ==
  /\ cmd_sent = NULL
  /\ media = NULL
  /\ cSeq = 0
  /\ session = NULL
  /\ sdp = NULL
  /\ streamsSetup = <<>>
  /\ clientStack = 0
  /\ play = 0
  /\ target = [p \in Play |-> NULL]
  /\ observer = 0
  /\ outcome = [p \in Play |-> NULL]
  /\ task = 0
  /\ pc = "idle"
  /\ interrupted = FALSE
  /\ chan = [k \in Play |-> "null"]
  /\ dial = [k \in Play |-> "none"]
  /\ unsent = [k \in Play |-> NULL]
  /\ worker = [k \in Play |-> "idle"]
  /\ next = [k \in Play |-> NULL]
  /\ toServer = [k \in Play |-> <<>>]
  /\ toClient = [k \in Play |-> <<>>]
  /\ issued = 0
  /\ strays = 0
  /\ answered = [k \in Play |-> {}]
  /\ cut = FALSE

(* createNotify(): the observer is told and takes itself off the list; k is *)
(* the play in whose name this happens.                                     *)
Notify(k, ok) ==
  /\ outcome' = IF observer = 0 THEN outcome
                ELSE [outcome EXCEPT ![observer] =
                        [ok |-> ok, sdp |-> sdp, by |-> k]]
  /\ observer' = 0

-----------------------------------------------------------------------------
(***************************************************************************)
(* The players.                                                            *)
(***************************************************************************)

(* onCreate(): deleteObservers(), addObserver(), and the task is queued. *)
Open(m) ==
  /\ play < MaxPlays
  /\ play' = play + 1
  /\ target' = [target EXCEPT ![play + 1] = m]
  /\ observer' = play + 1
  /\ UNCHANGED <<fields, outcome, caller, wire, threads, traffic, server>>

(* The user cancels the progress dialog, which is shown until the player is *)
(* notified; the task is interrupted.                                       *)
Cancel ==
  /\ pc # "idle"
  /\ outcome[task] = NULL
  /\ interrupted' = TRUE
  /\ UNCHANGED <<fields, players, told, task, pc, wire, threads, traffic, server>>

(* The next task begins playMedia(). *)
BeginTask ==
  /\ pc = "idle"
  /\ task < play
  /\ task' = task + 1
  /\ pc' = "reset"
  /\ interrupted' = FALSE
  /\ UNCHANGED <<fields, players, told, wire, threads, traffic, server>>

-----------------------------------------------------------------------------
(***************************************************************************)
(* playMedia(), in the task.                                               *)
(***************************************************************************)
ResetCSeq ==
  /\ pc = "reset"
  /\ cSeq' = 1
  /\ pc' = "session"
  /\ UNCHANGED <<cmd_sent, media, session, sdp, streamsSetup, clientStack, players,
                 told, task, interrupted, wire, threads, traffic, server>>

ResetSession ==
  /\ pc = "session"
  /\ session' = NULL
  /\ pc' = "media"
  /\ UNCHANGED <<cmd_sent, media, cSeq, sdp, streamsSetup, clientStack, players,
                 told, task, interrupted, wire, threads, traffic, server>>

SetMedia ==
  /\ pc = "media"
  /\ media' = target[task]
  /\ pc' = "start"
  /\ UNCHANGED <<cmd_sent, cSeq, session, sdp, streamsSetup, clientStack, players,
                 told, task, interrupted, wire, threads, traffic, server>>

(* The URI, getIp() or getPuerto() throws. *)
BadUri ==
  /\ pc \in {"reset", "start"}
  /\ pc' = "idle"
  /\ Notify(task, FALSE)
  /\ UNCHANGED <<fields, players, task, interrupted, wire, threads, traffic, server>>

(* paraCliente() of a stack that never had a channel: the exception of *)
(* channel.getCloseFuture() is swallowed and nothing is released.      *)
StopNothing ==
  /\ pc = "start"
  /\ clientStack # 0 => chan[clientStack] = "null"
  /\ pc' = "create"
  /\ UNCHANGED <<fields, players, told, task, interrupted, wire, threads, traffic,
                 server>>

(* paraCliente(): channel.close(), and its end is awaited.  The worker may *)
(* still connect again.                                                    *)
StopOld ==
  /\ pc = "start"
  /\ clientStack # 0
  /\ chan[clientStack] # "null"
  /\ chan' = [chan EXCEPT ![clientStack] = "closed"]
  /\ toServer' = [toServer EXCEPT ![clientStack] = <<>>]
  /\ toClient' = [toClient EXCEPT ![clientStack] = <<>>]
  /\ pc' = "stop"
  /\ UNCHANGED <<fields, players, told, task, interrupted, dial, unsent, threads,
                 server>>

(* releaseExternalResources(): no connection can be opened any more. *)
BeginRelease ==
  /\ pc = "stop"
  /\ pc' = "release"
  /\ UNCHANGED <<fields, players, told, task, interrupted, wire, threads, traffic,
                 server>>

(* Mutant of InterruptWorker: a worker is not interrupted. *)
InterruptNobody ==
  /\ pc = "release"
  /\ worker[clientStack] = "await"
  /\ UNCHANGED vars

(* When no attempt to connect is under way, a worker that waits for one is *)
(* interrupted; its send method reports the exception.                     *)
InterruptWorker ==
  /\ pc = "release"
  /\ worker[clientStack] = "await"
  /\ dial[clientStack] # "dialing"
  /\ worker' = [worker EXCEPT ![clientStack] = "idle"]
  /\ unsent' = [unsent EXCEPT ![clientStack] = NULL]
  /\ Notify(clientStack, FALSE)
  /\ UNCHANGED <<fields, players, caller, chan, dial, next, traffic, server>>

(* Mutant of Release: the end of the worker is not awaited. *)
ReleaseAtOnce ==
  /\ pc = "release"
  /\ pc' = "create"
  /\ UNCHANGED <<fields, players, told, task, interrupted, wire, threads, traffic,
                 server>>

(* releaseExternalResources() returns when the worker has ended and no *)
(* connection of the stack is left, one opened meanwhile included.     *)
Release ==
  /\ pc = "release"
  /\ worker[clientStack] = "idle"
  /\ dial[clientStack] # "dialing"
  /\ chan[clientStack] = "closed"
  /\ pc' = "create"
  /\ UNCHANGED <<fields, players, told, task, interrupted, wire, threads, traffic,
                 server>>

(* iniciaCliente(): a new stack, its observer and listener *)
CreateStack ==
  /\ pc = "create"
  /\ clientStack' = task
  /\ pc' = "describe"
  /\ UNCHANGED <<cmd_sent, media, cSeq, session, sdp, streamsSetup, players, told,
                 task, interrupted, wire, threads, traffic, server>>

(* Mutant of SendDescribe: the request has a sequence number of its own. *)
SendDescribeFirst ==
  /\ pc = "describe"
  /\ cmd_sent' = "DESCRIBE"
  /\ sdp' = NULL
  /\ unsent' = [unsent EXCEPT ![task] =
                  [method |-> "DESCRIBE", media |-> media, stream |-> NULL,
                   cSeq |-> 1, session |-> NULL]]
  /\ dial' = [dial EXCEPT ![task] = "dialing"]
  /\ pc' = "await"
  /\ UNCHANGED <<media, cSeq, session, streamsSetup, clientStack, players, told,
                 task, interrupted, chan, threads, traffic, server>>

(* sendDescribe(), up to the latch in sendRquest() *)
SendDescribe ==
  /\ pc = "describe"
  /\ cmd_sent' = "DESCRIBE"
  /\ sdp' = NULL
  /\ unsent' = [unsent EXCEPT ![task] =
                  [method |-> "DESCRIBE", media |-> media, stream |-> NULL,
                   cSeq |-> cSeq, session |-> NULL]]
  /\ dial' = [dial EXCEPT ![task] = "dialing"]
  /\ pc' = "await"
  /\ UNCHANGED <<media, cSeq, session, streamsSetup, clientStack, players, told,
                 task, interrupted, chan, threads, traffic, server>>

(* The latch is counted down: channel.write(), and playMedia() returns. *)
WriteDescribe ==
  /\ pc = "await"
  /\ chan[task] = "open"
  /\ toServer' = [toServer EXCEPT ![task] = Append(@, unsent[task])]
  /\ unsent' = [unsent EXCEPT ![task] = NULL]
  /\ pc' = "idle"
  /\ UNCHANGED <<fields, players, told, task, interrupted, chan, dial, threads,
                 toClient, server>>

(* The connection is lost before the write; the write raises an exception. *)
WriteDescribeFails ==
  /\ pc = "await"
  /\ chan[task] = "closed"
  /\ unsent' = [unsent EXCEPT ![task] = NULL]
  /\ pc' = "idle"
  /\ Notify(task, FALSE)
  /\ UNCHANGED <<fields, players, task, interrupted, chan, dial, threads, traffic,
                 server>>

(* The wait for the latch is interrupted. *)
InterruptCaller ==
  /\ pc = "await"
  /\ interrupted
  /\ unsent' = [unsent EXCEPT ![task] = NULL]
  /\ pc' = "idle"
  /\ Notify(task, FALSE)
  /\ UNCHANGED <<fields, players, task, interrupted, chan, dial, threads, traffic,
                 server>>

-----------------------------------------------------------------------------
(***************************************************************************)
(* The connections and the server.                                         *)
(***************************************************************************)
Connected(k) ==
  /\ dial[k] = "dialing"
  /\ dial' = [dial EXCEPT ![k] = "none"]
  /\ chan' = [chan EXCEPT ![k] = "open"]
  /\ UNCHANGED <<fields, players, told, caller, unsent, threads, traffic, server>>

(* The connection is refused: the latch is not counted down, and the handler *)
(* of the stack reports the exception.                                       *)
Refused(k) ==
  /\ dial[k] = "dialing"
  /\ dial' = [dial EXCEPT ![k] = "failed"]
  /\ Notify(k, FALSE)
  /\ UNCHANGED <<fields, players, caller, chan, unsent, threads, traffic, server>>

Close(k) ==
  /\ chan[k] = "open"
  /\ chan' = [chan EXCEPT ![k] = "closed"]
  /\ toServer' = [toServer EXCEPT ![k] = <<>>]
  /\ toClient' = [toClient EXCEPT ![k] = <<>>]

(* The server closes the connection; no handler of the client notices. *)
Cut(k) ==
  /\ Close(k)
  /\ cut' = TRUE
  /\ UNCHANGED <<fields, players, told, caller, dial, unsent, threads, issued,
                 strays, answered>>

(* The connection is reset: exceptionCaught() reports it. *)
Reset(k) ==
  /\ Close(k)
  /\ Notify(k, FALSE)
  /\ UNCHANGED <<fields, players, caller, dial, unsent, threads, server>>

(* The server answers a request with an error ... *)
Refuse(k) ==
  /\ toServer[k] # <<>>
  /\ LET r == Head(toServer[k])
     IN  toClient' = [toClient EXCEPT ![k] = Append(@,
           [status |-> "error", to |-> r.method, cSeq |-> r.cSeq,
            session |-> NULL, sdp |-> NULL])]
  /\ toServer' = [toServer EXCEPT ![k] = Tail(@)]
  /\ UNCHANGED <<fields, players, told, caller, wire, threads, server>>

(* ... or with OK: with the SDP, or in the session of the request, which a *)
(* SETUP without one is given.                                             *)
Answer(k) ==
  /\ toServer[k] # <<>>
  /\ LET r   == Head(toServer[k])
         new == r.method = "SETUP" /\ r.session = NULL
         s   == IF new THEN issued + 1 ELSE r.session
     IN  /\ toClient' = [toClient EXCEPT ![k] = Append(@,
              [status |-> "OK", to |-> r.method, cSeq |-> r.cSeq, session |-> s,
               sdp |-> IF r.method = "DESCRIBE" THEN r.media ELSE NULL])]
         /\ issued' = IF new THEN issued + 1 ELSE issued
         /\ answered' = [answered EXCEPT ![k] = @ \cup {[r EXCEPT !.session = s]}]
  /\ toServer' = [toServer EXCEPT ![k] = Tail(@)]
  /\ UNCHANGED <<fields, players, told, caller, wire, threads, strays, cut>>

(* What a server may send unasked: an error, an OK with an SDP or an OK with a *)
(* session; with the CSeq the client waits for.                                *)
Unasked ==
  [status : {"error"}, to : {NULL}, cSeq : {cSeq}, session : {NULL}, sdp : {NULL}]
    \cup [status : {"OK"}, to : {NULL}, cSeq : {cSeq}, session : {NULL},
          sdp : Media]
    \cup [status : {"OK"}, to : {NULL}, cSeq : {cSeq}, session : 1 .. issued + 1,
          sdp : {NULL}]

(* A response nobody asked for, after the first request. *)
Stray(k) ==
  /\ chan[k] = "open"
  /\ unsent[k] = NULL
  /\ strays < MaxStrays
  /\ strays' = strays + 1
  /\ \E r \in Unasked : toClient' = [toClient EXCEPT ![k] = Append(@, r)]
  /\ UNCHANGED <<fields, players, told, caller, wire, threads, toServer, issued,
                 answered, cut>>

-----------------------------------------------------------------------------
(***************************************************************************)
(* The worker thread of stack k: RtspClientListener.onRtspResponse().      *)
(***************************************************************************)
Arrived(k) == worker[k] = "idle" /\ chan[k] = "open" /\ toClient[k] # <<>>

received(k) == Head(toClient[k])

(* Mutant of Consume: a response is delivered again. *)
ConsumeNothing(k) == UNCHANGED toClient

Consume(k) == toClient' = [toClient EXCEPT ![k] = Tail(@)]

(* checkSession(): the session is adopted or must be the same. *)
SessionFits(k) == session \in {NULL, received(k).session}

Adopt(k) == session' = received(k).session

(* Not OK: notify, setCmd_sent(null) *)
OnError(k) ==
  /\ Arrived(k)
  /\ received(k).status # "OK"
  /\ Consume(k)
  /\ cmd_sent' = NULL
  /\ Notify(k, FALSE)
  /\ UNCHANGED <<media, cSeq, session, sdp, streamsSetup, clientStack, players,
                 caller, wire, threads, toServer, server>>

(* getCmd_sent() is null: the exception reaches exceptionCaught(), which *)
(* notifies and closes the channel.                                      *)
OnUnexpected(k) ==
  /\ Arrived(k)
  /\ received(k).status = "OK"
  /\ cmd_sent = NULL
  /\ Close(k)
  /\ Notify(k, FALSE)
  /\ UNCHANGED <<fields, players, caller, dial, unsent, threads, server>>

(* setupResponse() returns silently when the session differs. *)
SetupOtherSession(k) ==
  /\ Arrived(k)
  /\ received(k).status = "OK"
  /\ cmd_sent = "SETUP"
  /\ ~SessionFits(k)
  /\ Consume(k)
  /\ UNCHANGED <<fields, players, told, caller, wire, threads, toServer, server>>

(* checkCseq() throws and the handler notifies; setupResponse() has checked, *)
(* and possibly adopted, the session before.                                 *)
WrongCSeq(k) ==
  /\ Arrived(k)
  /\ received(k).status = "OK"
  /\ cmd_sent # NULL
  /\ received(k).cSeq # cSeq
  /\ IF cmd_sent = "SETUP" THEN SessionFits(k) /\ Adopt(k) ELSE UNCHANGED session
  /\ Consume(k)
  /\ Notify(k, FALSE)
  /\ UNCHANGED <<cmd_sent, media, cSeq, sdp, streamsSetup, clientStack, players,
                 caller, wire, threads, toServer, server>>

(* Mutant of Fits: the sequence number is not advanced. *)
FitsAnyway(k, method) ==
  /\ Arrived(k)
  /\ received(k).status = "OK"
  /\ cmd_sent = method
  /\ received(k).cSeq = cSeq
  /\ cSeq' = cSeq
  /\ Consume(k)

(* A response that fits: checkCseq() has incremented cSeq. *)
Fits(k, method) ==
  /\ Arrived(k)
  /\ received(k).status = "OK"
  /\ cmd_sent = method
  /\ received(k).cSeq = cSeq
  /\ cSeq' = cSeq + 1
  /\ Consume(k)

(* describeResponse(): the SDP is parsed and the first stream is set up. *)
DescribeResponse(k) ==
  /\ Fits(k, "DESCRIBE")
  /\ received(k).sdp # NULL
  /\ sdp' = received(k).sdp
  /\ streamsSetup' = Tail(StreamsOf[received(k).sdp])
  /\ next' = [next EXCEPT ![k] = Head(StreamsOf[received(k).sdp])]
  /\ worker' = [worker EXCEPT ![k] = "send"]
  /\ UNCHANGED <<cmd_sent, media, session, clientStack, players, told, caller, wire,
                 toServer, server>>

(* describeResponse() of a response without SDP *)
DescribeWithoutSdp(k) ==
  /\ Fits(k, "DESCRIBE")
  /\ received(k).sdp = NULL
  /\ Notify(k, FALSE)
  /\ UNCHANGED <<cmd_sent, media, session, sdp, streamsSetup, clientStack, players,
                 caller, wire, threads, toServer, server>>

(* Mutant of SetupResponse: the last stream is not set up. *)
SetupResponseLastSkipped(k) ==
  /\ Fits(k, "SETUP")
  /\ SessionFits(k)
  /\ Adopt(k)
  /\ IF Len(streamsSetup) <= 1
       THEN /\ next' = [next EXCEPT ![k] = "PLAY"]
            /\ UNCHANGED streamsSetup
       ELSE /\ next' = [next EXCEPT ![k] = Head(streamsSetup)]
            /\ streamsSetup' = Tail(streamsSetup)
  /\ worker' = [worker EXCEPT ![k] = "send"]
  /\ UNCHANGED <<cmd_sent, media, sdp, clientStack, players, told, caller, wire,
                 toServer, server>>

(* Mutant of SetupResponse: the session of the response is not kept. *)
SetupResponseForgetful(k) ==
  /\ Fits(k, "SETUP")
  /\ SessionFits(k)
  /\ IF streamsSetup = <<>>
       THEN /\ next' = [next EXCEPT ![k] = "PLAY"]
            /\ Adopt(k)
            /\ UNCHANGED streamsSetup
       ELSE /\ next' = [next EXCEPT ![k] = Head(streamsSetup)]
            /\ streamsSetup' = Tail(streamsSetup)
            /\ UNCHANGED session
  /\ worker' = [worker EXCEPT ![k] = "send"]
  /\ UNCHANGED <<cmd_sent, media, sdp, clientStack, players, told, caller, wire,
                 toServer, server>>

(* setupResponse(): the next stream is set up, or PLAY is sent. *)
SetupResponse(k) ==
  /\ Fits(k, "SETUP")
  /\ SessionFits(k)
  /\ Adopt(k)
  /\ IF streamsSetup = <<>>
       THEN /\ next' = [next EXCEPT ![k] = "PLAY"]
            /\ UNCHANGED streamsSetup
       ELSE /\ next' = [next EXCEPT ![k] = Head(streamsSetup)]
            /\ streamsSetup' = Tail(streamsSetup)
  /\ worker' = [worker EXCEPT ![k] = "send"]
  /\ UNCHANGED <<cmd_sent, media, sdp, clientStack, players, told, caller, wire,
                 toServer, server>>

(* Mutant of PlayResponse: nobody is notified. *)
PlayResponseSilent(k) ==
  /\ Fits(k, "PLAY")
  /\ IF SessionFits(k) THEN Adopt(k) ELSE UNCHANGED session
  /\ UNCHANGED <<told, cmd_sent, media, sdp, streamsSetup, clientStack, players,
                 caller, wire, threads, toServer, server>>

(* playResponse(): notify that the media can be played; a session that *)
(* differs is passed over in silence.                                  *)
PlayResponse(k) ==
  /\ Fits(k, "PLAY")
  /\ IF SessionFits(k) THEN Adopt(k) /\ Notify(k, TRUE)
                       ELSE UNCHANGED <<session, told>>
  /\ UNCHANGED <<cmd_sent, media, sdp, streamsSetup, clientStack, players, caller,
                 wire, threads, toServer, server>>

(* Mutant of Built: PLAY of the stream instead of the media. *)
BuiltOfStream(k) ==
  [method |-> IF next[k] = "PLAY" THEN "PLAY" ELSE "SETUP", media |-> media,
   stream |-> next[k], cSeq |-> cSeq, session |-> session]

(* sendSetup() or sendPlay(): the request is built from the fields. *)
Built(k) ==
  [method |-> IF next[k] = "PLAY" THEN "PLAY" ELSE "SETUP", media |-> media,
   stream |-> IF next[k] = "PLAY" THEN NULL ELSE next[k],
   cSeq |-> cSeq, session |-> session]

(* A PLAY cannot be built without a session: setHeader() throws. *)
Buildable(k) == next[k] = "PLAY" => session # NULL

Send(k) ==
  /\ worker[k] = "send"
  /\ Buildable(k)
  /\ chan[k] = "open"
  /\ cmd_sent' = Built(k).method
  /\ toServer' = [toServer EXCEPT ![k] = Append(@, Built(k))]
  /\ worker' = [worker EXCEPT ![k] = "idle"]
  /\ next' = [next EXCEPT ![k] = NULL]
  /\ UNCHANGED <<media, cSeq, session, sdp, streamsSetup, clientStack, players, told,
                 caller, wire, toClient, server>>

(* The channel was closed by the server: connect again and await the latch. *)
SendReconnects(k) ==
  /\ worker[k] = "send"
  /\ Buildable(k)
  /\ chan[k] = "closed"
  /\ pc # "release"
  /\ cmd_sent' = Built(k).method
  /\ unsent' = [unsent EXCEPT ![k] = Built(k)]
  /\ dial' = [dial EXCEPT ![k] = "dialing"]
  /\ worker' = [worker EXCEPT ![k] = "await"]
  /\ next' = [next EXCEPT ![k] = NULL]
  /\ UNCHANGED <<media, cSeq, session, sdp, streamsSetup, clientStack, players, told,
                 caller, chan, traffic, server>>

(* No session for PLAY, or the stack is being released: an exception that *)
(* sendSetup() or sendPlay() reports.                                     *)
SendFails(k) ==
  /\ worker[k] = "send"
  /\ Buildable(k) => chan[k] = "closed" /\ pc = "release"
  /\ cmd_sent' = IF Buildable(k) THEN Built(k).method ELSE cmd_sent
  /\ worker' = [worker EXCEPT ![k] = "idle"]
  /\ next' = [next EXCEPT ![k] = NULL]
  /\ Notify(k, FALSE)
  /\ UNCHANGED <<media, cSeq, session, sdp, streamsSetup, clientStack, players,
                 caller, wire, traffic, server>>

(* The worker is connected again and writes its request. *)
WriteAgain(k) ==
  /\ worker[k] = "await"
  /\ chan[k] = "open"
  /\ toServer' = [toServer EXCEPT ![k] = Append(@, unsent[k])]
  /\ unsent' = [unsent EXCEPT ![k] = NULL]
  /\ worker' = [worker EXCEPT ![k] = "idle"]
  /\ UNCHANGED <<fields, players, told, caller, chan, dial, next, toClient, server>>

(* ... or has lost the connection again: the write raises an exception. *)
WriteAgainFails(k) ==
  /\ worker[k] = "await"
  /\ dial[k] = "none"
  /\ chan[k] = "closed"
  /\ unsent' = [unsent EXCEPT ![k] = NULL]
  /\ worker' = [worker EXCEPT ![k] = "idle"]
  /\ Notify(k, FALSE)
  /\ UNCHANGED <<fields, players, caller, chan, dial, next, traffic, server>>

-----------------------------------------------------------------------------
PlayMedia ==
  \/ BeginTask
  \/ ResetCSeq
  \/ ResetSession
  \/ SetMedia
  \/ BadUri
  \/ StopNothing
  \/ StopOld
  \/ BeginRelease
  \/ InterruptWorker
  \/ Release
  \/ CreateStack
  \/ SendDescribe
  \/ WriteDescribe
  \/ WriteDescribeFails
  \/ InterruptCaller

Dial(k) == Connected(k) \/ Refused(k)

Serve(k) == Refuse(k) \/ Answer(k)

OnResponse(k) ==
  \/ OnError(k)
  \/ OnUnexpected(k)
  \/ SetupOtherSession(k)
  \/ WrongCSeq(k)
  \/ DescribeResponse(k)
  \/ DescribeWithoutSdp(k)
  \/ SetupResponse(k)
  \/ PlayResponse(k)

WorkerStep(k) ==
  \/ OnResponse(k)
  \/ Send(k)
  \/ SendReconnects(k)
  \/ SendFails(k)
  \/ WriteAgain(k)
  \/ WriteAgainFails(k)

Next ==
  \/ \E m \in Media : Open(m)
  \/ Cancel
  \/ PlayMedia
  \/ \E k \in Play : Dial(k) \/ Serve(k) \/ Stray(k) \/ Cut(k) \/ Reset(k) \/ WorkerStep(k)

Spec == Init /\ [][Next]_vars

(* The task and the worker threads run, every connection attempt is accepted  *)
(* or refused, and the server answers.  Nobody has to open or cancel a play,  *)
(* and no connection has to break.                                            *)
Fairness ==
  /\ WF_vars(PlayMedia)
  /\ \A k \in Play : WF_vars(Dial(k)) /\ WF_vars(Serve(k)) /\ WF_vars(WorkerStep(k))

FairSpec == Spec /\ Fairness

-----------------------------------------------------------------------------
(***************************************************************************)
(* Properties.                                                             *)
(***************************************************************************)
(* On a connection there is one request at a time, on its way, being         *)
(* answered or about to be sent, whatever other plays do: the dispatch on    *)
(* the one field cmd_sent relies on it (RtspClientListener.java:46-62).      *)
OneRequestAtATime ==
  \A k \in Play :
    Len(toServer[k]) + Len(toClient[k])
      + (IF unsent[k] = NULL THEN 0 ELSE 1)
      + (IF worker[k] = "send" THEN 1 ELSE 0) <= 1

(* A response is handled as what it answers: cmd_sent, shared by all plays,  *)
(* is the method of the request that is being answered                       *)
(* (RtspClientListener.java:46-62, ClientRTSP.java:161 and 189).             *)
ResponsesFitCommand ==
  \A k \in Play :
    chan[k] = "open" /\ toClient[k] # <<>> => cmd_sent = Head(toClient[k]).to

(* The handshake stays in step: one request at a time on a connection, and   *)
(* its response handled as what it answers, with plays that overlap          *)
(* (RtspClientListener.java:46-62).                                          *)
HandshakeFits == TypeOK /\ OneRequestAtATime /\ ResponsesFitCommand

(* Once playMedia() has returned and until it is called again, the responses *)
(* of its handshake carry the CSeq and the session that the checks expect,   *)
(* also when a handler of the play before was still at work on these fields  *)
(* while they were reset (ClientRTSP.java:329-376 and 447-461).              *)
OwnResponsesFit ==
  pc = "idle" /\ clientStack = task /\ task # 0 =>
    \A i \in 1 .. Len(toClient[task]) :
      LET r == toClient[task][i]
      IN  /\ r.cSeq = cSeq
          /\ r.status = "OK" /\ r.to # "DESCRIBE" => session \in {NULL, r.session}

(* A play that is told of the success of its own handshake has its media:   *)
(* the server has described it, has set up every stream of its SDP in one   *)
(* session and has accepted PLAY in that session                            *)
(* (ClientRTSP.java:226-316, Info.java:4-7).                                *)
SuccessIsComplete ==
  \A p \in Play :
    outcome[p] # NULL /\ outcome[p].ok /\ outcome[p].by = p =>
      /\ outcome[p].sdp = target[p]
      /\ \E s \in 1 .. issued :
           LET done(method, st) ==
                 \E r \in answered[p] : /\ r.method = method
                                        /\ r.media = target[p]
                                        /\ r.stream = st
                                        /\ r.session = s
               streams == StreamsOf[target[p]]
           IN  /\ \A i \in 1 .. Len(streams) : done("SETUP", streams[i])
               /\ done("PLAY", NULL)

(* From the end of playMedia() until it is called again, the requests of its *)
(* play are numbered upwards, whatever the server sends: a response that is  *)
(* handled twice or comes unasked does not make the client go back           *)
(* (ClientRTSP.java:155-219 and 329-353).                                    *)
RequestsInOrder ==
  [][ \A k \in Play :
        Len(toServer'[k]) > Len(toServer[k]) /\ k = task /\ pc' = "idle" =>
          LET r == toServer'[k][Len(toServer'[k])]
          IN  /\ \A i \in 1 .. Len(toServer[k]) : toServer[k][i].cSeq < r.cSeq
              /\ \A a \in answered[k] : a.cSeq < r.cSeq ]_vars

(* Every player whose task has begun is told how its play ended, unless     *)
(* another player takes its place, a connection is closed silently, or the  *)
(* server has sent a response nobody asked for, which may be handled in the *)
(* place of the right one                                                   *)
(* (ClientRTSP.java:155-316 and 447-470, RtspClientStackImpl.java:150-154). *)
PlaysEnd ==
  \A p \in Play :
    task = p ~> \/ outcome[p] # NULL
                \/ play > p
                \/ cut
                \/ strays > 0

(* The old stack has connected again while it was being stopped. *)
Reconnected == pc = "release" /\ chan[clientStack] = "open"

(* playMedia() returns, also when the worker of the old stack waits for a    *)
(* connection that was refused, unless its own connection is refused or the  *)
(* old stack has connected again (ClientRTSP.java:142-150,                   *)
(* RtspClientStackImpl.java:76-86 and 98-136).                               *)
PlayMediaReturns == pc # "idle" ~> pc = "idle" \/ dial[task] = "failed" \/ Reconnected

(***************************************************************************)
(* The inductive invariant behind the safety properties: what is so when   *)
(* the server only answers (MaxStrays = 0).                                *)
(***************************************************************************)
(* playMedia() waits for the connection of stack k. *)
Asking(k) == pc = "await" /\ k = task

(* The requests of stack k that are on their way, or wait to be written. *)
Pending(k) ==
  (IF toServer[k] = <<>> THEN {} ELSE {Head(toServer[k])})
    \cup (IF worker[k] = "await" \/ Asking(k) THEN {unsent[k]} ELSE {})

Replies(k) == IF toClient[k] = <<>> THEN {} ELSE {received(k)}

Quiet(k) ==
  toServer[k] = <<>> /\ toClient[k] = <<>> /\ worker[k] = "idle" /\ unsent[k] = NULL

(* One stack works at a time: the last one created, until it is released. *)
OneStackWorks ==
  /\ clientStack <= task
  /\ pc \in {"reset", "session", "media", "start", "stop", "release", "create"} =>
       clientStack < task
  /\ pc \in {"describe", "await"} => clientStack = task /\ task # 0
  /\ pc \in {"stop", "release"} => clientStack # 0 /\ chan[clientStack] # "null"
  /\ pc = "create" /\ clientStack # 0 => Quiet(clientStack)
  /\ pc = "describe" =>
       Quiet(task) /\ chan[task] = "null" /\ dial[task] = "none"
  /\ \A k \in Play : k # clientStack => Quiet(k)
  /\ \A k \in Play : k > clientStack => chan[k] = "null" /\ dial[k] = "none"

(* A connection carries one request or its response, or its worker is about *)
(* to send, and nothing if it is not open.                                  *)
OneThing(k) ==
  /\ Len(toServer[k]) <= 1 /\ Len(toClient[k]) <= 1
  /\ toServer[k] # <<>> => toClient[k] = <<>>
  /\ toServer[k] # <<>> \/ toClient[k] # <<>> =>
       chan[k] = "open" /\ worker[k] = "idle" /\ ~Asking(k)
  /\ unsent[k] # NULL => worker[k] = "await" \/ Asking(k)
  /\ worker[k] # "idle" => chan[k] # "null" /\ ~Asking(k)
  /\ worker[k] = "send" => next[k] # NULL
  /\ worker[k] = "await" \/ Asking(k) => unsent[k] \in Request

OneThingAtATime == \A k \in Play : OneThing(k)

(* cmd_sent is the method of what is under way, and every session in it has *)
(* been issued; PLAY has one.                                               *)
UnderWayFits(k) ==
  /\ \A q \in Pending(k) :
       /\ cmd_sent = q.method
       /\ q.session # NULL => q.session \in 1 .. issued
       /\ q.method = "PLAY" => q.session # NULL
  /\ \A r \in Replies(k) :
       /\ cmd_sent = r.to /\ r.to # NULL
       /\ r.session # NULL => r.session \in 1 .. issued
       /\ r.status = "OK" /\ r.to # "DESCRIBE" => r.session # NULL

WhatIsUnderWayFits ==
  /\ session # NULL => session \in 1 .. issued
  /\ \A k \in Play : UnderWayFits(k)

(* The fields are those of the last stack: the task has reset them. *)
Owned == pc \in {"await", "idle"} /\ clientStack = task /\ task # 0

(* The server has answered OK to stack k's request of the method for a stream *)
(* of the media (or NULL), in session s.                                      *)
AnsweredOK(k, method, st, s) ==
  \E a \in answered[k] :
    a.method = method /\ a.media = media /\ a.stream = st /\ a.session = s

(* The streams of the SDP up to the n-th are set up in the session, or being *)
(* set up, and those after it are the ones to do.                            *)
SetUp(n) ==
  LET streams == StreamsOf[media]
  IN  /\ sdp = media
      /\ n > 0 /\ n + Len(streamsSetup) = Len(streams)
      /\ \A i \in 1 .. Len(streamsSetup) : streamsSetup[i] = streams[n + i]
      /\ n > 1 => session # NULL

DoneInSession(k, n) ==
  \A i \in 1 .. n : AnsweredOK(k, "SETUP", StreamsOf[media][i], session)

(* The number of streams set up or being set up. *)
Reached == Len(StreamsOf[media]) - Len(streamsSetup)

Current == StreamsOf[media][Reached]

(* A request of the last stack, a response to it and what its worker is about *)
(* to send fit the fields.                                                    *)
OwnRequest(k, q) ==
  /\ q.cSeq = cSeq
  /\ q.media = media
  /\ q.method # "DESCRIBE" => q.session = session
  /\ q.method = "SETUP" =>
       SetUp(Reached) /\ q.stream = Current /\ DoneInSession(k, Reached - 1)
  /\ q.method = "PLAY" =>
       SetUp(Reached) /\ streamsSetup = <<>> /\ q.stream = NULL
         /\ DoneInSession(k, Reached)

OwnResponse(k, r) ==
  /\ r.cSeq = cSeq
  /\ r.status = "OK" /\ r.to = "DESCRIBE" => r.sdp = media
  /\ r.status = "OK" /\ r.to = "SETUP" =>
       SetUp(Reached) /\ session \in {NULL, r.session} /\ DoneInSession(k, Reached - 1)
         /\ AnsweredOK(k, "SETUP", Current, r.session)
  /\ r.status = "OK" /\ r.to = "PLAY" =>
       SetUp(Reached) /\ session = r.session /\ streamsSetup = <<>>
         /\ DoneInSession(k, Reached) /\ AnsweredOK(k, "PLAY", NULL, r.session)

OwnNext(k) ==
  /\ SetUp(Reached)
  /\ IF next[k] = "PLAY"
       THEN streamsSetup = <<>> /\ DoneInSession(k, Reached)
       ELSE next[k] = Current /\ DoneInSession(k, Reached - 1)

(* The handshake of the last stack has come as far as its fields say. *)
OwnHandshakeFits ==
  Owned =>
    /\ \A q \in Pending(task) : OwnRequest(task, q)
    /\ \A r \in Replies(task) : OwnResponse(task, r)
    /\ worker[task] = "send" => OwnNext(task)

(* There is a media as soon as there is a stack, and it is the player's own *)
(* once the task has set it.                                                *)
MediaIsTarget ==
  /\ clientStack # 0 => media # NULL
  /\ Owned \/ pc \in {"start", "stop", "release", "create", "describe"} =>
       media = target[task]

(* Players are told once they are there, and only the last one. *)
ToldWhenOpen ==
  /\ observer \in {0, play}
  /\ \A p \in Play : outcome[p] # NULL => p <= play
  /\ \A p \in Play : p <= play => target[p] \in Media

IInv ==
  /\ TypeOK
  /\ OneStackWorks
  /\ OneThingAtATime
  /\ WhatIsUnderWayFits
  /\ OwnHandshakeFits
  /\ MediaIsTarget
  /\ ToldWhenOpen
  /\ SuccessIsComplete
=============================================================================
