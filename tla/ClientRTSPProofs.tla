-------------------------- MODULE ClientRTSPProofs --------------------------
EXTENDS ClientRTSP, SequenceTheorems, TLAPS

USE ClientAssumption DEF ClientAssumption

(* At the start everything has its type. *)
LEMMA InitType == Init => TypeOK
<1> SUFFICES ASSUME Init PROVE TypeOK
  OBVIOUS
<1>0. interrupted \in BOOLEAN /\ cut \in BOOLEAN
  BY DEF Init
<1>a. streamsSetup \in Seq(Stream)
  BY EmptySeq DEF Init
<1>1. /\ cSeq \in Nat /\ clientStack \in 0 .. MaxPlays
      /\ play \in 0 .. MaxPlays /\ observer \in 0 .. MaxPlays /\ task \in 0 .. play
      /\ issued \in Nat /\ strays \in 0 .. MaxStrays
  BY DEF Init
<1>2. /\ target \in [Play -> Media \cup {NULL}]
      /\ outcome \in [Play -> {NULL} \cup [ok : BOOLEAN, sdp : Media \cup {NULL},
                                            by : Play]]
      /\ chan \in [Play -> {"null", "open", "closed"}]
      /\ dial \in [Play -> {"none", "dialing", "failed"}]
      /\ unsent \in [Play -> Request \cup {NULL}]
      /\ worker \in [Play -> {"idle", "send", "await"}]
      /\ next \in [Play -> Stream \cup {"PLAY", NULL}]
      /\ answered \in [Play -> SUBSET Request]
  BY DEF Init
<1>3. toServer \in [Play -> Seq(Request)] /\ toClient \in [Play -> Seq(Response)]
  BY DEF Init
<1>4. QED
  BY <1>0, <1>a, <1>1, <1>2, <1>3 DEF Init, TypeOK

(* The numbers of the running task and of the stack it stops are those of plays. *)
LEMMA TaskIsPlay ==
  ASSUME TypeOK, OneStackWorks
  PROVE  /\ pc # "idle" => task \in Play
         /\ pc \in {"stop", "release"} => clientStack \in Play
         /\ clientStack # 0 => clientStack \in Play
<1>1. task \in Nat /\ task <= MaxPlays /\ clientStack \in Nat /\ clientStack <= MaxPlays
  BY DEF TypeOK
<1>2. pc # "idle" => task # 0
  BY <1>1 DEF TypeOK, OneStackWorks
<1>3. QED
  BY <1>1, <1>2 DEF OneStackWorks, Play

(* createNotify() *)
LEMMA NotifyType ==
  ASSUME TypeOK, NEW k \in Play, NEW ok \in BOOLEAN, Notify(k, ok)
  PROVE  /\ observer' \in 0 .. MaxPlays
         /\ outcome' \in [Play -> {NULL} \cup [ok : BOOLEAN, sdp : Media \cup {NULL},
                                               by : Play]]
<1>1. CASE observer = 0
  BY <1>1 DEF Notify, TypeOK
<1>2. CASE observer # 0
  <2>1. [ok |-> ok, sdp |-> sdp, by |-> k]
          \in [ok : BOOLEAN, sdp : Media \cup {NULL}, by : Play]
    BY DEF TypeOK
  <2>2. QED
    BY <1>2, <2>1 DEF Notify, TypeOK, Play
<1>3. QED
  BY <1>1, <1>2

(* The steps of the players. *)
LEMMA PlayersType ==
  ASSUME TypeOK, (\E m \in Media : Open(m)) \/ Cancel
  PROVE  TypeOK'
<1>1. ASSUME NEW m \in Media, Open(m)
      PROVE  TypeOK'
  BY <1>1 DEF Open, TypeOK, fields, caller, wire, threads, traffic, server, Play
<1>2. CASE Cancel
  BY <1>2 DEF Cancel, TypeOK, fields, players, told, wire, threads, traffic, server
<1>3. QED
  BY <1>1, <1>2

(* The request that playMedia() ends with. *)
LEMMA SendDescribeType ==
  ASSUME TypeOK, OneStackWorks, MediaIsTarget, SendDescribe
  PROVE  TypeOK'
<1>1. media \in Media /\ task \in Play
  BY DEF SendDescribe, TypeOK, OneStackWorks, MediaIsTarget, Play
<1> DEFINE q == [method |-> "DESCRIBE", media |-> media, stream |-> NULL,
                 cSeq |-> cSeq, session |-> NULL]
<1>2. q \in Request
  BY <1>1 DEF Request, TypeOK
<1> HIDE DEF q
<1>3. unsent' \in [Play -> Request \cup {NULL}] /\ dial' \in [Play -> {"none", "dialing", "failed"}]
  BY <1>1, <1>2 DEF SendDescribe, TypeOK, q
<1>4. QED
  BY <1>3 DEF SendDescribe, TypeOK, players, told, threads, traffic, server

(* The steps of playMedia() that set a field or release a stack. *)
LEMMA FieldsType ==
  ASSUME TypeOK,
         BeginTask \/ ResetCSeq \/ ResetSession \/ StopNothing \/ BeginRelease
           \/ Release
  PROVE  TypeOK'
<1> USE DEF TypeOK
<1>1. CASE BeginTask
  <2>1. task' \in 0 .. play'
    BY <1>1 DEF BeginTask, players
  <2>2. QED
    BY <1>1, <2>1 DEF BeginTask, fields, players, told, wire, threads, traffic, server
<1>2. CASE ResetCSeq
  BY <1>2 DEF ResetCSeq, players, told, wire, threads, traffic, server
<1>3. CASE ResetSession
  BY <1>3 DEF ResetSession, players, told, wire, threads, traffic, server
<1>4. CASE StopNothing \/ BeginRelease \/ Release
  BY SMTT(40), <1>4 DEF StopNothing, BeginRelease, Release, fields, players, told, wire,
              threads, traffic, server
<1>5. QED
  BY <1>1, <1>2, <1>3, <1>4

(* ... that take up the media and create a stack, or give up. *)
LEMMA TaskType ==
  ASSUME TypeOK, OneStackWorks, SetMedia \/ BadUri \/ CreateStack
  PROVE  TypeOK'
<1> USE DEF TypeOK
<1>0. pc # "idle"
  BY DEF SetMedia, BadUri, CreateStack
<1>a. task \in Play
  BY <1>0, TaskIsPlay
<1>1. CASE SetMedia
  BY <1>a, <1>1 DEF SetMedia, Play, players, told, wire, threads, traffic, server
<1>2. CASE BadUri
  BY <1>a, <1>2, NotifyType DEF BadUri, fields, players, wire, threads, traffic, server
<1>3. CASE CreateStack
  BY <1>a, <1>3 DEF CreateStack, Play, players, told, wire, threads, traffic, server
<1>4. QED
  BY <1>1, <1>2, <1>3

(* ... that stop the stack of the play before. *)
LEMMA StopType ==
  ASSUME TypeOK, OneStackWorks, StopOld \/ InterruptWorker
  PROVE  TypeOK'
<1> USE DEF TypeOK
<1>0. clientStack \in Play
  <2>1. clientStack # 0 \/ pc = "release"
    BY DEF StopOld, InterruptWorker
  <2>2. QED
    BY <2>1, TaskIsPlay
<1>1. CASE StopOld
  <2>1. /\ chan' \in [Play -> {"null", "open", "closed"}]
        /\ toServer' \in [Play -> Seq(Request)] /\ toClient' \in [Play -> Seq(Response)]
    BY <1>0, <1>1 DEF StopOld
  <2>2. QED
    BY <1>1, <2>1 DEF StopOld, fields, players, told, threads, server
<1>2. CASE InterruptWorker
  <2>1. /\ worker' \in [Play -> {"idle", "send", "await"}]
        /\ unsent' \in [Play -> Request \cup {NULL}]
    BY <1>0, <1>2 DEF InterruptWorker
  <2>2. QED
    BY <1>0, <1>2, <2>1, NotifyType
       DEF InterruptWorker, fields, players, caller, traffic, server
<1>3. QED
  BY <1>1, <1>2

(* ... that wait for the connection and write the first request. *)
LEMMA AwaitType ==
  ASSUME TypeOK, OneStackWorks, OneThingAtATime,
         WriteDescribe \/ WriteDescribeFails \/ InterruptCaller
  PROVE  TypeOK'
<1> USE DEF TypeOK
<1>0. task \in Play
  <2>1. pc = "await"
    BY DEF WriteDescribe, WriteDescribeFails, InterruptCaller
  <2>2. QED
    BY <2>1, TaskIsPlay
<1>1. unsent' \in [Play -> Request \cup {NULL}]
  BY <1>0 DEF WriteDescribe, WriteDescribeFails, InterruptCaller
<1>2. CASE WriteDescribe
  <2>1. unsent[task] \in Request
    BY <1>0, <1>2 DEF WriteDescribe, OneThingAtATime, OneThing, Asking
  <2>2. Append(toServer[task], unsent[task]) \in Seq(Request)
    BY <1>0, <2>1, AppendProperties
  <2>3. toServer' \in [Play -> Seq(Request)]
    BY <1>0, <1>2, <2>2 DEF WriteDescribe
  <2>4. QED
    BY <1>1, <1>2, <2>3 DEF WriteDescribe, fields, players, told, threads, server
<1>3. CASE WriteDescribeFails
  BY <1>0, <1>1, <1>3, NotifyType
     DEF WriteDescribeFails, fields, players, threads, traffic, server
<1>4. CASE InterruptCaller
  BY <1>0, <1>1, <1>4, NotifyType
     DEF InterruptCaller, fields, players, threads, traffic, server
<1>5. QED
  BY <1>2, <1>3, <1>4

(* A connection that ends loses what is on it. *)
LEMMA CloseType ==
  ASSUME TypeOK, NEW k \in Play, Close(k)
  PROVE  /\ chan' \in [Play -> {"null", "open", "closed"}]
         /\ toServer' \in [Play -> Seq(Request)] /\ toClient' \in [Play -> Seq(Response)]
BY EmptySeq DEF TypeOK, Close

(* A report of a failure, and only that. *)
LEMMA FailureType ==
  ASSUME TypeOK, NEW k \in Play, Notify(k, FALSE)
  PROVE  /\ observer' \in 0 .. MaxPlays
         /\ outcome' \in [Play -> {NULL} \cup [ok : BOOLEAN, sdp : Media \cup {NULL},
                                               by : Play]]
<1>1. FALSE \in BOOLEAN
  OBVIOUS
<1>2. QED
  BY <1>1, NotifyType

(* The steps of a connection. *)
LEMMA ConnectionType ==
  ASSUME TypeOK, NEW k \in Play, Dial(k) \/ Cut(k) \/ Reset(k)
  PROVE  TypeOK'
<1>1. CASE Connected(k)
  BY <1>1 DEF TypeOK, Connected, fields, players, told, caller, threads, traffic, server
<1>2. CASE Refused(k)
  <2>1. dial' \in [Play -> {"none", "dialing", "failed"}]
    BY <1>2 DEF Refused, TypeOK
  <2>2. /\ observer' \in 0 .. MaxPlays
        /\ outcome' \in [Play -> {NULL} \cup [ok : BOOLEAN, sdp : Media \cup {NULL},
                                              by : Play]]
    BY <1>2, FailureType DEF Refused
  <2>3. QED
    BY <1>2, <2>1, <2>2
       DEF Refused, TypeOK, fields, players, caller, threads, traffic, server
<1>3. CASE Cut(k)
  BY SMTT(40), <1>3, CloseType DEF TypeOK, Cut, fields, players, told, caller, threads
<1>4. CASE Reset(k)
  <2>1. /\ chan' \in [Play -> {"null", "open", "closed"}]
        /\ toServer' \in [Play -> Seq(Request)] /\ toClient' \in [Play -> Seq(Response)]
    BY <1>4, CloseType DEF Reset
  <2>2. /\ observer' \in 0 .. MaxPlays
        /\ outcome' \in [Play -> {NULL} \cup [ok : BOOLEAN, sdp : Media \cup {NULL},
                                              by : Play]]
    BY <1>4, FailureType DEF Reset
  <2>3. QED
    BY SMTT(40), <1>4, <2>1, <2>2 DEF TypeOK, Reset, fields, players, caller, threads, server
<1>5. QED
  BY <1>1, <1>2, <1>3, <1>4 DEF Dial

(* What the server makes of the request it reads. *)
Refusal(r) ==
  [status |-> "error", to |-> r.method, cSeq |-> r.cSeq, session |-> NULL, sdp |-> NULL]

SessionOf(r) == IF r.method = "SETUP" /\ r.session = NULL THEN issued + 1 ELSE r.session

Acceptance(r) ==
  [status |-> "OK", to |-> r.method, cSeq |-> r.cSeq, session |-> SessionOf(r),
   sdp |-> IF r.method = "DESCRIBE" THEN r.media ELSE NULL]

Granted(r) == [r EXCEPT !.session = SessionOf(r)]

(* What the server makes of a request. *)
LEMMA ServedTypes ==
  ASSUME TypeOK, NEW r \in Request
  PROVE  /\ SessionOf(r) \in Nat \cup {NULL}
         /\ Refusal(r) \in Response /\ Acceptance(r) \in Response
         /\ Granted(r) \in Request
<1>1. /\ r.method \in {"DESCRIBE", "SETUP", "PLAY"} /\ r.cSeq \in Nat
      /\ r.session \in Nat \cup {NULL} /\ r.media \in Media
  BY DEF Request
<1>2. SessionOf(r) \in Nat \cup {NULL}
  BY <1>1 DEF SessionOf, TypeOK
<1>3. Refusal(r) \in Response /\ Acceptance(r) \in Response
  BY <1>1, <1>2 DEF Refusal, Acceptance, Response
<1>4. Granted(r) \in Request
  BY <1>2 DEF Granted, Request
<1>5. QED
  BY <1>2, <1>3, <1>4

(* The server takes one request and answers it, one way or the other. *)
LEMMA ServeStep ==
  ASSUME TypeOK, NEW k \in Play, Serve(k), NEW r, r = Head(toServer[k])
  PROVE  /\ toServer[k] # <<>> /\ r \in Request
         /\ toServer' = [toServer EXCEPT ![k] = Tail(@)]
         /\ UNCHANGED <<fields, players, told, caller, wire, threads, strays, cut>>
         /\ \/ /\ toClient' = [toClient EXCEPT ![k] = Append(@, Refusal(r))]
               /\ UNCHANGED <<issued, answered>>
            \/ /\ toClient' = [toClient EXCEPT ![k] = Append(@, Acceptance(r))]
               /\ answered' = [answered EXCEPT ![k] = @ \cup {Granted(r)}]
               /\ issued' = IF SessionOf(r) = r.session THEN issued ELSE issued + 1
<1>1. toServer[k] \in Seq(Request) /\ toServer[k] # <<>>
  BY DEF TypeOK, Serve, Refuse, Answer
<1>2. r \in Request
  BY <1>1, HeadTailProperties
<1>3. CASE Refuse(k)
  <2>1. toClient' = [toClient EXCEPT ![k] = Append(@, Refusal(r))]
    BY <1>3 DEF Refuse, Refusal
  <2>2. UNCHANGED <<issued, answered, fields, players, told, caller, wire, threads, strays, cut>>
        /\ toServer' = [toServer EXCEPT ![k] = Tail(@)]
    BY <1>3 DEF Refuse, server
  <2>3. QED
    BY <1>1, <1>2, <2>1, <2>2
<1>4. CASE Answer(k)
  <2>1. toClient' = [toClient EXCEPT ![k] = Append(@, Acceptance(r))]
    BY <1>4 DEF Answer, Acceptance, SessionOf
  <2>2. answered' = [answered EXCEPT ![k] = @ \cup {Granted(r)}]
    BY <1>4 DEF Answer, Granted, SessionOf
  <2>3. issued' = IF r.method = "SETUP" /\ r.session = NULL THEN issued + 1 ELSE issued
    BY <1>4 DEF Answer
  <2>4. UNCHANGED <<fields, players, told, caller, wire, threads, strays, cut>>
        /\ toServer' = [toServer EXCEPT ![k] = Tail(@)]
    BY <1>4 DEF Answer
  <2>5. issued' = IF SessionOf(r) = r.session THEN issued ELSE issued + 1
    <3>1. issued + 1 # NULL
      BY DEF TypeOK
    <3>2. QED
      BY <2>3, <3>1 DEF SessionOf
  <2>6. QED
    BY <1>1, <1>2, <2>1, <2>2, <2>4, <2>5
<1>5. QED
  BY <1>3, <1>4 DEF Serve

(* The step of the server. *)
LEMMA ServeType ==
  ASSUME TypeOK, NEW k \in Play, Serve(k)
  PROVE  TypeOK'
<1> DEFINE r == Head(toServer[k])
<1>1. toServer[k] # <<>> /\ r \in Request
  BY ServeStep
<1>2. PICK a \in Response : toClient' = [toClient EXCEPT ![k] = Append(@, a)]
  BY <1>1, ServeStep, ServedTypes
<1>3. toServer[k] \in Seq(Request) /\ toClient[k] \in Seq(Response)
  BY DEF TypeOK
<1>4. Tail(toServer[k]) \in Seq(Request) /\ Append(toClient[k], a) \in Seq(Response)
  BY <1>1, <1>3, HeadTailProperties, AppendProperties
<1>a. /\ toServer' = [toServer EXCEPT ![k] = Tail(@)]
      /\ issued' \in {issued, issued + 1}
      /\ answered' = answered \/ answered' = [answered EXCEPT ![k] = @ \cup {Granted(r)}]
  <2> HIDE DEF r
  <2> QED
    BY ServeStep DEF r
<1>5. toServer' \in [Play -> Seq(Request)]
  BY <1>4, <1>a DEF TypeOK
<1>6. toClient' \in [Play -> Seq(Response)]
  BY <1>2, <1>4 DEF TypeOK
<1>7. issued' \in Nat
  BY <1>a DEF TypeOK
<1>8. answered' \in [Play -> SUBSET Request]
  <2>1. Granted(r) \in Request
    BY <1>1, ServedTypes
  <2> HIDE DEF r
  <2>2. answered[k] \cup {Granted(r)} \in SUBSET Request
    BY <2>1 DEF TypeOK
  <2>3. QED
    BY <2>2, <1>a DEF TypeOK
<1>9. UNCHANGED <<fields, players, told, caller, wire, threads, strays, cut>>
  BY ServeStep
<1>10. QED
  BY SMTT(40), <1>5, <1>6, <1>7, <1>8, <1>9
     DEF TypeOK, fields, players, told, caller, wire, threads
(* A response that is read, and what is left of the queue. *)
LEMMA ArrivedType ==
  ASSUME TypeOK, NEW k \in Play, Arrived(k)
  PROVE  /\ received(k) \in Response
         /\ received(k).cSeq \in Nat /\ received(k).session \in Nat \cup {NULL}
         /\ received(k).sdp \in Media \cup {NULL}
         /\ Tail(toClient[k]) \in Seq(Response)
         /\ Consume(k) => toClient' \in [Play -> Seq(Response)]
<1>1. toClient[k] \in Seq(Response) /\ toClient[k] # <<>>
  BY DEF TypeOK, Arrived
<1>2. received(k) \in Response /\ Tail(toClient[k]) \in Seq(Response)
  BY <1>1, HeadTailProperties DEF received
<1>3. /\ received(k).cSeq \in Nat /\ received(k).session \in Nat \cup {NULL}
      /\ received(k).sdp \in Media \cup {NULL}
  BY <1>2 DEF Response
<1>4. Consume(k) => toClient' \in [Play -> Seq(Response)]
  BY <1>2 DEF Consume, TypeOK
<1>5. QED
  BY <1>2, <1>3, <1>4

(* The handlers of the responses. *)
LEMMA ResponseType ==
  ASSUME TypeOK, NEW k \in Play, OnResponse(k)
  PROVE  TypeOK'
<1>0. Arrived(k)
  BY DEF OnResponse, OnError, OnUnexpected, SetupOtherSession, WrongCSeq,
         DescribeResponse, DescribeWithoutSdp, SetupResponse, PlayResponse, Fits
<1>a. /\ received(k).cSeq \in Nat /\ received(k).session \in Nat \cup {NULL}
      /\ received(k).sdp \in Media \cup {NULL}
      /\ Consume(k) => toClient' \in [Play -> Seq(Response)]
  BY <1>0, ArrivedType
<1>b. ASSUME NEW ok \in BOOLEAN, Notify(k, ok)
      PROVE  /\ observer' \in 0 .. MaxPlays
             /\ outcome' \in [Play -> {NULL} \cup [ok : BOOLEAN, sdp : Media \cup {NULL},
                                                   by : Play]]
  BY <1>b, NotifyType
<1>c. cSeq + 1 \in Nat
  BY DEF TypeOK
<1>1. CASE OnError(k)
  <2>1. /\ observer' \in 0 .. MaxPlays
        /\ outcome' \in [Play -> {NULL} \cup [ok : BOOLEAN, sdp : Media \cup {NULL},
                                              by : Play]]
    BY <1>1, FailureType DEF OnError
  <2>2. Consume(k) /\ cmd_sent' = NULL
        /\ UNCHANGED <<media, cSeq, session, sdp, streamsSetup, clientStack, players,
                       caller, wire, threads, toServer, server>>
    BY <1>1 DEF OnError
  <2>3. QED
    BY <1>a, <2>1, <2>2 DEF TypeOK, players, caller, wire, threads, server
<1>2. CASE OnUnexpected(k)
  <2>1. /\ observer' \in 0 .. MaxPlays
        /\ outcome' \in [Play -> {NULL} \cup [ok : BOOLEAN, sdp : Media \cup {NULL},
                                              by : Play]]
    BY <1>2, FailureType DEF OnUnexpected
  <2>2. /\ chan' \in [Play -> {"null", "open", "closed"}]
        /\ toServer' \in [Play -> Seq(Request)] /\ toClient' \in [Play -> Seq(Response)]
    BY <1>2, CloseType DEF OnUnexpected
  <2>3. UNCHANGED <<fields, players, caller, dial, unsent, threads, server>>
    BY <1>2 DEF OnUnexpected
  <2>4. QED
    BY SMTT(40), <2>1, <2>2, <2>3 DEF TypeOK, fields, players, caller, threads, server
<1>3. CASE SetupOtherSession(k)
  BY <1>3, <1>a
     DEF SetupOtherSession, TypeOK, fields, players, told, caller, wire, threads, server
<1>4. CASE WrongCSeq(k)
  <2>1. session' \in Nat \cup {NULL}
    BY <1>4, <1>a DEF WrongCSeq, Adopt, TypeOK
  <2>2. /\ observer' \in 0 .. MaxPlays
        /\ outcome' \in [Play -> {NULL} \cup [ok : BOOLEAN, sdp : Media \cup {NULL},
                                              by : Play]]
    BY <1>4, FailureType DEF WrongCSeq
  <2>3. Consume(k)
        /\ UNCHANGED <<cmd_sent, media, cSeq, sdp, streamsSetup, clientStack, players,
                       caller, wire, threads, toServer, server>>
    BY <1>4 DEF WrongCSeq
  <2>4. QED
    BY SMTT(40), <1>a, <2>1, <2>2, <2>3 DEF TypeOK, players, caller, wire, threads, server
<1>5. CASE DescribeResponse(k)
  <2>1. received(k).sdp \in Media
    BY <1>5, <1>a DEF DescribeResponse
  <2> DEFINE streams == StreamsOf[received(k).sdp]
  <2>2. streams \in Seq(Stream) /\ streams # <<>>
    BY <2>1
  <2>3. Head(streams) \in Stream /\ Tail(streams) \in Seq(Stream)
    BY <2>2, HeadTailProperties
  <2>4. /\ streamsSetup' \in Seq(Stream) /\ sdp' \in Media
        /\ next' \in [Play -> Stream \cup {"PLAY", NULL}]
        /\ worker' \in [Play -> {"idle", "send", "await"}]
    BY <1>5, <2>1, <2>3 DEF DescribeResponse, TypeOK
  <2>5. cSeq' = cSeq + 1 /\ Consume(k)
        /\ UNCHANGED <<cmd_sent, media, session, clientStack, players, told, caller, wire,
                       toServer, server>>
    BY <1>5 DEF DescribeResponse, Fits
  <2> HIDE DEF streams
  <2>6. QED
    BY SMTT(40), <1>a, <1>c, <2>4, <2>5 DEF TypeOK, players, told, caller, wire, server
<1>6. CASE DescribeWithoutSdp(k)
  BY <1>6, <1>a, <1>b, <1>c
     DEF DescribeWithoutSdp, Fits, TypeOK, players, caller, wire, threads, server
<1>7. CASE SetupResponse(k)
  <2>1. /\ session' = received(k).session /\ cSeq' = cSeq + 1 /\ Consume(k)
        /\ UNCHANGED <<cmd_sent, media, sdp, clientStack, players, told, caller, wire,
                       toServer, server>>
    BY <1>7 DEF SetupResponse, Fits, Adopt
  <2>2. worker' \in [Play -> {"idle", "send", "await"}]
    BY <1>7 DEF SetupResponse, TypeOK
  <2>3. streamsSetup' \in Seq(Stream) /\ next' \in [Play -> Stream \cup {"PLAY", NULL}]
    <3>1. CASE streamsSetup = <<>>
      BY <1>7, <3>1 DEF SetupResponse, TypeOK
    <3>2. CASE streamsSetup # <<>>
      <4>1. Head(streamsSetup) \in Stream /\ Tail(streamsSetup) \in Seq(Stream)
        BY <3>2, HeadTailProperties DEF TypeOK
      <4>2. /\ next' = [next EXCEPT ![k] = Head(streamsSetup)]
            /\ streamsSetup' = Tail(streamsSetup)
        BY <1>7, <3>2 DEF SetupResponse
      <4>3. QED
        BY <4>1, <4>2 DEF TypeOK
    <3>3. QED
      BY <3>1, <3>2
  <2>4. QED
    BY SMTT(40), <1>a, <1>c, <2>1, <2>2, <2>3 DEF TypeOK, players, told, caller, wire, server
<1>8. CASE PlayResponse(k)
  <2>1. /\ cSeq' = cSeq + 1 /\ Consume(k)
        /\ UNCHANGED <<cmd_sent, media, sdp, streamsSetup, clientStack, players, caller,
                       wire, threads, toServer, server>>
    BY <1>8 DEF PlayResponse, Fits
  <2>2. CASE SessionFits(k)
    <3>1. Notify(k, TRUE) /\ session' = received(k).session
      BY <1>8, <2>2 DEF PlayResponse, Adopt
    <3>2. /\ observer' \in 0 .. MaxPlays
          /\ outcome' \in [Play -> {NULL} \cup [ok : BOOLEAN, sdp : Media \cup {NULL},
                                                by : Play]]
      BY <1>b, <3>1
    <3>3. session' \in Nat \cup {NULL}
      BY <1>a, <3>1
    <3>4. QED
      BY SMTT(40), <1>a, <1>c, <2>1, <3>2, <3>3 DEF TypeOK, players, caller, wire, threads, server
  <2>3. CASE ~SessionFits(k)
    <3>1. UNCHANGED <<session, told>>
      BY <1>8, <2>3 DEF PlayResponse
    <3>2. QED
      BY SMTT(40), <1>a, <1>c, <2>1, <3>1
         DEF TypeOK, told, players, caller, wire, threads, server
  <2>4. QED
    BY <2>2, <2>3
<1>9. QED
  BY <1>1, <1>2, <1>3, <1>4, <1>5, <1>6, <1>7, <1>8 DEF OnResponse

(* The request a worker builds. *)
LEMMA BuiltType ==
  ASSUME TypeOK, OneStackWorks, OneThingAtATime, MediaIsTarget, NEW k \in Play,
         worker[k] = "send"
  PROVE  k = clientStack /\ media \in Media /\ Built(k) \in Request
<1>1. k = clientStack
  BY DEF OneStackWorks, Quiet
<1>2. media \in Media
  BY <1>1 DEF MediaIsTarget, TypeOK, Play
<1>3. next[k] \in Stream \cup {"PLAY"}
  <2>1. next[k] # NULL
    BY DEF OneThingAtATime, OneThing
  <2>2. QED
    BY <2>1 DEF TypeOK
<1>4. QED
  BY <1>1, <1>2, <1>3 DEF Built, Request, TypeOK

(* The requests of a worker. *)
LEMMA SendType ==
  ASSUME TypeOK, OneStackWorks, OneThingAtATime, MediaIsTarget, NEW k \in Play,
         Send(k) \/ SendReconnects(k) \/ SendFails(k) \/ WriteAgain(k)
           \/ WriteAgainFails(k)
  PROVE  TypeOK'
<1>1. worker[k] = "send" =>
        Built(k) \in Request /\ Built(k).method \in {"DESCRIBE", "SETUP", "PLAY"}
  BY BuiltType DEF Request
<1>2. toServer[k] \in Seq(Request)
  BY DEF TypeOK
<1>3. /\ worker' \in [Play -> {"idle", "send", "await"}]
      /\ next' \in [Play -> Stream \cup {"PLAY", NULL}]
  <2>1. worker' \in {[worker EXCEPT ![k] = "idle"], [worker EXCEPT ![k] = "await"]}
    BY DEF Send, SendReconnects, SendFails, WriteAgain, WriteAgainFails
  <2>2. next' \in {next, [next EXCEPT ![k] = NULL]}
    BY DEF Send, SendReconnects, SendFails, WriteAgain, WriteAgainFails
  <2>3. QED
    BY <2>1, <2>2 DEF TypeOK
<1>4. CASE Send(k)
  <2>1. Append(toServer[k], Built(k)) \in Seq(Request)
    BY <1>1, <1>2, <1>4, AppendProperties DEF Send
  <2>2. toServer' \in [Play -> Seq(Request)]
    BY <1>4, <2>1 DEF Send, TypeOK
  <2>3. cmd_sent' \in {"DESCRIBE", "SETUP", "PLAY", NULL}
    BY <1>1, <1>4 DEF Send
  <2>4. QED
    BY <1>3, <1>4, <2>2, <2>3 DEF Send, TypeOK, players, told, caller, wire, server
<1>5. CASE SendReconnects(k)
  <2>1. /\ unsent' \in [Play -> Request \cup {NULL}]
        /\ dial' \in [Play -> {"none", "dialing", "failed"}]
    BY <1>1, <1>5 DEF SendReconnects, TypeOK
  <2>2. cmd_sent' \in {"DESCRIBE", "SETUP", "PLAY", NULL}
    BY <1>1, <1>5 DEF SendReconnects
  <2>3. QED
    BY <1>3, <1>5, <2>1, <2>2
       DEF SendReconnects, TypeOK, players, told, caller, traffic, server
<1>6. CASE SendFails(k)
  <2>1. cmd_sent' \in {"DESCRIBE", "SETUP", "PLAY", NULL}
    BY <1>1, <1>6 DEF SendFails, TypeOK
  <2>2. /\ observer' \in 0 .. MaxPlays
        /\ outcome' \in [Play -> {NULL} \cup [ok : BOOLEAN, sdp : Media \cup {NULL},
                                              by : Play]]
    BY <1>6, FailureType DEF SendFails
  <2>3. QED
    BY <1>3, <1>6, <2>1, <2>2 DEF SendFails, TypeOK, players, caller, wire, traffic, server
<1>7. CASE WriteAgain(k)
  <2>1. unsent[k] \in Request
    BY <1>7 DEF WriteAgain, OneThingAtATime, OneThing
  <2>2. Append(toServer[k], unsent[k]) \in Seq(Request)
    BY <1>2, <2>1, AppendProperties
  <2>3. toServer' \in [Play -> Seq(Request)] /\ unsent' \in [Play -> Request \cup {NULL}]
    BY <1>7, <2>2 DEF WriteAgain, TypeOK
  <2>4. QED
    BY SMTT(40), <1>3, <1>7, <2>3 DEF WriteAgain, TypeOK, fields, players, told, caller, server
<1>8. CASE WriteAgainFails(k)
  <2>1. unsent' \in [Play -> Request \cup {NULL}]
    BY <1>8 DEF WriteAgainFails, TypeOK
  <2>2. /\ observer' \in 0 .. MaxPlays
        /\ outcome' \in [Play -> {NULL} \cup [ok : BOOLEAN, sdp : Media \cup {NULL},
                                              by : Play]]
    BY <1>8, FailureType DEF WriteAgainFails
  <2>3. QED
    BY <1>3, <1>8, <2>1, <2>2 DEF WriteAgainFails, TypeOK, fields, players, caller, traffic, server
<1>9. QED
  BY <1>4, <1>5, <1>6, <1>7, <1>8

(* Every step keeps the types. *)
LEMMA NextType ==
  ASSUME TypeOK, OneStackWorks, OneThingAtATime, MediaIsTarget, MaxStrays = 0,
         [Next]_vars
  PROVE  TypeOK'
<1>1. CASE PlayMedia
  BY <1>1, FieldsType, TaskType, StopType, AwaitType, SendDescribeType DEF PlayMedia
<1>2. ASSUME NEW k \in Play, Stray(k)
      PROVE  FALSE
  BY <1>2 DEF Stray, TypeOK
<1>3. ASSUME NEW k \in Play, WorkerStep(k)
      PROVE  TypeOK'
  BY <1>3, ResponseType, SendType DEF WorkerStep
<1>4. CASE UNCHANGED vars
  BY <1>4 DEF vars, fields, players, told, caller, wire, threads, traffic, server, TypeOK
<1>5. QED
  BY <1>1, <1>2, <1>3, <1>4, PlayersType, ConnectionType, ServeType DEF Next
-----------------------------------------------------------------------------
(***************************************************************************)
(* One stack works, and does one thing at a time.                          *)
(***************************************************************************)

(* A queue of one message at most. *)
LEMMA OneMessage ==
  ASSUME NEW S, NEW s \in Seq(S), Len(s) <= 1, s # <<>>
  PROVE  Tail(s) = <<>> /\ s = <<Head(s)>>
<1>1. Len(s) = 1
  <2>1. Len(s) \in Nat /\ Len(s) # 0
    BY EmptySeq
  <2>2. \A n \in Nat : n # 0 /\ n <= 1 => n = 1
    OBVIOUS
  <2>3. QED
    BY <2>1, <2>2
<1>2. Tail(s) \in Seq(S) /\ Len(Tail(s)) = 0
  BY <1>1, HeadTailProperties
<1>3. Tail(s) = <<>>
  BY <1>2, EmptySeq
<1>4. Head(s) = s[1]
  OBVIOUS
<1>5. s = <<Head(s)>>
  BY <1>1, <1>4
<1>6. QED
  BY <1>3, <1>5

(* The first message of a queue. *)
LEMMA FirstMessage ==
  ASSUME NEW x
  PROVE  /\ Append(<<>>, x) # <<>> /\ Len(Append(<<>>, x)) = 1
         /\ Head(Append(<<>>, x)) = x
OBVIOUS

(* The steps of playMedia(), and of the players. *)
LEMMA StackByTask ==
  ASSUME TypeOK, OneStackWorks, OneThingAtATime,
         (\E m \in Media : Open(m)) \/ Cancel \/ PlayMedia \/ UNCHANGED vars
  PROVE  OneStackWorks'
<1> USE DEF OneStackWorks, Quiet, players, told, caller, wire, threads, traffic, fields
<1>1. ASSUME NEW m \in Media, Open(m)
      PROVE  OneStackWorks'
  BY <1>1 DEF Open
<1>2. CASE Cancel \/ UNCHANGED vars
  BY <1>2 DEF Cancel, vars
<1>3. CASE BeginTask
  BY <1>3 DEF BeginTask, TypeOK
<1>4. CASE ResetCSeq \/ ResetSession \/ SetMedia
  BY <1>4 DEF ResetCSeq, ResetSession, SetMedia
<1>5. CASE BadUri
  BY <1>5 DEF BadUri, Notify
<1>6. CASE StopNothing
  BY <1>6, TaskIsPlay DEF StopNothing, OneThingAtATime, OneThing, Asking, TypeOK
<1>7. CASE StopOld
  BY <1>7, TaskIsPlay DEF StopOld, TypeOK
<1>8. CASE BeginRelease
  BY <1>8 DEF BeginRelease
<1>9. CASE InterruptWorker
  BY <1>9, TaskIsPlay DEF InterruptWorker, Notify, TypeOK
<1>10. CASE Release
  BY <1>10, TaskIsPlay DEF Release, OneThingAtATime, OneThing, Asking
<1>11. CASE CreateStack
  <2>1. task \in Play /\ task > clientStack /\ task \in Nat /\ task # 0
    BY <1>11, TaskIsPlay DEF CreateStack, TypeOK, Play
  <2>2. \A k \in Play : Quiet(k)
    BY <1>11, <2>1 DEF CreateStack, Play
  <2>3. /\ clientStack' = task /\ task' = task /\ pc' = "describe"
        /\ UNCHANGED <<chan, dial, unsent, worker, toServer, toClient>>
    BY <1>11 DEF CreateStack
  <2>4. \A k \in Play : k > task => k > clientStack
    BY <2>1 DEF TypeOK, Play
  <2>5. QED
    BY <2>1, <2>2, <2>3, <2>4
<1>12. CASE SendDescribe
  BY <1>12, TaskIsPlay DEF SendDescribe, TypeOK
<1>13. CASE WriteDescribe
  BY <1>13, TaskIsPlay DEF WriteDescribe, TypeOK
<1>14. CASE WriteDescribeFails \/ InterruptCaller
  BY <1>14, TaskIsPlay DEF WriteDescribeFails, InterruptCaller, Notify, TypeOK
<1>15. QED
  BY <1>1, <1>2, <1>3, <1>4, <1>5, <1>6, <1>7, <1>8, <1>9, <1>10, <1>11, <1>12,
     <1>13, <1>14 DEF PlayMedia

(* A worker works on its own stack. *)
LEMMA WorkerFrame ==
  ASSUME TypeOK, NEW k \in Play, WorkerStep(k)
  PROVE  /\ \A j \in Play : j # k =>
              /\ toServer'[j] = toServer[j] /\ toClient'[j] = toClient[j]
              /\ worker'[j] = worker[j] /\ unsent'[j] = unsent[j]
              /\ chan'[j] = chan[j] /\ dial'[j] = dial[j]
         /\ chan'[k] \in {chan[k], "closed"}
<1> USE DEF wire, threads, traffic
<1>1. CASE OnResponse(k)
  <2>1. UNCHANGED <<unsent, dial>> /\ chan' \in {chan, [chan EXCEPT ![k] = "closed"]}
    BY <1>1 DEF OnResponse, OnError, OnUnexpected, SetupOtherSession, WrongCSeq,
         DescribeResponse, DescribeWithoutSdp, SetupResponse, PlayResponse, Close
  <2>2. worker' \in {worker, [worker EXCEPT ![k] = "send"]}
    BY <1>1 DEF OnResponse, OnError, OnUnexpected, SetupOtherSession, WrongCSeq,
         DescribeResponse, DescribeWithoutSdp, SetupResponse, PlayResponse
  <2>3. /\ toServer' \in {toServer, [toServer EXCEPT ![k] = <<>>]}
        /\ toClient' \in {[toClient EXCEPT ![k] = Tail(@)], [toClient EXCEPT ![k] = <<>>]}
    BY <1>1 DEF OnResponse, OnError, OnUnexpected, SetupOtherSession, WrongCSeq,
         DescribeResponse, DescribeWithoutSdp, SetupResponse, PlayResponse, Fits,
         Consume, Close
  <2>4. QED
    BY <2>1, <2>2, <2>3 DEF TypeOK
<1>2. CASE Send(k) \/ SendReconnects(k) \/ SendFails(k)
  <2>1. CASE Send(k)
    BY <1>2, <2>1 DEF Send, TypeOK
  <2>2. CASE SendReconnects(k)
    BY <1>2, <2>2 DEF SendReconnects, TypeOK
  <2>3. CASE SendFails(k)
    BY <1>2, <2>3 DEF SendFails, TypeOK
  <2>4. QED
    BY <1>2, <2>1, <2>2, <2>3
<1>3. CASE WriteAgain(k) \/ WriteAgainFails(k)
  BY <1>3 DEF WriteAgain, WriteAgainFails, TypeOK
<1>4. QED
  BY <1>1, <1>2, <1>3 DEF WorkerStep

(* The steps of connections, of the server and of the workers. *)
LEMMA StackByOthers ==
  ASSUME TypeOK, OneStackWorks, OneThingAtATime, NEW k \in Play,
         Dial(k) \/ Serve(k) \/ Cut(k) \/ Reset(k) \/ WorkerStep(k)
  PROVE  OneStackWorks'
<1> USE DEF OneStackWorks, Quiet, players, told, caller, wire, threads, traffic, fields
<1>1. CASE Dial(k)
  <2>1. dial[k] = "dialing" /\ ~(k > clientStack) /\ (pc = "describe" => k # task)
    BY <1>1 DEF Dial, Connected, Refused
  <2>2. /\ UNCHANGED <<clientStack, task, pc, unsent, worker, toServer, toClient>>
        /\ \A j \in Play : j # k => chan'[j] = chan[j] /\ dial'[j] = dial[j]
        /\ chan'[k] \in {chan[k], "open"}
    <3>1. CASE Connected(k)
      BY <3>1 DEF Connected, TypeOK
    <3>2. CASE Refused(k)
      BY <3>2 DEF Refused, TypeOK
    <3>3. QED
      BY <1>1, <3>1, <3>2 DEF Dial
  <2>3. QED
    BY <2>1, <2>2, TaskIsPlay
<1>2. CASE Serve(k)
  <2>1. k = clientStack /\ k # 0
    BY <1>2 DEF Serve, Refuse, Answer, Play
  <2>2. pc \notin {"create", "describe"} /\ chan[k] = "open"
    BY <1>2, <2>1 DEF Serve, Refuse, Answer, OneThingAtATime, OneThing
  <2>3. UNCHANGED <<clientStack, task, pc, chan, dial, unsent, worker>>
        /\ \A j \in Play : j # k => toServer'[j] = toServer[j] /\ toClient'[j] = toClient[j]
    <3>1. CASE Refuse(k)
      BY <3>1 DEF Refuse, TypeOK
    <3>2. CASE Answer(k)
      BY <3>2 DEF Answer, TypeOK
    <3>3. QED
      BY <1>2, <3>1, <3>2 DEF Serve
  <2>4. QED
    BY <2>1, <2>2, <2>3
<1>3. CASE Cut(k) \/ Reset(k)
  <2>1. chan[k] = "open" /\ (pc = "describe" => k # task)
    BY <1>3 DEF Cut, Reset, Close
  <2>2. /\ UNCHANGED <<clientStack, task, pc, unsent, worker, dial>>
        /\ chan' = [chan EXCEPT ![k] = "closed"]
        /\ toServer' = [toServer EXCEPT ![k] = <<>>]
        /\ toClient' = [toClient EXCEPT ![k] = <<>>]
    BY <1>3 DEF Cut, Reset, Close
  <2>3. QED
    BY <2>1, <2>2, TaskIsPlay DEF TypeOK
<1>4. CASE WorkerStep(k)
  <2>1. toClient[k] # <<>> \/ worker[k] # "idle"
    BY <1>4 DEF WorkerStep, OnResponse, OnError, OnUnexpected, SetupOtherSession,
         WrongCSeq, DescribeResponse, DescribeWithoutSdp, SetupResponse, PlayResponse,
         Fits, Arrived, Send, SendReconnects, SendFails, WriteAgain, WriteAgainFails
  <2>2. k = clientStack /\ pc \notin {"create", "describe"}
    BY <2>1 DEF Play
  <2>3. UNCHANGED <<clientStack, task, pc>> /\ chan[k] # "null"
    BY <1>4, <2>1 DEF WorkerStep, OnResponse, OnError, OnUnexpected, SetupOtherSession,
         WrongCSeq, DescribeResponse, DescribeWithoutSdp, SetupResponse, PlayResponse,
         Fits, Arrived, Send, SendReconnects, SendFails, WriteAgain, WriteAgainFails,
         OneThingAtATime, OneThing
  <2>4. /\ \A j \in Play : j # k =>
             /\ toServer'[j] = toServer[j] /\ toClient'[j] = toClient[j]
             /\ worker'[j] = worker[j] /\ unsent'[j] = unsent[j]
             /\ chan'[j] = chan[j] /\ dial'[j] = dial[j]
        /\ chan'[k] \in {chan[k], "closed"}
    BY <1>4, WorkerFrame
  <2>5. QED
    BY <2>2, <2>3, <2>4
<1>5. QED
  BY <1>1, <1>2, <1>3, <1>4

(* What does not concern a stack leaves it as it is. *)
LEMMA OneThingFrame ==
  ASSUME NEW k \in Play, OneThing(k), Asking(k)' <=> Asking(k),
         toServer'[k] = toServer[k], toClient'[k] = toClient[k],
         chan'[k] = chan[k], worker'[k] = worker[k], unsent'[k] = unsent[k],
         next'[k] = next[k]
  PROVE  OneThing(k)'
BY DEF OneThing

(* A response is handled alone, and its handler sends at most one request. *)
LEMMA ResponseStep ==
  ASSUME TypeOK, OneThingAtATime, NEW k \in Play, OnResponse(k)
  PROVE  /\ Arrived(k) /\ toServer[k] = <<>> /\ ~Asking(k)
         /\ Tail(toClient[k]) = <<>> /\ toClient[k] = <<received(k)>>
         /\ toServer'[k] = <<>> /\ toClient'[k] = <<>>
         /\ \A j \in Play : j # k =>
              /\ toServer'[j] = toServer[j] /\ toClient'[j] = toClient[j]
              /\ worker'[j] = worker[j] /\ next'[j] = next[j] /\ chan'[j] = chan[j]
         /\ UNCHANGED <<unsent, dial, caller, players, server, clientStack, media>>
         /\ worker'[k] = "idle" \/ (worker'[k] = "send" /\ next'[k] # NULL /\ chan'[k] = chan[k])
<1> USE DEF wire, threads, traffic
<1>0. Arrived(k)
  BY DEF OnResponse, OnError, OnUnexpected, SetupOtherSession, WrongCSeq,
         DescribeResponse, DescribeWithoutSdp, SetupResponse, PlayResponse, Fits
<1>1. toServer[k] = <<>> /\ ~Asking(k) /\ toClient[k] # <<>> /\ Len(toClient[k]) <= 1
      /\ toClient[k] \in Seq(Response) /\ worker[k] = "idle" /\ chan[k] = "open"
  BY <1>0 DEF Arrived, OneThingAtATime, OneThing, TypeOK
<1>2. Tail(toClient[k]) = <<>> /\ toClient[k] = <<received(k)>>
  BY <1>1, OneMessage DEF received
<1>3. /\ toServer' \in {toServer, [toServer EXCEPT ![k] = <<>>]}
      /\ toClient' \in {[toClient EXCEPT ![k] = Tail(@)], [toClient EXCEPT ![k] = <<>>]}
      /\ UNCHANGED <<unsent, dial, caller, players, server, clientStack, media>>
      /\ chan' \in {chan, [chan EXCEPT ![k] = "closed"]}
  BY DEF OnResponse, OnError, OnUnexpected, SetupOtherSession, WrongCSeq,
         DescribeResponse, DescribeWithoutSdp, SetupResponse, PlayResponse, Fits,
         Consume, Close, fields
<1>4. \/ worker' = worker /\ next' = next
      \/ /\ worker' = [worker EXCEPT ![k] = "send"] /\ chan' = chan
         /\ \E n \in Stream \cup {"PLAY"} : next' = [next EXCEPT ![k] = n]
  <2>1. CASE DescribeResponse(k)
    <3>1. received(k).sdp \in Media
      BY <1>0, <2>1, ArrivedType DEF DescribeResponse
    <3>2. Head(StreamsOf[received(k).sdp]) \in Stream
      BY <3>1, HeadTailProperties
    <3>3. QED
      BY <2>1, <3>2 DEF DescribeResponse
  <2>2. CASE SetupResponse(k)
    <3>1. streamsSetup # <<>> => Head(streamsSetup) \in Stream
      BY HeadTailProperties DEF TypeOK
    <3>2. QED
      BY <2>2, <3>1 DEF SetupResponse
  <2>3. QED
    BY <2>1, <2>2 DEF OnResponse, OnError, OnUnexpected, SetupOtherSession, WrongCSeq,
       DescribeWithoutSdp, PlayResponse
<1>5. /\ worker'[k] = "idle" \/ (worker'[k] = "send" /\ next'[k] # NULL /\ chan'[k] = chan[k])
      /\ \A j \in Play : j # k => worker'[j] = worker[j] /\ next'[j] = next[j]
  BY <1>1, <1>4 DEF TypeOK
<1>6. /\ toServer'[k] = <<>> /\ toClient'[k] = <<>>
      /\ \A j \in Play : j # k =>
              /\ toServer'[j] = toServer[j] /\ toClient'[j] = toClient[j]
              /\ chan'[j] = chan[j]
  BY <1>1, <1>2, <1>3 DEF TypeOK
<1>7. QED
  BY <1>0, <1>1, <1>2, <1>3, <1>5, <1>6

(* One thing at a time: playMedia() and the players. *)
LEMMA OneThingByTask ==
  ASSUME TypeOK, OneStackWorks, OneThingAtATime, MediaIsTarget,
         (\E m \in Media : Open(m)) \/ Cancel \/ PlayMedia \/ UNCHANGED vars,
         NEW k \in Play
  PROVE  OneThing(k)'
<1> USE DEF players, told, caller, wire, threads, traffic, fields
<1>0. OneThing(k)
  BY DEF OneThingAtATime
<1>1. ASSUME NEW m \in Media, Open(m)
      PROVE  OneThing(k)'
  BY <1>0, <1>1, OneThingFrame DEF Open, Asking
<1>2. CASE Cancel \/ UNCHANGED vars
  BY <1>0, <1>2, OneThingFrame DEF Cancel, vars, Asking
<1>3. CASE BeginTask \/ ResetCSeq \/ ResetSession \/ SetMedia \/ BadUri \/ StopNothing
             \/ BeginRelease \/ Release \/ CreateStack
  <2>1. UNCHANGED <<wire, threads, traffic>> /\ ~Asking(k) /\ ~Asking(k)'
    BY <1>3 DEF BeginTask, ResetCSeq, ResetSession, SetMedia, BadUri, StopNothing,
                BeginRelease, Release, CreateStack, Asking
  <2>2. QED
    BY <1>0, <2>1, OneThingFrame
<1>4. CASE StopOld
  <2>1. ~Asking(k) /\ ~Asking(k)' /\ UNCHANGED <<worker, unsent, next>>
    BY <1>4 DEF StopOld, Asking
  <2>2. CASE k = clientStack
    <3>1. toServer'[k] = <<>> /\ toClient'[k] = <<>> /\ chan'[k] = "closed"
      BY <1>4, <2>2 DEF StopOld, TypeOK
    <3>2. QED
      BY <1>0, <2>1, <3>1 DEF OneThing
  <2>3. CASE k # clientStack
    BY <1>0, <1>4, <2>1, <2>3, OneThingFrame DEF StopOld, TypeOK
  <2>4. QED
    BY <2>2, <2>3
<1>5. CASE InterruptWorker
  <2>1. ~Asking(k) /\ ~Asking(k)' /\ UNCHANGED <<chan, toServer, toClient, next>>
    BY <1>5 DEF InterruptWorker, Asking
  <2>2. CASE k = clientStack
    <3>1. worker[k] = "await" /\ worker'[k] = "idle" /\ unsent'[k] = NULL
      BY <1>5, <2>2 DEF InterruptWorker, TypeOK
    <3>2. QED
      BY <1>0, <2>1, <3>1 DEF OneThing
  <2>3. CASE k # clientStack
    BY <1>0, <1>5, <2>1, <2>3, OneThingFrame DEF InterruptWorker, TypeOK
  <2>4. QED
    BY <2>2, <2>3
<1>6. CASE SendDescribe
  <2>1. CASE k = task
    <3>1. Quiet(k) /\ media \in Media
      BY <1>6, <2>1 DEF SendDescribe, OneStackWorks, MediaIsTarget, TypeOK
    <3> DEFINE q == [method |-> "DESCRIBE", media |-> media, stream |-> NULL,
                     cSeq |-> cSeq, session |-> NULL]
    <3>2. q \in Request
      BY <3>1 DEF Request, TypeOK
    <3>3. unsent'[k] = q /\ UNCHANGED <<chan, worker, next, toServer, toClient>> /\ Asking(k)'
      BY <1>6, <2>1 DEF SendDescribe, TypeOK, Asking
    <3> HIDE DEF q
    <3>4. QED
      BY <1>0, <3>1, <3>2, <3>3 DEF OneThing, Quiet
  <2>2. CASE k # task
    BY <1>0, <1>6, <2>2, OneThingFrame DEF SendDescribe, Asking, TypeOK
  <2>3. QED
    BY <2>1, <2>2
<1>7. CASE WriteDescribe
  <2>1. CASE k = task
    <3>1. /\ Asking(k) /\ ~Asking(k)' /\ chan[k] = "open" /\ unsent'[k] = NULL
          /\ toServer'[k] = Append(toServer[k], unsent[k])
          /\ UNCHANGED <<chan, worker, next, toClient>>
      BY <1>7, <2>1 DEF WriteDescribe, Asking, TypeOK
    <3>2. toServer[k] = <<>> /\ toClient[k] = <<>> /\ worker[k] = "idle"
      BY <1>0, <3>1 DEF OneThing, TypeOK
    <3>3. toServer'[k] # <<>> /\ Len(toServer'[k]) = 1
      BY <3>1, <3>2, FirstMessage
    <3>4. QED
      BY <1>0, <3>1, <3>2, <3>3 DEF OneThing
  <2>2. CASE k # task
    BY <1>0, <1>7, <2>2, OneThingFrame DEF WriteDescribe, Asking, TypeOK
  <2>3. QED
    BY <2>1, <2>2
<1>8. CASE WriteDescribeFails \/ InterruptCaller
  <2>1. CASE k = task
    <3>1. /\ Asking(k) /\ ~Asking(k)' /\ unsent'[k] = NULL
          /\ UNCHANGED <<chan, worker, next, toServer, toClient>>
      BY <1>8, <2>1 DEF WriteDescribeFails, InterruptCaller, Asking, TypeOK
    <3>2. QED
      BY <1>0, <3>1 DEF OneThing, TypeOK
  <2>2. CASE k # task
    BY <1>0, <1>8, <2>2, OneThingFrame DEF WriteDescribeFails, InterruptCaller, Asking, TypeOK
  <2>3. QED
    BY <2>1, <2>2
<1>9. QED
  BY <1>1, <1>2, <1>3, <1>4, <1>5, <1>6, <1>7, <1>8 DEF PlayMedia

(* ... the worker of the stack itself. *)
LEMMA OneThingByWorker ==
  ASSUME TypeOK, OneStackWorks, OneThingAtATime, MediaIsTarget, NEW k \in Play,
         WorkerStep(k)
  PROVE  OneThing(k)'
<1> USE DEF players, told, caller, wire, threads, traffic, fields
<1>0. OneThing(k) /\ UNCHANGED <<task, pc>>
  BY DEF OneThingAtATime, WorkerStep, OnResponse, OnError, OnUnexpected,
         SetupOtherSession, WrongCSeq, DescribeResponse, DescribeWithoutSdp,
         SetupResponse, PlayResponse, Send, SendReconnects, SendFails, WriteAgain,
         WriteAgainFails
<1>a. Asking(k)' <=> Asking(k)
  BY <1>0 DEF Asking
<1>1. CASE OnResponse(k)
  <2>1. /\ Arrived(k) /\ ~Asking(k) /\ toServer'[k] = <<>> /\ toClient'[k] = <<>>
        /\ unsent' = unsent
        /\ worker'[k] = "idle" \/ (worker'[k] = "send" /\ next'[k] # NULL /\ chan'[k] = chan[k])
    BY <1>1, ResponseStep
  <2>2. unsent[k] = NULL /\ chan[k] = "open"
    BY <1>0, <2>1 DEF OneThing, Arrived
  <2>3. QED
    BY <1>a, <2>1, <2>2 DEF OneThing
<1>2. CASE Send(k)
  <2>1. /\ worker[k] = "send" /\ chan[k] = "open" /\ worker'[k] = "idle"
        /\ toServer'[k] = Append(toServer[k], Built(k))
        /\ UNCHANGED <<chan, unsent, toClient>>
    BY <1>2 DEF Send, TypeOK
  <2>2. toServer[k] = <<>> /\ toClient[k] = <<>> /\ ~Asking(k) /\ unsent[k] = NULL
    BY <1>0, <2>1 DEF OneThing
  <2>3. toServer'[k] # <<>> /\ Len(toServer'[k]) = 1
    BY <2>1, <2>2, FirstMessage
  <2>4. QED
    BY <1>0, <1>a, <2>1, <2>2, <2>3 DEF OneThing
<1>3. CASE SendReconnects(k)
  <2>1. /\ worker[k] = "send" /\ chan[k] = "closed" /\ worker'[k] = "await"
        /\ unsent'[k] = Built(k) /\ UNCHANGED <<chan, toServer, toClient>>
    BY <1>3 DEF SendReconnects, TypeOK
  <2>2. Built(k) \in Request
    BY <2>1, BuiltType
  <2>3. QED
    BY <1>0, <1>a, <2>1, <2>2 DEF OneThing
<1>4. CASE SendFails(k)
  <2>1. /\ worker[k] = "send" /\ worker'[k] = "idle"
        /\ UNCHANGED <<chan, unsent, toServer, toClient>>
    BY <1>4 DEF SendFails, TypeOK
  <2>2. QED
    BY <1>0, <1>a, <2>1 DEF OneThing
<1>5. CASE WriteAgain(k)
  <2>1. /\ worker[k] = "await" /\ chan[k] = "open" /\ worker'[k] = "idle"
        /\ toServer'[k] = Append(toServer[k], unsent[k]) /\ unsent'[k] = NULL
        /\ UNCHANGED <<chan, toClient>>
    BY <1>5 DEF WriteAgain, TypeOK
  <2>2. toServer[k] = <<>> /\ toClient[k] = <<>> /\ ~Asking(k)
    BY <1>0, <2>1 DEF OneThing
  <2>3. toServer'[k] # <<>> /\ Len(toServer'[k]) = 1
    BY <2>1, <2>2, FirstMessage
  <2>4. QED
    BY <1>0, <1>a, <2>1, <2>2, <2>3 DEF OneThing
<1>6. CASE WriteAgainFails(k)
  <2>1. /\ worker[k] = "await" /\ worker'[k] = "idle" /\ unsent'[k] = NULL
        /\ UNCHANGED <<chan, toServer, toClient>>
    BY <1>6 DEF WriteAgainFails, TypeOK
  <2>2. QED
    BY <1>0, <1>a, <2>1 DEF OneThing
<1>7. QED
  BY <1>1, <1>2, <1>3, <1>4, <1>5, <1>6 DEF WorkerStep

(* ... connections, server and workers, for every stack. *)
LEMMA OneThingByOthers ==
  ASSUME TypeOK, OneStackWorks, OneThingAtATime, MediaIsTarget, NEW k \in Play,
         Dial(k) \/ Serve(k) \/ Cut(k) \/ Reset(k) \/ WorkerStep(k)
  PROVE  OneThingAtATime'
<1> USE DEF players, told, caller, wire, threads, traffic, fields
<1>0. OneThing(k) /\ UNCHANGED <<task, pc>>
  BY DEF OneThingAtATime, Dial, Connected, Refused, Serve, Refuse, Answer, Cut, Reset,
         WorkerStep, OnResponse, OnError, OnUnexpected,
         SetupOtherSession, WrongCSeq, DescribeResponse, DescribeWithoutSdp,
         SetupResponse, PlayResponse, Send, SendReconnects, SendFails, WriteAgain,
         WriteAgainFails
<1>a. \A j \in Play : Asking(j)' <=> Asking(j)
  BY <1>0 DEF Asking
<1>1. \A j \in Play : j # k =>
        /\ toServer'[j] = toServer[j] /\ toClient'[j] = toClient[j]
        /\ worker'[j] = worker[j] /\ unsent'[j] = unsent[j]
        /\ chan'[j] = chan[j] /\ next'[j] = next[j]
  <2>1. CASE Dial(k)
    BY <2>1 DEF Dial, Connected, Refused, TypeOK
  <2>2. CASE Serve(k) \/ Cut(k) \/ Reset(k)
    <3>1. CASE Refuse(k) \/ Answer(k)
      BY <3>1 DEF Refuse, Answer, TypeOK
    <3>2. CASE Cut(k) \/ Reset(k)
      BY <3>2 DEF Cut, Reset, Close, TypeOK
    <3>3. QED
      BY <2>2, <3>1, <3>2 DEF Serve
  <2>3. CASE WorkerStep(k)
    <3>1. \A j \in Play : j # k => next'[j] = next[j]
      <4>1. CASE OnResponse(k)
        BY <4>1, ResponseStep
      <4>2. CASE ~OnResponse(k)
        BY <2>3, <4>2 DEF WorkerStep, Send, SendReconnects, SendFails, WriteAgain,
                         WriteAgainFails, TypeOK
      <4>3. QED
        BY <4>1, <4>2
    <3>2. QED
      BY <2>3, <3>1, WorkerFrame
  <2>4. QED
    BY <2>1, <2>2, <2>3
<1>2. OneThing(k)'
  <2>1. CASE Dial(k)
    <3>1. /\ chan'[k] \in {chan[k], "open"}
          /\ UNCHANGED <<worker, unsent, next, toServer, toClient>>
      BY <2>1 DEF Dial, Connected, Refused, TypeOK
    <3>2. QED
      BY <1>0, <1>a, <3>1 DEF OneThing
  <2>2. CASE Serve(k)
    <3>1. PICK a \in Response : toClient' = [toClient EXCEPT ![k] = Append(@, a)]
      BY <2>2, ServeStep, ServedTypes
    <3>2. /\ toServer[k] # <<>> /\ toServer' = [toServer EXCEPT ![k] = Tail(@)]
          /\ UNCHANGED <<chan, worker, unsent, next>>
      BY <2>2, ServeStep
    <3>3. toClient[k] = <<>> /\ Tail(toServer[k]) = <<>> /\ chan[k] = "open"
          /\ worker[k] = "idle" /\ ~Asking(k)
      <4>1. toServer[k] \in Seq(Request) /\ Len(toServer[k]) <= 1
        BY <1>0 DEF OneThing, TypeOK
      <4>2. QED
        BY <1>0, <3>2, <4>1, OneMessage DEF OneThing
    <3>4. toServer'[k] = <<>> /\ toClient'[k] = Append(<<>>, a)
      BY <3>1, <3>2, <3>3 DEF TypeOK
    <3>5. toClient'[k] # <<>> /\ Len(toClient'[k]) = 1
      BY <3>4, FirstMessage
    <3>6. QED
      BY <1>0, <1>a, <3>2, <3>3, <3>4, <3>5 DEF OneThing
  <2>3. CASE Cut(k) \/ Reset(k)
    <3>1. /\ chan'[k] = "closed" /\ toServer'[k] = <<>> /\ toClient'[k] = <<>>
          /\ UNCHANGED <<worker, unsent, next>>
      BY <2>3 DEF Cut, Reset, Close, TypeOK
    <3>2. QED
      BY <1>0, <1>a, <3>1 DEF OneThing
  <2>4. CASE WorkerStep(k)
    BY <2>4, OneThingByWorker
  <2>5. QED
    BY <2>1, <2>2, <2>3, <2>4
<1>3. ASSUME NEW j \in Play, j # k
      PROVE  OneThing(j)'
  <2>1. OneThing(j)
    BY DEF OneThingAtATime
  <2>2. QED
    BY <1>a, <1>1, <1>3, <2>1, OneThingFrame
<1>4. QED
  BY <1>2, <1>3 DEF OneThingAtATime
-----------------------------------------------------------------------------
(***************************************************************************)
(* What is under way.                                                      *)
(***************************************************************************)
LEMMA NothingElsewhere ==
  ASSUME TypeOK, OneStackWorks, NEW k \in Play, k # clientStack
  PROVE  Pending(k) = {} /\ Replies(k) = {} /\ worker[k] = "idle"
<1>1. Quiet(k) /\ ~Asking(k)
  BY DEF OneStackWorks, Asking
<1>2. QED
  BY <1>1 DEF Pending, Replies, Quiet

(* ... and so after a step. *)
LEMMA NothingElsewhereNext ==
  ASSUME TypeOK', OneStackWorks', NEW k \in Play, k # clientStack'
  PROVE  Pending(k)' = {} /\ Replies(k)' = {} /\ worker'[k] = "idle"
<1>1. Quiet(k)' /\ ~Asking(k)'
  BY DEF OneStackWorks, Asking
<1>2. QED
  BY <1>1 DEF Pending, Replies, Quiet

(* The request that waits is the one that is written. *)
LEMMA WriteKeeps ==
  ASSUME NEW k \in Play, toServer[k] = <<>>, worker[k] = "await" \/ Asking(k),
         toServer'[k] = Append(toServer[k], unsent[k]),
         worker'[k] = "idle", ~Asking(k)'
  PROVE  Pending(k)' = Pending(k)
<1>1. toServer'[k] # <<>> /\ Head(toServer'[k]) = unsent[k]
  BY FirstMessage
<1>2. Pending(k)' = {unsent[k]}
  BY <1>1 DEF Pending
<1>3. Pending(k) = {unsent[k]}
  BY DEF Pending
<1>4. QED
  BY <1>2, <1>3

(* What is under way only shrinks when queues are kept or emptied. *)
LEMMA UnderWayFrame ==
  ASSUME NEW k \in Play, toServer'[k] \in {toServer[k], <<>>},
         toClient'[k] \in {toClient[k], <<>>},
         \/ worker'[k] # "await" /\ ~Asking(k)'
         \/ unsent'[k] = unsent[k] /\ worker'[k] = worker[k] /\ (Asking(k)' <=> Asking(k))
  PROVE  Pending(k)' \subseteq Pending(k) /\ Replies(k)' \subseteq Replies(k)
<1>1. Replies(k)' \subseteq Replies(k)
  BY DEF Replies, received
<1>2. Pending(k)' \subseteq Pending(k)
  BY DEF Pending
<1>3. QED
  BY <1>1, <1>2

(* The steps that bring nothing under way that was not. *)
LEMMA NothingNewByTask ==
  ASSUME TypeOK, OneStackWorks, OneThingAtATime,
         (\E m \in Media : Open(m)) \/ Cancel \/ (PlayMedia /\ ~SendDescribe)
           \/ UNCHANGED vars,
         NEW k \in Play
  PROVE  Pending(k)' \subseteq Pending(k) /\ Replies(k)' \subseteq Replies(k)
<1> USE DEF players, told, caller, wire, threads, traffic, fields
<1>1. ASSUME NEW m \in Media, Open(m)
      PROVE  Pending(k)' \subseteq Pending(k) /\ Replies(k)' \subseteq Replies(k)
  BY <1>1, UnderWayFrame DEF Open, Asking
<1>2. CASE Cancel \/ UNCHANGED vars
  BY <1>2, UnderWayFrame DEF Cancel, vars, Asking
<1>3. CASE BeginTask \/ ResetCSeq \/ ResetSession \/ SetMedia \/ BadUri \/ StopNothing
             \/ BeginRelease \/ Release \/ CreateStack
  <2>1. UNCHANGED <<wire, threads, traffic>> /\ ~Asking(k) /\ ~Asking(k)'
    BY <1>3 DEF BeginTask, ResetCSeq, ResetSession, SetMedia, BadUri, StopNothing,
                BeginRelease, Release, CreateStack, Asking
  <2>2. QED
    BY <2>1, UnderWayFrame
<1>4. CASE StopOld
  <2>1. ~Asking(k) /\ ~Asking(k)' /\ UNCHANGED <<worker, unsent>>
        /\ toServer'[k] \in {toServer[k], <<>>} /\ toClient'[k] \in {toClient[k], <<>>}
    BY <1>4 DEF StopOld, Asking, TypeOK
  <2>2. QED
    BY <2>1, UnderWayFrame
<1>5. CASE InterruptWorker
  <2>1. ~Asking(k) /\ ~Asking(k)' /\ UNCHANGED <<toServer, toClient>>
        /\ (worker'[k] = "idle" \/ (worker'[k] = worker[k] /\ unsent'[k] = unsent[k]))
    BY <1>5 DEF InterruptWorker, Asking, TypeOK
  <2>2. QED
    BY <2>1, UnderWayFrame
<1>6. CASE WriteDescribe \/ WriteDescribeFails \/ InterruptCaller
  <2>1. CASE k = task
    <3>1. Asking(k) /\ ~Asking(k)' /\ UNCHANGED <<worker, toClient>>
      BY <1>6, <2>1 DEF WriteDescribe, WriteDescribeFails, InterruptCaller, Asking
    <3>2. worker[k] = "idle" /\ toServer[k] = <<>>
      BY <3>1 DEF OneThingAtATime, OneThing, TypeOK
    <3>3. toServer'[k] = toServer[k] \/ toServer'[k] = Append(toServer[k], unsent[k])
      BY <1>6, <2>1 DEF WriteDescribe, WriteDescribeFails, InterruptCaller, TypeOK
    <3>4. CASE toServer'[k] = toServer[k]
      BY <3>1, <3>2, <3>4, UnderWayFrame
    <3>5. CASE toServer'[k] = Append(toServer[k], unsent[k])
      BY <3>1, <3>2, <3>5, WriteKeeps DEF Replies, received
    <3>6. QED
      BY <3>3, <3>4, <3>5
  <2>2. CASE k # task
    <3>1. /\ ~Asking(k) /\ ~Asking(k)' /\ UNCHANGED <<worker, toClient>>
          /\ toServer'[k] = toServer[k] /\ unsent'[k] = unsent[k]
      BY <1>6, <2>2 DEF WriteDescribe, WriteDescribeFails, InterruptCaller, Asking, TypeOK
    <3>2. QED
      BY <3>1, UnderWayFrame
  <2>3. QED
    BY <2>1, <2>2
<1>7. QED
  BY <1>1, <1>2, <1>3, <1>4, <1>5, <1>6 DEF PlayMedia

(* ... nor do those of connections and failing workers. *)
LEMMA NothingNewByOthers ==
  ASSUME TypeOK, OneStackWorks, OneThingAtATime, NEW k \in Play, NEW j \in Play,
         Dial(j) \/ Cut(j) \/ Reset(j) \/ SendFails(j) \/ WriteAgain(j)
           \/ WriteAgainFails(j)
  PROVE  /\ Pending(k)' \subseteq Pending(k) /\ Replies(k)' \subseteq Replies(k)
         /\ worker'[k] \in {worker[k], "idle"} /\ (worker'[k] = "send" => next'[k] = next[k])
         /\ UNCHANGED <<media, cSeq, session, sdp, streamsSetup, clientStack, players,
                        caller, issued, answered>>
<1> USE DEF players, told, caller, wire, threads, traffic, fields, server
<1>0. UNCHANGED <<media, cSeq, session, sdp, streamsSetup, clientStack, players,
                        caller, issued, answered>>
  BY DEF Dial, Connected, Refused, Cut, Reset, SendFails, WriteAgain, WriteAgainFails
<1>a. Asking(k)' <=> Asking(k)
  BY <1>0 DEF Asking
<1>b. worker'[k] \in {worker[k], "idle"} /\ (worker'[k] = "send" => next'[k] = next[k])
  <2>1. CASE Dial(j) \/ Cut(j) \/ Reset(j) \/ WriteAgain(j) \/ WriteAgainFails(j)
    BY <2>1 DEF Dial, Connected, Refused, Cut, Reset, WriteAgain, WriteAgainFails, TypeOK
  <2>2. CASE SendFails(j)
    BY <2>2 DEF SendFails, TypeOK
  <2>3. QED
    BY <2>1, <2>2
<1>1. CASE Dial(j) \/ Cut(j) \/ Reset(j)
  <2>1. UNCHANGED <<worker, unsent>>
        /\ toServer'[k] \in {toServer[k], <<>>} /\ toClient'[k] \in {toClient[k], <<>>}
    BY <1>1 DEF Dial, Connected, Refused, Cut, Reset, Close, TypeOK
  <2>2. QED
    BY <1>0, <1>a, <1>b, <2>1, UnderWayFrame
<1>2. CASE SendFails(j)
  <2>1. UNCHANGED <<toServer, toClient, unsent>>
        /\ (worker'[k] = worker[k] \/ (worker'[k] = "idle" /\ ~Asking(k)))
    BY <1>2 DEF SendFails, TypeOK, OneThingAtATime, OneThing
  <2>2. QED
    BY <1>0, <1>a, <1>b, <2>1, UnderWayFrame
<1>3. CASE WriteAgain(j)
  <2>1. CASE k = j
    <3>1. worker[k] = "await" /\ worker'[k] = "idle" /\ toClient' = toClient
          /\ toServer'[k] = Append(toServer[k], unsent[k])
      BY <1>3, <2>1 DEF WriteAgain, TypeOK
    <3>2. ~Asking(k) /\ toServer[k] = <<>>
      BY <3>1 DEF OneThingAtATime, OneThing
    <3>3. QED
      BY <1>0, <1>a, <1>b, <3>1, <3>2, WriteKeeps DEF Replies, received
  <2>2. CASE k # j
    <3>1. toServer'[k] = toServer[k] /\ toClient' = toClient /\ unsent'[k] = unsent[k]
          /\ worker'[k] = worker[k]
      BY <1>3, <2>2 DEF WriteAgain, TypeOK
    <3>2. QED
      BY <1>0, <1>a, <1>b, <3>1, UnderWayFrame
  <2>3. QED
    BY <2>1, <2>2
<1>4. CASE WriteAgainFails(j)
  <2>1. UNCHANGED <<toServer, toClient>>
        /\ (\/ worker'[k] = "idle" /\ ~Asking(k)
            \/ worker'[k] = worker[k] /\ unsent'[k] = unsent[k])
    BY <1>4 DEF WriteAgainFails, TypeOK, OneThingAtATime, OneThing
  <2>2. QED
    BY <1>0, <1>a, <1>b, <2>1, UnderWayFrame
<1>5. QED
  BY <1>1, <1>2, <1>3, <1>4

(* The stack at work is the last one. *)
LEMMA BusyStack ==
  ASSUME TypeOK, OneStackWorks, OneThingAtATime, NEW k \in Play,
         Serve(k) \/ WorkerStep(k)
  PROVE  /\ k = clientStack /\ UNCHANGED <<task, pc, clientStack>>
         /\ Owned' => Owned /\ k = task
<1> USE DEF players, told, caller, wire, threads, traffic, fields
<1>1. toClient[k] # <<>> \/ toServer[k] # <<>> \/ worker[k] # "idle"
  BY DEF Serve, Refuse, Answer, WorkerStep, OnResponse, OnError, OnUnexpected,
         SetupOtherSession, WrongCSeq, DescribeResponse, DescribeWithoutSdp,
         SetupResponse, PlayResponse, Fits, Arrived, Send, SendReconnects, SendFails,
         WriteAgain, WriteAgainFails
<1>2. k = clientStack
  BY <1>1 DEF OneStackWorks, Quiet
<1>3. UNCHANGED <<task, pc, clientStack>>
  BY DEF Serve, Refuse, Answer, WorkerStep, OnResponse, OnError, OnUnexpected,
         SetupOtherSession, WrongCSeq, DescribeResponse, DescribeWithoutSdp,
         SetupResponse, PlayResponse, Send, SendReconnects, SendFails,
         WriteAgain, WriteAgainFails
<1>4. QED
  BY <1>2, <1>3 DEF Owned

(* The request the server reads makes way for its response. *)
LEMMA ServedUnderWay ==
  ASSUME TypeOK, OneThingAtATime, NEW k \in Play, Serve(k), NEW r, r = Head(toServer[k])
  PROVE  /\ r \in Request /\ Pending(k) = {r} /\ Pending(k)' = {}
         /\ Replies(k)' = {Refusal(r)} \/ Replies(k)' = {Acceptance(r)}
         /\ worker[k] = "idle" /\ worker'[k] = "idle"
<1>1. OneThing(k) /\ toServer[k] \in Seq(Request)
  BY DEF OneThingAtATime, TypeOK
<1>2. /\ toServer[k] # <<>> /\ r \in Request
      /\ toServer' = [toServer EXCEPT ![k] = Tail(@)]
      /\ UNCHANGED <<caller, wire, threads>>
  BY ServeStep
<1>3. /\ toClient[k] = <<>> /\ worker[k] = "idle" /\ ~Asking(k)
      /\ Tail(toServer[k]) = <<>>
  BY <1>1, <1>2, OneMessage DEF OneThing
<1>4. Pending(k) = {r}
  BY <1>2, <1>3 DEF Pending
<1>5. toServer'[k] = <<>> /\ worker'[k] = "idle" /\ ~Asking(k)'
  BY <1>2, <1>3 DEF TypeOK, caller, threads, Asking
<1>6. Pending(k)' = {}
  BY <1>5 DEF Pending
<1>7. ASSUME NEW a, toClient' = [toClient EXCEPT ![k] = Append(@, a)]
      PROVE  Replies(k)' = {a}
  <2>1. toClient'[k] = Append(<<>>, a)
    BY <1>3, <1>7 DEF TypeOK
  <2>2. QED
    BY <2>1, FirstMessage DEF Replies, received
<1>8. Replies(k)' = {Refusal(r)} \/ Replies(k)' = {Acceptance(r)}
  BY <1>7, ServeStep
<1>9. QED
  BY <1>2, <1>3, <1>4, <1>5, <1>6, <1>8

(* The request a worker sends. *)
LEMMA SentUnderWay ==
  ASSUME TypeOK, OneThingAtATime, NEW k \in Play, Send(k) \/ SendReconnects(k)
  PROVE  /\ Pending(k)' = {Built(k)} /\ Replies(k)' = {}
         /\ worker'[k] # "send" /\ worker[k] = "send" /\ Buildable(k)
         /\ cmd_sent' = Built(k).method
         /\ UNCHANGED <<media, cSeq, session, sdp, streamsSetup, server>>
<1> USE DEF caller, wire, traffic
<1>1. /\ worker[k] = "send" /\ Buildable(k) /\ cmd_sent' = Built(k).method
      /\ UNCHANGED <<media, cSeq, session, sdp, streamsSetup, server, pc, task>>
  BY DEF Send, SendReconnects
<1>2. toServer[k] = <<>> /\ toClient[k] = <<>> /\ ~Asking(k)
  BY <1>1 DEF OneThingAtATime, OneThing
<1>3. ~Asking(k)' /\ toClient' = toClient
  BY <1>1, <1>2 DEF Asking, Send, SendReconnects
<1>4. Replies(k)' = {}
  BY <1>2, <1>3 DEF Replies
<1>5. Pending(k)' = {Built(k)} /\ worker'[k] # "send"
  <2>1. CASE Send(k)
    <3>1. toServer'[k] = Append(<<>>, Built(k)) /\ worker'[k] = "idle"
      BY <1>2, <2>1 DEF Send, TypeOK
    <3>2. QED
      BY <1>3, <3>1, FirstMessage DEF Pending
  <2>2. CASE SendReconnects(k)
    <3>1. toServer'[k] = <<>> /\ worker'[k] = "await" /\ unsent'[k] = Built(k)
      BY <1>2, <2>2 DEF SendReconnects, TypeOK
    <3>2. QED
      BY <3>1 DEF Pending
  <2>3. QED
    BY <2>1, <2>2
<1>6. QED
  BY <1>1, <1>4, <1>5

(* The response that is handled, and what it leaves. *)
LEMMA HandledUnderWay ==
  ASSUME TypeOK, OneThingAtATime, NEW k \in Play, OnResponse(k)
  PROVE  /\ Replies(k) = {received(k)} /\ received(k) \in Response
         /\ Pending(k)' = {} /\ Replies(k)' = {}
<1>1. /\ Arrived(k) /\ toServer'[k] = <<>> /\ toClient'[k] = <<>> /\ ~Asking(k)
      /\ UNCHANGED caller /\ worker'[k] # "await"
  BY ResponseStep
<1>2. received(k) \in Response
  BY <1>1, ArrivedType
<1>3. Pending(k)' = {} /\ Replies(k)' = {}
  BY <1>1 DEF Pending, Replies, Asking, caller
<1>4. QED
  BY <1>1, <1>2, <1>3 DEF Replies, Arrived

(* What is handled fits as long as nothing new is under way. *)
LEMMA StillFits ==
  ASSUME TypeOK, WhatIsUnderWayFits, cmd_sent' = cmd_sent, session' \in {session, NULL},
         issued' = issued,
         \A k \in Play : Pending(k)' \subseteq Pending(k) /\ Replies(k)' \subseteq Replies(k)
  PROVE  WhatIsUnderWayFits'
BY DEF WhatIsUnderWayFits, UnderWayFits

(* What is under way fits: playMedia() and the players. *)
LEMMA UnderWayByTask ==
  ASSUME TypeOK, OneStackWorks, OneThingAtATime, WhatIsUnderWayFits,
         TypeOK', OneStackWorks',
         (\E m \in Media : Open(m)) \/ Cancel \/ PlayMedia \/ UNCHANGED vars
  PROVE  WhatIsUnderWayFits'
<1> USE DEF players, told, caller, wire, threads, traffic, fields, server
<1>1. CASE SendDescribe
  <2> DEFINE q == [method |-> "DESCRIBE", media |-> media, stream |-> NULL,
                   cSeq |-> cSeq, session |-> NULL]
  <2>1. task \in Play /\ Quiet(task) /\ clientStack' = task
    BY <1>1, TaskIsPlay DEF SendDescribe, OneStackWorks
  <2>2. unsent'[task] = q /\ Asking(task)' /\ cmd_sent' = "DESCRIBE"
        /\ UNCHANGED <<toServer, toClient, session, issued, task>>
    BY <1>1, <2>1 DEF SendDescribe, Asking, TypeOK
  <2>3. Pending(task)' = {q} /\ Replies(task)' = {}
    <3> HIDE DEF q
    <3> QED
      BY <2>1, <2>2 DEF Pending, Replies, Quiet
  <2>4. UnderWayFits(task)'
    BY <2>2, <2>3 DEF UnderWayFits
  <2>5. ASSUME NEW k \in Play, k # task
        PROVE  UnderWayFits(k)'
    BY <2>1, <2>5, NothingElsewhereNext DEF UnderWayFits
  <2>6. QED
    BY <2>2, <2>4, <2>5 DEF WhatIsUnderWayFits
<1>2. CASE ~SendDescribe
  <2>1. cmd_sent' = cmd_sent /\ session' \in {session, NULL} /\ issued' = issued
    BY <1>2 DEF Open, Cancel, PlayMedia, vars, BeginTask, ResetCSeq, ResetSession,
       SetMedia, BadUri, StopNothing, StopOld, BeginRelease, InterruptWorker, Release,
       CreateStack, WriteDescribe, WriteDescribeFails, InterruptCaller
  <2>2. QED
    BY <1>2, <2>1, StillFits, NothingNewByTask
<1>3. QED
  BY <1>1, <1>2

(* ... connections, server and workers. *)
LEMMA UnderWayByOthers ==
  ASSUME TypeOK, OneStackWorks, OneThingAtATime, MediaIsTarget, WhatIsUnderWayFits,
         TypeOK', OneStackWorks', NEW k \in Play,
         Dial(k) \/ Serve(k) \/ Cut(k) \/ Reset(k) \/ WorkerStep(k)
  PROVE  WhatIsUnderWayFits'
<1> USE DEF players, told, caller, wire, threads, traffic, fields
<1>1. CASE Dial(k) \/ Cut(k) \/ Reset(k) \/ WriteAgain(k) \/ WriteAgainFails(k)
  <2>1. cmd_sent' = cmd_sent /\ session' = session /\ issued' = issued
    BY <1>1 DEF Dial, Connected, Refused, Cut, Reset, WriteAgain, WriteAgainFails, server
  <2>2. QED
    BY <1>1, <2>1, StillFits, NothingNewByOthers
<1>a. ASSUME UnderWayFits(k)', session' # NULL => session' \in 1 .. issued',
             Serve(k) \/ WorkerStep(k)
      PROVE  WhatIsUnderWayFits'
  <2>1. k = clientStack'
    BY <1>a, BusyStack
  <2>2. ASSUME NEW j \in Play, j # k
        PROVE  UnderWayFits(j)'
    BY <2>1, <2>2, NothingElsewhereNext DEF UnderWayFits
  <2>3. QED
    BY <1>a, <2>2 DEF WhatIsUnderWayFits
<1>b. UnderWayFits(k)
  BY DEF WhatIsUnderWayFits
<1>2. CASE Serve(k)
  <2> DEFINE r == Head(toServer[k])
  <2>1. /\ r \in Request /\ Pending(k) = {r} /\ Pending(k)' = {}
        /\ Replies(k)' = {Refusal(r)} \/ (Replies(k)' = {Acceptance(r)}
            /\ issued' = IF SessionOf(r) = r.session THEN issued ELSE issued + 1)
        /\ UNCHANGED fields /\ issued' \in {issued, issued + 1}
    <3>1. /\ r \in Request /\ Pending(k) = {r} /\ Pending(k)' = {}
          /\ Replies(k)' = {Refusal(r)} \/ Replies(k)' = {Acceptance(r)}
      BY <1>2, ServedUnderWay
    <3>2. /\ UNCHANGED fields
          /\ \/ toClient' = [toClient EXCEPT ![k] = Append(@, Refusal(r))]
                /\ issued' = issued
             \/ issued' = IF SessionOf(r) = r.session THEN issued ELSE issued + 1
      BY <1>2, ServeStep
    <3>3. toClient' = [toClient EXCEPT ![k] = Append(@, Refusal(r))]
            => Replies(k)' = {Refusal(r)}
      <4>1. toClient[k] = <<>>
        BY <1>2, ServeStep DEF OneThingAtATime, OneThing
      <4>2. toClient' = [toClient EXCEPT ![k] = Append(@, Refusal(r))]
            => toClient'[k] = Append(<<>>, Refusal(r))
        BY <4>1 DEF TypeOK
      <4>3. QED
        BY <4>2, FirstMessage DEF Replies, received
    <3> HIDE DEF r
    <3>4. QED
      BY <3>1, <3>2, <3>3
  <2> HIDE DEF r
  <2>2. /\ cmd_sent = r.method /\ r.method \in {"DESCRIBE", "SETUP", "PLAY"}
        /\ r.session # NULL => r.session \in 1 .. issued
        /\ r.method = "PLAY" => r.session # NULL
    BY <1>b, <2>1 DEF UnderWayFits, Request
  <2>3. issued \in Nat /\ issued' \in Nat /\ issued + 1 # NULL
    BY SMTT(40) DEF TypeOK
  <2>4. session' # NULL => session' \in 1 .. issued'
    BY <2>1, <2>3 DEF WhatIsUnderWayFits
  <2>5. CASE Replies(k)' = {Refusal(r)}
    <3>1. UnderWayFits(k)'
      BY <2>1, <2>2, <2>5 DEF UnderWayFits, Refusal
    <3>2. QED
      BY <1>2, <1>a, <2>4, <3>1
  <2>6. CASE /\ Replies(k)' = {Acceptance(r)}
             /\ issued' = IF SessionOf(r) = r.session THEN issued ELSE issued + 1
    <3>1. SessionOf(r) # NULL => SessionOf(r) \in 1 .. issued'
      BY <2>2, <2>3, <2>6 DEF SessionOf
    <3>2. r.method # "DESCRIBE" => SessionOf(r) # NULL
      BY <2>2, <2>3 DEF SessionOf
    <3>3. UnderWayFits(k)'
      BY <2>1, <2>2, <2>6, <3>1, <3>2 DEF UnderWayFits, Acceptance
    <3>4. QED
      BY <1>2, <1>a, <2>4, <3>3
  <2>7. QED
    BY <2>1, <2>5, <2>6
<1>3. CASE Send(k) \/ SendReconnects(k)
  <2>1. /\ Pending(k)' = {Built(k)} /\ Replies(k)' = {} /\ Buildable(k)
        /\ cmd_sent' = Built(k).method
        /\ UNCHANGED <<session, issued>>
    BY <1>3, SentUnderWay DEF server
  <2>2. UnderWayFits(k)'
    BY <2>1 DEF UnderWayFits, WhatIsUnderWayFits, Built, Buildable
  <2>3. QED
    BY <1>3, <1>a, <2>1, <2>2 DEF WorkerStep, WhatIsUnderWayFits
<1>4. CASE SendFails(k)
  <2>1. Pending(k)' \subseteq Pending(k) /\ Replies(k)' \subseteq Replies(k)
        /\ UNCHANGED <<session, issued>>
    BY <1>4, NothingNewByOthers
  <2>2. Pending(k) = {} /\ Replies(k) = {}
    BY <1>4 DEF SendFails, OneThingAtATime, OneThing, Pending, Replies
  <2>3. UnderWayFits(k)'
    BY <2>1, <2>2 DEF UnderWayFits
  <2>4. QED
    BY <1>4, <1>a, <2>1, <2>3 DEF WorkerStep, WhatIsUnderWayFits
<1>5. CASE OnResponse(k)
  <2>1. Replies(k) = {received(k)} /\ Pending(k)' = {} /\ Replies(k)' = {}
    BY <1>5, HandledUnderWay
  <2>2. session' \in {session, received(k).session}
    BY <1>5 DEF OnResponse, OnError, OnUnexpected, SetupOtherSession, WrongCSeq,
         DescribeResponse, DescribeWithoutSdp, SetupResponse, PlayResponse, Adopt
  <2>3. issued' = issued
    BY <1>5, ResponseStep DEF server
  <2>4. UnderWayFits(k)'
    BY <2>1 DEF UnderWayFits
  <2>5. session' # NULL => session' \in 1 .. issued'
    BY <1>b, <2>1, <2>2, <2>3 DEF UnderWayFits, WhatIsUnderWayFits
  <2>6. QED
    BY <1>5, <1>a, <2>4, <2>5 DEF WorkerStep
<1>6. QED
  BY <1>1, <1>2, <1>3, <1>4, <1>5 DEF WorkerStep
-----------------------------------------------------------------------------
(***************************************************************************)
(* The media, and who is told.                                             *)
(***************************************************************************)
LEMMA OthersFrame ==
  ASSUME NEW k \in Play, Dial(k) \/ Serve(k) \/ Cut(k) \/ Reset(k) \/ WorkerStep(k)
  PROVE  UNCHANGED <<media, clientStack, players, caller>>
BY DEF fields, Dial, Connected, Refused, Serve, Refuse, Answer, Cut, Reset,
       WorkerStep, OnResponse, OnError, OnUnexpected, SetupOtherSession, WrongCSeq,
       DescribeResponse, DescribeWithoutSdp, SetupResponse, PlayResponse, Send,
       SendReconnects, SendFails, WriteAgain, WriteAgainFails

(* The media of the fields is that of the play, in every step. *)
LEMMA MediaStep ==
  ASSUME TypeOK, OneStackWorks, MediaIsTarget, ToldWhenOpen, MaxStrays = 0, [Next]_vars
  PROVE  MediaIsTarget'
<1> USE DEF MediaIsTarget, Owned, fields, players, caller
<1>0. task \in Nat /\ play \in Nat /\ task <= play
  BY DEF TypeOK
<1>1. ASSUME NEW m \in Media, Open(m)
      PROVE  MediaIsTarget'
  <2>1. UNCHANGED <<media, clientStack, pc, task>>
        /\ target' = [target EXCEPT ![play + 1] = m]
    BY <1>1 DEF Open
  <2>2. Owned \/ pc \in {"start", "stop", "release", "create", "describe"} =>
          task \in Play
    BY TaskIsPlay DEF TypeOK, Play
  <2>3. task # play + 1
    BY <1>0
  <2>4. Owned \/ pc \in {"start", "stop", "release", "create", "describe"} =>
          target'[task] = target[task]
    BY <2>1, <2>2, <2>3 DEF TypeOK
  <2>5. QED
    BY <2>1, <2>4
<1>2. CASE Cancel \/ UNCHANGED vars
  BY <1>2 DEF Cancel, vars
<1>3. CASE BeginTask \/ ResetCSeq \/ ResetSession
  BY <1>3 DEF BeginTask, ResetCSeq, ResetSession
<1>4. CASE SetMedia
  <2>1. task \in Play /\ target[task] \in Media
    BY <1>0, <1>4, TaskIsPlay DEF SetMedia, ToldWhenOpen
  <2>2. QED
    BY <1>4, <2>1 DEF SetMedia
<1>5. CASE BadUri
  <2>1. clientStack < task
    BY <1>5 DEF BadUri, OneStackWorks
  <2>2. clientStack # task
    BY <2>1 DEF TypeOK
  <2>3. QED
    BY <1>5, <2>2 DEF BadUri
<1>6. CASE StopNothing \/ StopOld \/ BeginRelease \/ InterruptWorker \/ Release
  BY <1>6 DEF StopNothing, StopOld, BeginRelease, InterruptWorker, Release
<1>7. CASE CreateStack
  <2>1. task \in Play /\ target[task] \in Media
    BY <1>0, <1>7, TaskIsPlay DEF CreateStack, ToldWhenOpen
  <2>2. QED
    BY <1>7, <2>1 DEF CreateStack
<1>8. CASE SendDescribe \/ WriteDescribe \/ WriteDescribeFails \/ InterruptCaller
  BY <1>8 DEF SendDescribe, WriteDescribe, WriteDescribeFails, InterruptCaller,
              OneStackWorks
<1>9. ASSUME NEW k \in Play, Dial(k) \/ Serve(k) \/ Cut(k) \/ Reset(k) \/ WorkerStep(k)
      PROVE  MediaIsTarget'
  BY <1>9, OthersFrame
<1>10. ASSUME NEW k \in Play, Stray(k)
       PROVE  FALSE
  BY <1>10 DEF Stray, TypeOK
<1>11. QED
  BY <1>1, <1>2, <1>3, <1>4, <1>5, <1>6, <1>7, <1>8, <1>9, <1>10 DEF Next, PlayMedia

(* Whom a step notifies: of a success only if PLAY was accepted. *)
LEMMA WhoIsTold ==
  ASSUME TypeOK, OneStackWorks, MaxStrays = 0, [Next]_vars
  PROVE  \/ \E m \in Media : Open(m)
         \/ UNCHANGED <<players, told>>
         \/ UNCHANGED players /\ \E k \in Play : Notify(k, FALSE)
         \/ \E k \in Play : PlayResponse(k) /\ SessionFits(k)
<1> USE DEF players, told
<1>1. CASE Cancel \/ UNCHANGED vars
  BY <1>1 DEF Cancel, vars
<1>2. CASE PlayMedia
  <2>1. CASE BadUri \/ InterruptWorker \/ WriteDescribeFails \/ InterruptCaller
    <3>1. task \in Play /\ (pc = "release" => clientStack \in Play)
      BY <2>1, TaskIsPlay DEF BadUri, InterruptWorker, WriteDescribeFails, InterruptCaller
    <3>2. QED
      BY <2>1, <3>1 DEF BadUri, InterruptWorker, WriteDescribeFails, InterruptCaller
  <2>2. CASE ~(BadUri \/ InterruptWorker \/ WriteDescribeFails \/ InterruptCaller)
    BY <1>2, <2>2 DEF PlayMedia, BeginTask, ResetCSeq, ResetSession, SetMedia, StopNothing,
       StopOld, BeginRelease, Release, CreateStack, SendDescribe, WriteDescribe
  <2>3. QED
    BY <2>1, <2>2
<1>3. ASSUME NEW k \in Play, Dial(k) \/ Serve(k) \/ Cut(k) \/ Reset(k)
      PROVE  UNCHANGED <<players, told>> \/ (UNCHANGED players /\ Notify(k, FALSE))
  BY <1>3 DEF Dial, Connected, Refused, Serve, Refuse, Answer, Cut, Reset
<1>4. ASSUME NEW k \in Play, OnResponse(k)
      PROVE  \/ UNCHANGED <<players, told>> \/ (UNCHANGED players /\ Notify(k, FALSE))
             \/ (PlayResponse(k) /\ SessionFits(k))
  BY <1>4 DEF OnResponse, OnError, OnUnexpected, SetupOtherSession, WrongCSeq,
         DescribeResponse, DescribeWithoutSdp, SetupResponse, PlayResponse
<1>5. ASSUME NEW k \in Play, Send(k) \/ SendReconnects(k) \/ SendFails(k)
                             \/ WriteAgain(k) \/ WriteAgainFails(k)
      PROVE  UNCHANGED <<players, told>> \/ (UNCHANGED players /\ Notify(k, FALSE))
  BY <1>5 DEF Send, SendReconnects, SendFails, WriteAgain, WriteAgainFails
<1>6. ASSUME NEW k \in Play, Stray(k)
      PROVE  FALSE
  BY <1>6 DEF Stray, TypeOK
<1>7. QED
  BY <1>1, <1>2, <1>3, <1>4, <1>5, <1>6 DEF Next, WorkerStep

(* Only a play that was opened is told of its end, in every step. *)
LEMMA ToldStep ==
  ASSUME TypeOK, OneStackWorks, ToldWhenOpen, MaxStrays = 0, [Next]_vars
  PROVE  ToldWhenOpen'
<1> USE DEF ToldWhenOpen, players, told
<1>0. play \in Nat /\ play <= MaxPlays /\ observer \in Nat
  BY DEF TypeOK
<1>1. ASSUME NEW m \in Media, Open(m)
      PROVE  ToldWhenOpen'
  <2>1. /\ play' = play + 1 /\ observer' = play + 1 /\ outcome' = outcome
        /\ target' = [target EXCEPT ![play + 1] = m]
    BY <1>1 DEF Open
  <2>2. \A p \in Play : p <= play + 1 => target'[p] \in Media
    BY <1>0, <2>1 DEF TypeOK, Play
  <2>3. \A p \in Play : outcome'[p] # NULL => p <= play + 1
    BY <1>0, <2>1 DEF Play
  <2>4. QED
    BY <2>1, <2>2, <2>3
<1>2. ASSUME NEW k \in Play, NEW ok \in BOOLEAN, Notify(k, ok), UNCHANGED players
      PROVE  ToldWhenOpen'
  <2>1. \A p \in Play : outcome'[p] # NULL => p <= play
    BY <1>0, <1>2 DEF Notify, TypeOK
  <2>2. QED
    BY <1>2, <2>1 DEF Notify
<1>3. ASSUME NEW k \in Play, PlayResponse(k), SessionFits(k)
      PROVE  ToldWhenOpen'
  <2>1. Notify(k, TRUE) /\ UNCHANGED players
    BY <1>3 DEF PlayResponse
  <2>2. TRUE \in BOOLEAN
    OBVIOUS
  <2>3. QED
    BY <1>2, <2>1, <2>2
<1>4. CASE UNCHANGED <<players, told>>
  BY <1>4
<1>5. ASSUME NEW k \in Play, Notify(k, FALSE), UNCHANGED players
      PROVE  ToldWhenOpen'
  <2>1. FALSE \in BOOLEAN
    OBVIOUS
  <2>2. QED
    BY <1>2, <1>5, <2>1
<1>6. QED
  BY <1>1, <1>3, <1>4, <1>5, WhoIsTold
-----------------------------------------------------------------------------
(***************************************************************************)
(* The handshake of the last stack.                                        *)
(***************************************************************************)

(* What the server has answered stays answered. *)
LEMMA AnsweredStays ==
  ASSUME NEW k \in Play, answered[k] \subseteq answered'[k], media' = media,
         NEW method, NEW st, NEW s, AnsweredOK(k, method, st, s)
  PROVE  AnsweredOK(k, method, st, s)'
BY DEF AnsweredOK

(* The streams that are set up stay so. *)
LEMMA DoneStays ==
  ASSUME NEW k \in Play, answered[k] \subseteq answered'[k], media' = media,
         session' = session, NEW n, DoneInSession(k, n)
  PROVE  DoneInSession(k, n)'
BY DEF AnsweredOK, DoneInSession

(* How far the handshake is depends on the fields only. *)
LEMMA ReachedStays ==
  ASSUME UNCHANGED <<media, session, sdp, streamsSetup>>
  PROVE  Reached' = Reached /\ Current' = Current /\ (SetUp(Reached)' <=> SetUp(Reached))
BY DEF Reached, Current, SetUp

(* A request of the handshake stays one, *)
LEMMA OwnRequestStays ==
  ASSUME NEW k \in Play, answered[k] \subseteq answered'[k],
         UNCHANGED <<media, cSeq, session, sdp, streamsSetup>>, NEW q, OwnRequest(k, q)
  PROVE  OwnRequest(k, q)'
<1>1. Reached' = Reached /\ Current' = Current /\ (SetUp(Reached)' <=> SetUp(Reached))
  BY ReachedStays
<1>2. \A n : DoneInSession(k, n) => DoneInSession(k, n)'
  BY DoneStays
<1>3. /\ DoneInSession(k, Reached) => DoneInSession(k, Reached)'
      /\ DoneInSession(k, Reached - 1) => DoneInSession(k, Reached - 1)'
  BY <1>1, <1>2
<1>4. QED
  BY <1>1, <1>3 DEF OwnRequest

(* a response of the handshake stays one, *)
LEMMA OwnResponseStays ==
  ASSUME NEW k \in Play, answered[k] \subseteq answered'[k],
         UNCHANGED <<media, cSeq, session, sdp, streamsSetup>>, NEW r, OwnResponse(k, r)
  PROVE  OwnResponse(k, r)'
<1>1. Reached' = Reached /\ Current' = Current /\ (SetUp(Reached)' <=> SetUp(Reached))
  BY ReachedStays
<1>2. \A n : DoneInSession(k, n) => DoneInSession(k, n)'
  BY DoneStays
<1>3. /\ DoneInSession(k, Reached) => DoneInSession(k, Reached)'
      /\ DoneInSession(k, Reached - 1) => DoneInSession(k, Reached - 1)'
  BY <1>1, <1>2
<1>4. \A m, st : AnsweredOK(k, m, st, r.session) => AnsweredOK(k, m, st, r.session)'
  BY AnsweredStays
<1>5. /\ AnsweredOK(k, "SETUP", Current, r.session) =>
           AnsweredOK(k, "SETUP", Current, r.session)'
      /\ AnsweredOK(k, "PLAY", NULL, r.session) => AnsweredOK(k, "PLAY", NULL, r.session)'
  BY <1>1, <1>4
<1>6. QED
  BY <1>1, <1>3, <1>5 DEF OwnResponse

(* and so does what the worker is about to send. *)
LEMMA OwnNextStays ==
  ASSUME NEW k \in Play, answered[k] \subseteq answered'[k], next'[k] = next[k],
         UNCHANGED <<media, cSeq, session, sdp, streamsSetup>>, OwnNext(k)
  PROVE  OwnNext(k)'
<1>1. Reached' = Reached /\ Current' = Current /\ (SetUp(Reached)' <=> SetUp(Reached))
  BY ReachedStays
<1>2. \A n : DoneInSession(k, n) => DoneInSession(k, n)'
  BY DoneStays
<1>3. /\ DoneInSession(k, Reached) => DoneInSession(k, Reached)'
      /\ DoneInSession(k, Reached - 1) => DoneInSession(k, Reached - 1)'
  BY <1>1, <1>2
<1>4. QED
  BY <1>1, <1>3 DEF OwnNext

(* The handshake fits as long as nothing new is under way. *)
LEMMA StillOwn ==
  ASSUME NEW k \in Play, k = task, Owned, OwnHandshakeFits,
         UNCHANGED <<media, cSeq, session, sdp, streamsSetup, task>>,
         answered[k] \subseteq answered'[k],
         Pending(k)' \subseteq Pending(k), Replies(k)' \subseteq Replies(k),
         worker'[k] = "send" => worker[k] = "send" /\ next'[k] = next[k]
  PROVE  OwnHandshakeFits'
<1>1. /\ \A q \in Pending(k) : OwnRequest(k, q)
      /\ \A r \in Replies(k) : OwnResponse(k, r)
      /\ worker[k] = "send" => OwnNext(k)
  BY DEF OwnHandshakeFits
<1>2. \A q \in Pending(k)' : OwnRequest(k, q)'
  BY <1>1, OwnRequestStays
<1>3. \A r \in Replies(k)' : OwnResponse(k, r)'
  BY <1>1, OwnResponseStays
<1>4. worker'[k] = "send" => OwnNext(k)'
  BY <1>1, OwnNextStays
<1>5. task' = k
  OBVIOUS
<1>6. QED
  BY <1>2, <1>3, <1>4, <1>5 DEF OwnHandshakeFits

(* The handshake under way is that of a play. *)
LEMMA OwnedIsPlay ==
  ASSUME TypeOK, Owned
  PROVE  task \in Play
BY DEF TypeOK, Owned, Play

(* The handshake fits: playMedia() and the players. *)
LEMMA OwnByTask ==
  ASSUME TypeOK, OneStackWorks, OneThingAtATime, OwnHandshakeFits,
         (\E m \in Media : Open(m)) \/ Cancel \/ PlayMedia \/ UNCHANGED vars
  PROVE  OwnHandshakeFits'
<1> USE DEF players, told, caller, wire, threads, traffic, fields, server
<1>1. CASE SendDescribe
  <2>0. PICK q : q = [method |-> "DESCRIBE", media |-> media, stream |-> NULL,
                      cSeq |-> cSeq, session |-> NULL]
    OBVIOUS
  <2>1. PICK k \in Play : k = task
    BY <1>1, TaskIsPlay DEF SendDescribe
  <2>2. Quiet(k)
    BY <1>1, <2>1 DEF SendDescribe, OneStackWorks
  <2>3. unsent'[k] = q /\ Asking(k)'
        /\ UNCHANGED <<toServer, toClient, worker, task, media, cSeq>>
    BY <1>1, <2>0, <2>1 DEF SendDescribe, Asking, TypeOK
  <2>4. Pending(k)' = {q} /\ Replies(k)' = {} /\ worker'[k] = "idle"
    BY <2>2, <2>3 DEF Pending, Replies, Quiet
  <2>5. OwnRequest(k, q)'
    BY <2>0, <2>3 DEF OwnRequest
  <2>6. /\ \A x \in Pending(k)' : OwnRequest(k, x)'
        /\ \A r \in Replies(k)' : OwnResponse(k, r)'
        /\ worker'[k] = "send" => OwnNext(k)'
    BY <2>4, <2>5
  <2>7. task' = k
    BY <2>1, <2>3
  <2>8. QED
    BY <2>6, <2>7 DEF OwnHandshakeFits
<1>2. CASE ~SendDescribe /\ Owned'
  <2>1. Owned /\ UNCHANGED <<media, cSeq, session, sdp, streamsSetup, task, answered>>
        /\ worker' = worker /\ next' = next
    <3>1. CASE (\E m \in Media : Open(m)) \/ Cancel \/ UNCHANGED vars
      BY <1>2, <3>1 DEF Open, Cancel, vars, Owned
    <3>2. CASE BadUri
      <4>1. clientStack < task
        BY <3>2 DEF BadUri, OneStackWorks
      <4>2. clientStack # task
        BY <4>1 DEF TypeOK
      <4>3. QED
        BY <1>2, <3>2, <4>2 DEF BadUri, Owned
    <3>3. CASE InterruptWorker
      BY <1>2, <3>3 DEF InterruptWorker, Owned
    <3>4. CASE WriteDescribe \/ WriteDescribeFails \/ InterruptCaller
      BY <1>2, <3>4 DEF WriteDescribe, WriteDescribeFails, InterruptCaller, Owned
    <3>5. CASE BeginTask \/ ResetCSeq \/ ResetSession \/ SetMedia \/ StopNothing \/ StopOld
                 \/ BeginRelease \/ Release \/ CreateStack
      BY <1>2, <3>5 DEF BeginTask, ResetCSeq, ResetSession, SetMedia, StopNothing,
         StopOld, BeginRelease, Release, CreateStack, Owned
    <3>6. QED
      BY <1>2, <3>1, <3>2, <3>3, <3>4, <3>5 DEF PlayMedia
  <2>2. PICK k \in Play : k = task
    BY <2>1, OwnedIsPlay
  <2>3. Pending(k)' \subseteq Pending(k) /\ Replies(k)' \subseteq Replies(k)
    BY <1>2, NothingNewByTask
  <2>4. QED
    BY <2>1, <2>2, <2>3, StillOwn
<1>3. CASE ~Owned'
  BY <1>3 DEF OwnHandshakeFits
<1>4. QED
  BY <1>1, <1>2, <1>3

(* One more stream is being set up. *)
LEMMA NextStream ==
  ASSUME NEW streams \in Seq(Stream), NEW rest \in Seq(Stream), rest # <<>>, NEW n \in Nat,
         n + Len(rest) = Len(streams),
         \A i \in 1 .. Len(rest) : rest[i] = streams[n + i]
  PROVE  /\ Len(streams) - Len(Tail(rest)) = n + 1
         /\ n + 1 + Len(Tail(rest)) = Len(streams)
         /\ Head(rest) = streams[n + 1]
         /\ \A i \in 1 .. Len(Tail(rest)) : Tail(rest)[i] = streams[n + 1 + i]
<1>1. /\ Tail(rest) \in Seq(Stream) /\ Len(Tail(rest)) = Len(rest) - 1
      /\ \A i \in 1 .. Len(Tail(rest)) : Tail(rest)[i] = rest[i + 1]
  BY HeadTailProperties
<1>2. Len(rest) \in Nat /\ Len(streams) \in Nat /\ Len(rest) >= 1
  BY EmptySeq, LenProperties
<1>3. Head(rest) = rest[1] /\ rest[1] = streams[n + 1]
  BY <1>2
<1>4. ASSUME NEW i \in 1 .. Len(Tail(rest))
      PROVE  Tail(rest)[i] = streams[n + 1 + i]
  <2>1. Tail(rest)[i] = rest[i + 1] /\ i + 1 \in 1 .. Len(rest)
    BY <1>1, <1>2
  <2>2. n + (i + 1) = n + 1 + i
    OBVIOUS
  <2>3. QED
    BY <2>1, <2>2
<1>5. /\ Len(streams) - Len(Tail(rest)) = n + 1
      /\ n + 1 + Len(Tail(rest)) = Len(streams)
  <2> DEFINE a == Len(rest)
             b == Len(streams)
             c == Len(Tail(rest))
  <2>1. a \in Nat /\ b \in Nat /\ c \in Nat /\ c = a - 1 /\ n + a = b
    BY <1>1, <1>2, LenProperties
  <2> HIDE DEF a, b, c
  <2>2. b - c = n + 1 /\ n + 1 + c = b
    BY <2>1
  <2>3. QED
    BY <2>2 DEF a, b, c
<1>6. QED
  BY <1>3, <1>4, <1>5

(* ... the server answers a request of the handshake, *)
LEMMA OwnByServer ==
  ASSUME TypeOK, OneThingAtATime, WhatIsUnderWayFits, OwnHandshakeFits, NEW k \in Play,
         Serve(k), Owned, k = task
  PROVE  OwnHandshakeFits'
<1>0. PICK r : r = Head(toServer[k])
  OBVIOUS
<1>1. /\ r \in Request /\ Pending(k) = {r} /\ Pending(k)' = {}
      /\ Replies(k)' = {Refusal(r)} \/ Replies(k)' = {Acceptance(r)}
      /\ worker'[k] = "idle"
  BY <1>0, ServedUnderWay
<1>2. /\ UNCHANGED <<media, cSeq, session, sdp, streamsSetup, task>>
      /\ answered' = answered \/ answered' = [answered EXCEPT ![k] = @ \cup {Granted(r)}]
  BY <1>0, ServeStep DEF fields, caller
<1>a. /\ Replies(k)' = {Refusal(r)}
         \/ /\ Replies(k)' = {Acceptance(r)}
            /\ answered' = [answered EXCEPT ![k] = @ \cup {Granted(r)}]
  <2>1. toClient[k] = <<>>
    BY ServeStep DEF OneThingAtATime, OneThing
  <2>2. toClient' = [toClient EXCEPT ![k] = Append(@, Refusal(r))]
          => toClient'[k] = Append(<<>>, Refusal(r))
    BY <2>1 DEF TypeOK
  <2>3. toClient' = [toClient EXCEPT ![k] = Append(@, Refusal(r))]
          => Replies(k)' = {Refusal(r)}
    BY <2>2, FirstMessage DEF Replies, received
  <2>4. QED
    BY <1>0, <1>1, <2>3, ServeStep
<1>3. /\ OwnRequest(k, r)
      /\ r.method = "PLAY" => r.session # NULL
  BY <1>1 DEF OwnHandshakeFits, WhatIsUnderWayFits, UnderWayFits
<1>4. answered[k] \subseteq answered'[k]
  BY <1>2 DEF TypeOK
<1>5. OwnRequest(k, r)'
  BY <1>2, <1>3, <1>4, OwnRequestStays
<1>6. CASE Replies(k)' = {Refusal(r)}
  <2>1. OwnResponse(k, Refusal(r))'
    BY <1>5 DEF OwnRequest, OwnResponse, Refusal
  <2>2. task' = k
    BY <1>2
  <2>3. QED
    BY <1>1, <1>6, <2>1, <2>2 DEF OwnHandshakeFits
<1>7. CASE /\ Replies(k)' = {Acceptance(r)}
           /\ answered' = [answered EXCEPT ![k] = @ \cup {Granted(r)}]
  <2>0. PICK s, a : s = SessionOf(r) /\ a = Acceptance(r)
    OBVIOUS
  <2>1. Granted(r) \in answered'[k]
    BY <1>7 DEF TypeOK
  <2>2. /\ Granted(r).method = r.method /\ Granted(r).media = r.media
        /\ Granted(r).stream = r.stream /\ Granted(r).session = s
    BY <1>1, <2>0 DEF Granted, Request
  <2>3. AnsweredOK(k, r.method, r.stream, s)'
    BY <1>5, <2>1, <2>2 DEF AnsweredOK, OwnRequest
  <2>4. /\ a.status = "OK" /\ a.to = r.method /\ a.cSeq = r.cSeq /\ a.session = s
        /\ r.method = "DESCRIBE" => a.sdp = r.media
    BY <2>0 DEF Acceptance
  <2>5. r.session \in {NULL, s} /\ (r.method = "PLAY" => r.session = s)
    BY <1>3, <2>0 DEF SessionOf
  <2>6. OwnResponse(k, a)'
    BY <1>5, <2>3, <2>4, <2>5 DEF OwnRequest, OwnResponse
  <2>7. task' = k
    BY <1>2
  <2>8. QED
    BY <1>1, <1>7, <2>0, <2>6, <2>7 DEF OwnHandshakeFits
<1>8. QED
  BY <1>a, <1>6, <1>7

(* ... a worker sends the next one, *)
LEMMA OwnBySending ==
  ASSUME TypeOK, OneThingAtATime, OwnHandshakeFits, NEW k \in Play,
         Send(k) \/ SendReconnects(k), Owned, k = task
  PROVE  OwnHandshakeFits'
<1>1. /\ Pending(k)' = {Built(k)} /\ Replies(k)' = {}
      /\ worker'[k] # "send" /\ worker[k] = "send"
      /\ UNCHANGED <<media, cSeq, session, sdp, streamsSetup, server>>
  BY SentUnderWay
<1>2. task' = task
  BY DEF Send, SendReconnects, caller
<1>3. OwnNext(k) /\ next[k] # NULL
  BY <1>1 DEF OwnHandshakeFits, OneThingAtATime, OneThing
<1>4. OwnRequest(k, Built(k))
  BY <1>3 DEF OwnNext, OwnRequest, Built
<1>5. PICK q : q = Built(k)
  OBVIOUS
<1>6. OwnRequest(k, q)'
  BY <1>1, <1>4, <1>5, OwnRequestStays DEF server
<1>7. QED
  BY <1>1, <1>2, <1>5, <1>6 DEF OwnHandshakeFits

(* The steps that answer a response with a request. *)
LEMMA OwnAfterDescribe ==
  ASSUME TypeOK, OneThingAtATime, WhatIsUnderWayFits, OwnHandshakeFits, MediaIsTarget,
         NEW k \in Play, DescribeResponse(k), Owned, k = task, clientStack = k
  PROVE  OwnNext(k)'
<1>1. OnResponse(k) /\ Replies(k) = {received(k)}
  BY HandledUnderWay DEF OnResponse
<1>2. received(k).sdp = media
  <2>1. received(k).to = "DESCRIBE" /\ received(k).status = "OK"
    BY <1>1 DEF WhatIsUnderWayFits, UnderWayFits, DescribeResponse, Fits
  <2>2. QED
    BY <1>1, <2>1 DEF OwnHandshakeFits, OwnResponse
<1>3. media \in Media
  BY DEF MediaIsTarget, TypeOK, Play
<1> DEFINE streams == StreamsOf[media]
<1>4. streams \in Seq(Stream) /\ streams # <<>>
  BY <1>3
<1>5. /\ sdp' = media /\ media' = media /\ session' = session
      /\ streamsSetup' = Tail(streams) /\ next'[k] = Head(streams)
  BY <1>2 DEF DescribeResponse, TypeOK
<1>6. /\ Len(streams) - Len(Tail(streams)) = 0 + 1
      /\ 0 + 1 + Len(Tail(streams)) = Len(streams)
      /\ Head(streams) = streams[0 + 1]
      /\ \A i \in 1 .. Len(Tail(streams)) : Tail(streams)[i] = streams[0 + 1 + i]
  <2>1. Len(streams) \in Nat
    BY <1>4, LenProperties
  <2>2. 0 + Len(streams) = Len(streams)
        /\ \A i \in 1 .. Len(streams) : streams[i] = streams[0 + i]
    BY <2>1
  <2> HIDE DEF streams
  <2>3. QED
    BY <1>4, <2>2, NextStream
<1>7. Head(streams) \in Stream /\ Head(streams) # "PLAY"
  BY <1>4, HeadTailProperties
<1> HIDE DEF streams
<1>8. streams' = streams
  BY <1>5 DEF streams
<1>9. Reached' = 1 /\ Current' = Head(streams)
  <2>1. Reached' = 0 + 1
    BY <1>5, <1>6, <1>8 DEF Reached, streams
  <2>2. Current' = streams[Reached']
    BY <1>8 DEF Current, streams
  <2>3. QED
    BY <1>6, <2>1, <2>2
<1>10. SetUp(Reached)'
  <2>1. (SetUp(Reached)' <=>
          /\ sdp' = media' /\ Reached' > 0
          /\ Reached' + Len(streamsSetup') = Len(streams')
          /\ \A i \in 1 .. Len(streamsSetup') : streamsSetup'[i] = streams'[Reached' + i]
          /\ Reached' > 1 => session' # NULL)
    BY DEF SetUp, streams
  <2>2. \A i \in 1 .. Len(Tail(streams)) : Tail(streams)[i] = streams[1 + i]
        /\ 1 + Len(Tail(streams)) = Len(streams)
    BY <1>6
  <2>3. QED
    BY <1>5, <1>6, <1>8, <1>9, <2>1, <2>2
<1>11. DoneInSession(k, Reached - 1)'
  <2>1. Reached' - 1 = 0
    BY <1>9
  <2>2. QED
    BY <2>1 DEF DoneInSession
<1>12. QED
  BY <1>5, <1>7, <1>9, <1>10, <1>11 DEF OwnNext

(* ... and a SETUP leads to the next SETUP or to PLAY. *)
LEMMA OwnAfterSetup ==
  ASSUME TypeOK, OneThingAtATime, WhatIsUnderWayFits, OwnHandshakeFits, MediaIsTarget,
         NEW k \in Play, SetupResponse(k), Owned, k = task, clientStack = k
  PROVE  OwnNext(k)'
<1>1. OnResponse(k) /\ Replies(k) = {received(k)}
  BY HandledUnderWay DEF OnResponse
<1>0. PICK r, n : r = received(k) /\ n = Reached
  OBVIOUS
<1> DEFINE streams == StreamsOf[media]
<1>2. /\ r.session # NULL /\ SetUp(Reached) /\ session \in {NULL, r.session}
      /\ DoneInSession(k, Reached - 1) /\ AnsweredOK(k, "SETUP", Current, r.session)
  <2>1. r.to = "SETUP" /\ r.status = "OK" /\ r.session # NULL
    BY <1>0, <1>1 DEF WhatIsUnderWayFits, UnderWayFits, SetupResponse, Fits
  <2>2. QED
    BY <1>0, <1>1, <2>1 DEF OwnHandshakeFits, OwnResponse
<1>3. media \in Media
  BY DEF MediaIsTarget, TypeOK, Play
<1>4. streams \in Seq(Stream) /\ streamsSetup \in Seq(Stream)
  BY <1>3 DEF TypeOK
<1>5. Len(streams) \in Nat /\ Len(streamsSetup) \in Nat
  BY <1>4, LenProperties
<1>6. /\ n = Len(streams) - Len(streamsSetup) /\ n \in Nat /\ n > 0
      /\ n + Len(streamsSetup) = Len(streams) /\ sdp = media
      /\ \A i \in 1 .. Len(streamsSetup) : streamsSetup[i] = streams[n + i]
      /\ n > 1 => session # NULL
      /\ Current = streams[n]
  <2>1. n = Len(streams) - Len(streamsSetup) /\ Current = streams[n]
    BY <1>0 DEF Reached, Current
  <2>2. n \in Int /\ n > 0
    BY <1>0, <1>2, <1>5, <2>1 DEF SetUp
  <2>3. n \in Nat
    BY <2>2
  <2>4. QED
    BY <1>0, <1>2, <2>1, <2>2, <2>3 DEF SetUp
<1>7. /\ session' = r.session /\ UNCHANGED <<media, sdp, answered>>
      /\ IF streamsSetup = <<>>
            THEN next'[k] = "PLAY" /\ streamsSetup' = streamsSetup
            ELSE next'[k] = Head(streamsSetup) /\ streamsSetup' = Tail(streamsSetup)
  BY <1>0 DEF SetupResponse, Adopt, server, TypeOK
<1>a. \A i \in 1 .. n : AnsweredOK(k, "SETUP", streams[i], r.session)
  <2>1. ASSUME NEW i \in 1 .. n, i # n
        PROVE  AnsweredOK(k, "SETUP", streams[i], r.session)
    <3>1. i \in 1 .. n - 1 /\ n > 1
      BY <1>6, <2>1
    <3>2. session = r.session
      BY <1>2, <1>6, <3>1
    <3>3. QED
      BY <1>0, <1>2, <3>1, <3>2 DEF DoneInSession
  <2>2. QED
    BY <1>2, <1>6, <2>1
<1> HIDE DEF streams
<1>b. streams' = streams
  BY <1>7 DEF streams
<1>8. DoneInSession(k, n)'
  BY <1>7, <1>a, <1>b DEF DoneInSession, AnsweredOK, streams
<1>9. CASE streamsSetup = <<>>
  <2>1. next'[k] = "PLAY" /\ UNCHANGED <<media, sdp, streamsSetup>>
    BY <1>7, <1>9
  <2>2. Reached' = n
    BY <1>0, <2>1 DEF Reached
  <2>3. SetUp(Reached)'
    BY <1>0, <1>2, <1>7, <2>1, <2>2 DEF SetUp
  <2>4. DoneInSession(k, Reached)'
    BY <1>8, <2>2
  <2>5. QED
    BY <1>9, <2>1, <2>3, <2>4 DEF OwnNext
<1>10. CASE streamsSetup # <<>>
  <2>1. next'[k] = Head(streamsSetup) /\ streamsSetup' = Tail(streamsSetup)
    BY <1>7, <1>10
  <2>2. /\ Len(streams) - Len(Tail(streamsSetup)) = n + 1
        /\ n + 1 + Len(Tail(streamsSetup)) = Len(streams)
        /\ Head(streamsSetup) = streams[n + 1]
        /\ \A i \in 1 .. Len(Tail(streamsSetup)) :
              Tail(streamsSetup)[i] = streams[n + 1 + i]
    BY <1>4, <1>6, <1>10, NextStream
  <2>3. Head(streamsSetup) # "PLAY"
    BY <1>4, <1>10, HeadTailProperties
  <2>4. Reached' = n + 1 /\ Current' = Head(streamsSetup)
    <3>1. Reached' = Len(streams) - Len(Tail(streamsSetup))
      BY <1>b, <2>1 DEF Reached, streams
    <3>2. Current' = streams[Reached']
      BY <1>b DEF Current, streams
    <3>3. QED
      BY <2>2, <3>1, <3>2
  <2>5. SetUp(Reached)'
    <3>1. (SetUp(Reached)' <=>
            /\ sdp' = media' /\ Reached' > 0
            /\ Reached' + Len(streamsSetup') = Len(streams')
            /\ \A i \in 1 .. Len(streamsSetup') : streamsSetup'[i] = streams'[Reached' + i]
            /\ Reached' > 1 => session' # NULL)
      BY DEF SetUp, streams
    <3>2. n + 1 > 0 /\ sdp' = media' /\ session' # NULL
      BY <1>2, <1>6, <1>7
    <3>3. QED
      BY <1>b, <2>1, <2>2, <2>4, <3>1, <3>2
  <2>6. DoneInSession(k, Reached - 1)'
    <3>1. Reached' - 1 = n
      BY <1>6, <2>4
    <3>2. QED
      BY <1>8, <3>1
  <2>7. QED
    BY <2>1, <2>3, <2>4, <2>5, <2>6 DEF OwnNext
<1>11. QED
  BY <1>9, <1>10

(* The handshake fits: connections, server and workers. *)
LEMMA OwnByOthers ==
  ASSUME TypeOK, OneStackWorks, OneThingAtATime, MediaIsTarget, WhatIsUnderWayFits,
         OwnHandshakeFits, NEW k \in Play,
         Dial(k) \/ Serve(k) \/ Cut(k) \/ Reset(k) \/ WorkerStep(k)
  PROVE  OwnHandshakeFits'
<1> SUFFICES ASSUME Owned'
             PROVE  OwnHandshakeFits'
  BY DEF OwnHandshakeFits
<1>0. Owned /\ UNCHANGED <<task, clientStack>>
  BY OthersFrame DEF Owned, caller
<1>1. CASE Dial(k) \/ Cut(k) \/ Reset(k) \/ SendFails(k) \/ WriteAgain(k)
             \/ WriteAgainFails(k)
  <2>1. PICK j \in Play : j = task
    BY <1>0, OwnedIsPlay
  <2>2. /\ Pending(j)' \subseteq Pending(j) /\ Replies(j)' \subseteq Replies(j)
        /\ worker'[j] \in {worker[j], "idle"} /\ (worker'[j] = "send" => next'[j] = next[j])
        /\ UNCHANGED <<media, cSeq, session, sdp, streamsSetup, answered>>
    BY <1>1, NothingNewByOthers
  <2>3. QED
    BY <1>0, <2>1, <2>2, StillOwn
<1>2. CASE Serve(k) \/ Send(k) \/ SendReconnects(k)
  <2>1. k = task
    BY <1>2, BusyStack DEF WorkerStep
  <2>2. QED
    BY <1>0, <1>2, <2>1, OwnByServer, OwnBySending
<1>3. CASE OnResponse(k)
  <2>1. k = task /\ k = clientStack
    BY <1>3, BusyStack DEF WorkerStep
  <2>2. Pending(k)' = {} /\ Replies(k)' = {}
    BY <1>3, HandledUnderWay
  <2>3. worker'[k] = "send" => DescribeResponse(k) \/ SetupResponse(k)
    <3>1. worker[k] = "idle"
      BY <1>3, ResponseStep DEF Arrived
    <3>2. QED
      BY <1>3, <3>1 DEF OnResponse, OnError, OnUnexpected, SetupOtherSession, WrongCSeq,
         DescribeWithoutSdp, PlayResponse, threads
  <2>4. worker'[k] = "send" => OwnNext(k)'
    BY <1>0, <2>1, <2>3, OwnAfterDescribe, OwnAfterSetup
  <2>5. task' = k
    BY <1>0, <2>1
  <2>6. QED
    BY <2>2, <2>4, <2>5 DEF OwnHandshakeFits
<1>4. QED
  BY <1>1, <1>2, <1>3 DEF WorkerStep
-----------------------------------------------------------------------------
(***************************************************************************)
(* What a player is told.                                                  *)
(***************************************************************************)

(* Everything play p needs for its media was answered OK in session s. *)
LEMMA GrantsStay ==
  ASSUME TypeOK, TypeOK', OneStackWorks, OneThingAtATime, MaxStrays = 0, [Next]_vars
  PROVE  /\ \A k \in Play : answered[k] \subseteq answered'[k]
         /\ issued <= issued' /\ issued \in Nat /\ issued' \in Nat
         /\ \A p \in Play : p <= play => target'[p] = target[p]
<1>0. issued \in Nat /\ issued' \in Nat /\ play \in Nat
  BY DEF TypeOK
<1>1. ASSUME NEW k \in Play, Serve(k)
      PROVE  /\ \A j \in Play : answered[j] \subseteq answered'[j]
             /\ issued <= issued' /\ UNCHANGED target
  <2>1. PICK r : r = Head(toServer[k])
    OBVIOUS
  <2>2. /\ answered' = answered \/ answered' = [answered EXCEPT ![k] = @ \cup {Granted(r)}]
        /\ issued' \in {issued, issued + 1} /\ UNCHANGED target
    BY <1>1, <2>1, ServeStep DEF players
  <2>3. \A j \in Play : answered[j] \subseteq answered'[j]
    <3>1. answered \in [Play -> SUBSET Request]
      BY DEF TypeOK
    <3>2. PICK g : g = Granted(r)
      OBVIOUS
    <3>3. CASE answered' = [answered EXCEPT ![k] = @ \cup {g}]
      <4>1. ASSUME NEW j \in Play
            PROVE  answered'[j] = IF j = k THEN answered[j] \cup {g} ELSE answered[j]
        BY <3>1, <3>3
      <4>2. QED
        BY <4>1
    <3>4. QED
      BY <2>2, <3>2, <3>3
  <2>4. issued <= issued'
    BY <1>0, <2>2
  <2>5. QED
    BY <2>2, <2>3, <2>4
<1>2. ASSUME NEW k \in Play, Dial(k) \/ Cut(k) \/ Reset(k) \/ WorkerStep(k)
      PROVE  UNCHANGED <<answered, issued, target>>
  <2>1. UNCHANGED target
    BY <1>2, OthersFrame DEF players
  <2>2. CASE Dial(k) \/ Cut(k) \/ Reset(k) \/ SendFails(k) \/ WriteAgain(k)
             \/ WriteAgainFails(k)
    BY <2>1, <2>2 DEF Dial, Connected, Refused, Cut, Reset, SendFails, WriteAgain,
       WriteAgainFails, server
  <2>3. CASE OnResponse(k) \/ Send(k) \/ SendReconnects(k)
    BY <2>1, <2>3, ResponseStep DEF Send, SendReconnects, server
  <2>4. QED
    BY <1>2, <2>2, <2>3 DEF WorkerStep
<1>3. ASSUME NEW m \in Media, Open(m)
      PROVE  UNCHANGED <<answered, issued>> /\ \A p \in Play : p <= play => target'[p] = target[p]
  <2>1. target' = [target EXCEPT ![play + 1] = m] /\ UNCHANGED <<answered, issued>>
    BY <1>3 DEF Open, server
  <2>2. \A p \in Play : p <= play => p # play + 1
    BY <1>0 DEF Play
  <2>3. QED
    BY <2>1, <2>2 DEF TypeOK
<1>4. CASE Cancel \/ PlayMedia \/ UNCHANGED vars
  <2>1. UNCHANGED <<answered, issued, target>>
    BY <1>4 DEF Cancel, vars, PlayMedia, BeginTask, ResetCSeq, ResetSession,
       SetMedia, BadUri, StopNothing, StopOld, BeginRelease, InterruptWorker, Release,
       CreateStack, SendDescribe, WriteDescribe, WriteDescribeFails, InterruptCaller,
       players, server
  <2>2. QED
    BY <1>0, <2>1
<1>5. ASSUME NEW k \in Play, Stray(k)
      PROVE  FALSE
  BY <1>5 DEF Stray, TypeOK
<1>6. QED
  BY <1>0, <1>1, <1>2, <1>3, <1>4, <1>5 DEF Next

(* The server has answered all that play p needs for media m in session s. *)
Granting(p, m, s) ==
  LET ok(method, st) == \E a \in answered[p] : /\ a.method = method /\ a.media = m
                                              /\ a.stream = st /\ a.session = s
  IN  /\ \A i \in 1 .. Len(StreamsOf[m]) : ok("SETUP", StreamsOf[m][i])
      /\ ok("PLAY", NULL)

(* SuccessIsComplete, said with what the server has granted, *)
LEMMA Completeness ==
  SuccessIsComplete <=>
    \A p \in Play :
      outcome[p] # NULL /\ outcome[p].ok /\ outcome[p].by = p =>
        outcome[p].sdp = target[p] /\ \E s \in 1 .. issued : Granting(p, target[p], s)
BY DEF SuccessIsComplete, Granting

(* and the same after a step. *)
LEMMA CompletenessNext ==
  (\A p \in Play :
      outcome'[p] # NULL /\ outcome'[p].ok /\ outcome'[p].by = p =>
        outcome'[p].sdp = target'[p]
          /\ \E s \in 1 .. issued' : Granting(p, target[p], s)')
    => SuccessIsComplete'
BY DEF SuccessIsComplete, Granting

(* A play that is told of the success of its own handshake is the last one, *)
(* and its playMedia() has returned.                                        *)
LEMMA TellerIsOwner ==
  ASSUME TypeOK, OneStackWorks, OneThingAtATime, ToldWhenOpen, NEW k \in Play,
         PlayResponse(k), observer = k
  PROVE  Owned /\ k = task /\ k = clientStack
<1>a. k = clientStack
  BY BusyStack DEF WorkerStep, OnResponse
<1>b. k = play
  BY DEF ToldWhenOpen, Play
<1>1. k = clientStack /\ k = play /\ toClient[k] # <<>>
  BY <1>a, <1>b DEF PlayResponse, Fits, Arrived
<1>2. clientStack <= task /\ task \in Nat /\ clientStack \in Nat /\ task <= play
  BY DEF OneStackWorks, TypeOK
<1>3. k = task
  BY <1>1, <1>2
<1>4. pc = "idle"
  <2>1. ~(clientStack < task)
    BY <1>1, <1>2, <1>3
  <2>2. pc \notin {"reset", "session", "media", "start", "stop", "release", "create"}
    BY <2>1 DEF OneStackWorks
  <2>3. pc # "describe"
    BY <1>1, <1>3 DEF OneStackWorks, Quiet
  <2>4. pc # "await"
    BY <1>1, <1>3 DEF OneThingAtATime, OneThing, Asking
  <2>5. QED
    BY <2>2, <2>3, <2>4 DEF TypeOK
<1>5. QED
  BY <1>1, <1>3, <1>4 DEF Owned, Play

(* ... and then everything has been granted. *)
LEMMA OwnerIsGranted ==
  ASSUME TypeOK, OneStackWorks, OneThingAtATime, WhatIsUnderWayFits, OwnHandshakeFits,
         MediaIsTarget, ToldWhenOpen, NEW k \in Play, PlayResponse(k), observer = k
  PROVE  /\ sdp = target[k]
         /\ \E s \in 1 .. issued : Granting(k, target[k], s)
<1>1. Owned /\ k = task /\ k = clientStack
  BY TellerIsOwner
<1>2. OnResponse(k) /\ Replies(k) = {received(k)}
  BY HandledUnderWay DEF OnResponse
<1>3. /\ received(k).to = "PLAY" /\ received(k).status = "OK"
      /\ received(k).session # NULL /\ received(k).session \in 1 .. issued
  BY <1>2 DEF WhatIsUnderWayFits, UnderWayFits, PlayResponse, Fits
<1>4. /\ SetUp(Reached) /\ session = received(k).session /\ streamsSetup = <<>>
      /\ DoneInSession(k, Reached) /\ AnsweredOK(k, "PLAY", NULL, session)
  BY <1>1, <1>2, <1>3 DEF OwnHandshakeFits, OwnResponse
<1>5. media = target[k] /\ media \in Media
  BY <1>1 DEF MediaIsTarget, TypeOK, Play
<1>6. Reached = Len(StreamsOf[media])
  <2>1. Len(StreamsOf[media]) \in Nat
    BY <1>5, LenProperties
  <2>2. QED
    BY <1>4, <2>1 DEF Reached
<1>7. Granting(k, media, session)
  BY <1>4, <1>6 DEF Granting, DoneInSession, AnsweredOK
<1>8. QED
  BY <1>3, <1>4, <1>5, <1>7 DEF SetUp

(* A success stays complete, and a new one is. *)
LEMMA SuccessStep ==
  ASSUME IInv, TypeOK', MaxStrays = 0, [Next]_vars
  PROVE  SuccessIsComplete'
<1> USE DEF IInv
<1>1. /\ \A k \in Play : answered[k] \subseteq answered'[k]
      /\ issued <= issued' /\ issued \in Nat /\ issued' \in Nat
      /\ \A p \in Play : p <= play => target'[p] = target[p]
  BY GrantsStay
<1>2. ASSUME NEW p \in Play, NEW m, NEW s, Granting(p, m, s)
      PROVE  Granting(p, m, s)'
  BY <1>1, <1>2 DEF Granting
<1>3. ASSUME NEW p \in Play, p <= play, outcome'[p].sdp = target[p],
             \E s \in 1 .. issued : Granting(p, target[p], s)
      PROVE  /\ outcome'[p].sdp = target'[p]
             /\ \E s \in 1 .. issued' : Granting(p, target[p], s)'
  <2>1. PICK s \in 1 .. issued : Granting(p, target[p], s)
    BY <1>3
  <2>2. PICK m : m = target[p]
    OBVIOUS
  <2>3. Granting(p, m, s)' /\ s \in 1 .. issued'
    BY <1>1, <1>2, <2>1, <2>2
  <2>4. target'[p] = m
    BY <1>1, <1>3, <2>2
  <2>5. Granting(p, target[p], s)'
    BY <2>3, <2>4
  <2>6. QED
    BY <1>3, <2>2, <2>3, <2>4, <2>5
<1>4. SUFFICES ASSUME NEW p \in Play, outcome'[p] # NULL, outcome'[p].ok, outcome'[p].by = p
               PROVE  /\ p <= play /\ outcome'[p].sdp = target[p]
                      /\ \E s \in 1 .. issued : Granting(p, target[p], s)
  BY <1>3, CompletenessNext
<1>5. CASE outcome'[p] = outcome[p]
  BY <1>4, <1>5, Completeness DEF ToldWhenOpen
<1>6. ASSUME NEW k \in Play, NEW ok \in BOOLEAN, Notify(k, ok), outcome'[p] # outcome[p]
      PROVE  observer = p /\ outcome'[p] = [ok |-> ok, sdp |-> sdp, by |-> k]
  BY <1>6 DEF Notify, TypeOK
<1>7. ASSUME NEW k \in Play, Notify(k, FALSE), outcome'[p] # outcome[p]
      PROVE  FALSE
  <2>1. FALSE \in BOOLEAN
    OBVIOUS
  <2>2. outcome'[p] = [ok |-> FALSE, sdp |-> sdp, by |-> k]
    BY <1>6, <1>7, <2>1
  <2>3. QED
    BY <1>4, <2>2
<1>8. ASSUME NEW k \in Play, PlayResponse(k), SessionFits(k), outcome'[p] # outcome[p]
      PROVE  /\ p <= play /\ outcome'[p].sdp = target[p]
             /\ \E s \in 1 .. issued : Granting(p, target[p], s)
  <2>1. Notify(k, TRUE) /\ TRUE \in BOOLEAN
    BY <1>8 DEF PlayResponse
  <2>2. observer = p /\ outcome'[p] = [ok |-> TRUE, sdp |-> sdp, by |-> k]
    BY <1>6, <1>8, <2>1
  <2>3. k = p /\ outcome'[p].sdp = sdp
    BY <1>4, <2>2
  <2>4. p <= play
    BY SMTT(40), <2>2 DEF ToldWhenOpen, Play, TypeOK
  <2>5. sdp = target[p] /\ \E s \in 1 .. issued : Granting(p, target[p], s)
    BY <1>8, <2>2, <2>3, OwnerIsGranted
  <2>6. QED
    BY <2>3, <2>4, <2>5
<1>9. (\E m \in Media : Open(m)) \/ UNCHANGED <<players, told>> => outcome'[p] = outcome[p]
  BY DEF Open, told
<1>10. QED
  BY <1>5, <1>7, <1>8, <1>9, WhoIsTold
-----------------------------------------------------------------------------
(***************************************************************************)
(* The theorems.                                                           *)
(***************************************************************************)
LEMMA InitInv == Init => IInv
<1> SUFFICES ASSUME Init
             PROVE  IInv
  OBVIOUS
<1>1. TypeOK
  BY InitType
<1>2. OneStackWorks
  BY DEF Init, OneStackWorks, Quiet
<1>3. OneThingAtATime
  BY EmptySeq DEF Init, OneThingAtATime, OneThing, Asking
<1>4. WhatIsUnderWayFits
  BY DEF Init, WhatIsUnderWayFits, UnderWayFits, Pending, Replies, Asking
<1>5. OwnHandshakeFits /\ MediaIsTarget
  BY DEF Init, OwnHandshakeFits, MediaIsTarget, Owned
<1>6. ToldWhenOpen /\ SuccessIsComplete
  BY DEF Init, ToldWhenOpen, SuccessIsComplete, Play
<1>7. QED
  BY <1>1, <1>2, <1>3, <1>4, <1>5, <1>6 DEF IInv

(* every step keeps it, *)
LEMMA NextInv ==
  ASSUME MaxStrays = 0, IInv, [Next]_vars
  PROVE  IInv'
<1> USE DEF IInv
<1>1. TypeOK'
  BY NextType
<1>2. ASSUME NEW k \in Play, Stray(k)
      PROVE  FALSE
  BY <1>2 DEF Stray, TypeOK
<1>3. \/ (\E m \in Media : Open(m)) \/ Cancel \/ PlayMedia \/ UNCHANGED vars
      \/ \E k \in Play : Dial(k) \/ Serve(k) \/ Cut(k) \/ Reset(k) \/ WorkerStep(k)
  BY <1>2 DEF Next
<1>4. OneStackWorks'
  BY <1>3, StackByTask, StackByOthers
<1>5. OneThingAtATime'
  BY <1>3, OneThingByTask, OneThingByOthers DEF OneThingAtATime
<1>6. WhatIsUnderWayFits'
  BY <1>1, <1>3, <1>4, UnderWayByTask, UnderWayByOthers
<1>7. OwnHandshakeFits'
  BY <1>3, OwnByTask, OwnByOthers
<1>8. MediaIsTarget' /\ ToldWhenOpen'
  BY MediaStep, ToldStep
<1>9. SuccessIsComplete'
  BY <1>1, SuccessStep
<1>10. QED
  BY <1>1, <1>4, <1>5, <1>6, <1>7, <1>8, <1>9

(* so that it always holds, *)
LEMMA Invariance == ASSUME MaxStrays = 0 PROVE Spec => []IInv
<1>1. Init => IInv
  BY InitInv
<1>2. IInv /\ [Next]_vars => IInv'
  BY NextInv
<1>3. QED
  BY <1>1, <1>2, PTL DEF Spec

(* and it implies that the handshake stays in step *)
LEMMA InvHandshakeFits == IInv => HandshakeFits
<1> SUFFICES ASSUME IInv
             PROVE  HandshakeFits
  OBVIOUS
<1> USE DEF IInv
<1>1. ASSUME NEW k \in Play
      PROVE  Len(toServer[k]) + Len(toClient[k])
               + (IF unsent[k] = NULL THEN 0 ELSE 1)
               + (IF worker[k] = "send" THEN 1 ELSE 0) <= 1
  <2>1. OneThing(k)
    BY DEF OneThingAtATime
  <2>2. /\ Len(toServer[k]) \in Nat /\ Len(toClient[k]) \in Nat
        /\ toServer[k] = <<>> => Len(toServer[k]) = 0
        /\ toClient[k] = <<>> => Len(toClient[k]) = 0
    <3>1. toServer[k] \in Seq(Request) /\ toClient[k] \in Seq(Response)
      BY DEF TypeOK
    <3>2. QED
      BY <3>1, LenProperties, EmptySeq
  <2>3. CASE toServer[k] # <<>> \/ toClient[k] # <<>>
    <3>1. unsent[k] = NULL /\ worker[k] = "idle" /\ (toServer[k] = <<>> \/ toClient[k] = <<>>)
      BY <2>1, <2>3 DEF OneThing
    <3>2. PICK a \in Nat, b \in Nat : a = Len(toServer[k]) /\ b = Len(toClient[k])
      BY <2>2
    <3>3. a <= 1 /\ b <= 1 /\ (a = 0 \/ b = 0)
      BY <2>1, <2>2, <3>1, <3>2 DEF OneThing
    <3>4. a + b + 0 + 0 <= 1
      BY <3>3
    <3>5. QED
      BY <3>1, <3>2, <3>4
  <2>4. CASE toServer[k] = <<>> /\ toClient[k] = <<>>
    <3>1. unsent[k] = NULL \/ worker[k] # "send"
      BY <2>1 DEF OneThing
    <3>2. QED
      BY <2>2, <2>4, <3>1
  <2>5. QED
    BY <2>3, <2>4
<1>2. ResponsesFitCommand
  <2>1. ASSUME NEW k \in Play, toClient[k] # <<>>
        PROVE  cmd_sent = Head(toClient[k]).to
    <3>1. Head(toClient[k]) \in Replies(k)
      BY <2>1 DEF Replies, received
    <3>2. QED
      BY <3>1 DEF WhatIsUnderWayFits, UnderWayFits
  <2>2. QED
    BY <2>1 DEF ResponsesFitCommand
<1>3. QED
  BY <1>1, <1>2 DEF HandshakeFits, OneRequestAtATime

(* and that the responses of the handshake are the expected ones. *)
LEMMA InvOwnResponsesFit == IInv => OwnResponsesFit
<1> SUFFICES ASSUME IInv, pc = "idle", clientStack = task, task # 0,
                    NEW i \in 1 .. Len(toClient[task]), NEW r, r = toClient[task][i]
             PROVE  /\ r.cSeq = cSeq
                    /\ r.status = "OK" /\ r.to # "DESCRIBE" => session \in {NULL, r.session}
  BY DEF OwnResponsesFit
<1> USE DEF IInv
<1>1. Owned /\ task \in Play
  BY OwnedIsPlay DEF Owned
<1>2. toClient[task] \in Seq(Response) /\ Len(toClient[task]) <= 1
  BY <1>1 DEF TypeOK, OneThingAtATime, OneThing
<1>3. i = 1 /\ toClient[task] # <<>>
  <2>1. Len(toClient[task]) \in Nat
    BY <1>2, LenProperties
  <2>2. i = 1
    BY <1>2, <2>1
  <2>3. toClient[task] # <<>>
    BY EmptySeq
  <2>4. QED
    BY <2>2, <2>3
<1>4. r \in Replies(task)
  BY <1>3 DEF Replies, received
<1>5. OwnResponse(task, r) /\ r.to \in {"DESCRIBE", "SETUP", "PLAY"}
  <2>1. r \in Response
    BY <1>2, <1>3, HeadTailProperties
  <2>2. r.to # NULL
    BY <1>1, <1>4 DEF WhatIsUnderWayFits, UnderWayFits
  <2>3. OwnResponse(task, r)
    BY <1>1, <1>4 DEF OwnHandshakeFits
  <2>4. QED
    BY <2>1, <2>2, <2>3 DEF Response
<1>6. QED
  BY <1>5 DEF OwnResponse

(* With a server that only answers, the handshakes of any number of plays     *)
(* stay in step: one request at a time on a connection, and its response      *)
(* handled as what it answers (RtspClientListener.java:46-62).                *)
THEOREM HandshakesFit == ASSUME MaxStrays = 0 PROVE Spec => []HandshakeFits
<1>1. IInv => HandshakeFits
  BY InvHandshakeFits
<1>2. Spec => []IInv
  BY Invariance
<1>3. QED
  BY <1>1, <1>2, PTL

(* ... once playMedia() has returned, the responses of its handshake carry the *)
(* CSeq and the session that the checks expect (ClientRTSP.java:329-376).      *)
THEOREM ResponsesFit == ASSUME MaxStrays = 0 PROVE Spec => []OwnResponsesFit
<1>1. IInv => OwnResponsesFit
  BY InvOwnResponsesFit
<1>2. Spec => []IInv
  BY Invariance
<1>3. QED
  BY <1>1, <1>2, PTL

(* ... and a play that is told of the success of its own handshake has its   *)
(* media: described, every stream set up in one session, and PLAY accepted   *)
(* (ClientRTSP.java:226-316).                                                *)
THEOREM SuccessesAreComplete == ASSUME MaxStrays = 0 PROVE Spec => []SuccessIsComplete
<1>1. IInv => SuccessIsComplete
  BY DEF IInv
<1>2. Spec => []IInv
  BY Invariance
<1>3. QED
  BY <1>1, <1>2, PTL
=============================================================================
