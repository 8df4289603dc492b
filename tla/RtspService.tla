---------------------------- MODULE RtspService ----------------------------
(***************************************************************************)
(* The life of the RTSP service: ServerRTSP.start(), stop() and            *)
(* destroyInstance(), as the StopServer servlet calls them, and the server *)
(* stacks they create.                                                     *)
(*                                                                         *)
(* No monitor protects the field serverStack, which is read once by stop() *)
(* and written and then read again by start().  A stack serves the port    *)
(* from its bind(); the field channel of the stack is assigned when bind() *)
(* has returned.  Stopping a stack closes its channel and then waits for   *)
(* the threads of its bootstrap, which end when the connections they       *)
(* accepted are closed.  A second start() of a stack replaces its          *)
(* bootstrap, and the threads of the first one are not awaited any more.   *)
(***************************************************************************)
EXTENDS Naturals, FiniteSets

CONSTANTS
  Thread,     \* threads of the servlet container
  Peer,       \* RTSP clients
  MaxStacks   \* bound: stacks created

ASSUME ServiceAssumption ==
  /\ MaxStacks \in Nat \ {0}
  /\ IsFiniteSet(Thread)

Stack == 1 .. MaxStacks

VARIABLES
  serverStack,  \* ServerRTSP.serverStack
  created,      \* number of stacks created
  channel,      \* field channel of each stack
  replaced,     \* stacks with another bootstrap than their channel
  port,         \* the stack bound to the port, 0 for none
  connection,   \* the stack each client is connected to, 0 for none
  pc,           \* next step of the StopServer request of each thread
  mine,         \* the stack it works on
  overlapped    \* history: have two requests ever overlapped?

serviceVars == <<serverStack, created, channel, replaced, port, connection, pc,
                 mine, overlapped>>

ServiceTypeOK ==
  /\ serverStack \in Stack
  /\ created \in Stack
  /\ channel \in [Stack -> {"null", "open", "closed"}]
  /\ replaced \in SUBSET Stack
  /\ port \in 0 .. MaxStacks
  /\ connection \in [Peer -> 0 .. MaxStacks]
  /\ pc \in [Thread -> {"idle", "stop", "close", "release", "new", "start", "bind",
                        "assign"}]
  /\ mine \in [Thread -> Stack]
  /\ overlapped \in BOOLEAN

(* The constructor of INSTANCE has started the first stack. *)
ServiceInit ==
  /\ serverStack = 1
  /\ created = 1
  /\ channel = [k \in Stack |-> IF k = 1 THEN "open" ELSE "null"]
  /\ replaced = {}
  /\ port = 1
  /\ connection = [c \in Peer |-> 0]
  /\ pc = [t \in Thread |-> "idle"]
  /\ mine = [t \in Thread |-> 1]
  /\ overlapped = FALSE

Goto(t, from, to) ==
  /\ pc[t] = from
  /\ pc' = [pc EXCEPT ![t] = to]

Connected(k) == {c \in Peer : connection[c] = k}

-----------------------------------------------------------------------------
(***************************************************************************)
(* The clients.                                                            *)
(***************************************************************************)
Connect(c) ==
  /\ connection[c] = 0
  /\ port # 0
  /\ connection' = [connection EXCEPT ![c] = port]
  /\ UNCHANGED <<serverStack, created, channel, replaced, port, pc, mine,
                 overlapped>>

Disconnect(c) ==
  /\ connection[c] # 0
  /\ connection' = [connection EXCEPT ![c] = 0]
  /\ UNCHANGED <<serverStack, created, channel, replaced, port, pc, mine,
                 overlapped>>

-----------------------------------------------------------------------------
(***************************************************************************)
(* StopServer.doPost(): destroyInstance(), then start().                   *)
(***************************************************************************)

Quiet == \A t \in Thread : pc[t] = "idle"

(* The request begins, with deleteAllMedia(). *)
StopServer(t) ==
  /\ Goto(t, "idle", "stop")
  /\ created + Cardinality({u \in Thread : pc[u] # "idle"}) < MaxStacks
  /\ overlapped' = (overlapped \/ ~Quiet)
  /\ UNCHANGED <<serverStack, created, channel, replaced, port, connection, mine>>

(* stop() reads the field ... *)
ReadStack(t) ==
  /\ Goto(t, "stop", "close")
  /\ mine' = [mine EXCEPT ![t] = serverStack]
  /\ UNCHANGED <<serverStack, created, channel, replaced, port, connection,
                 overlapped>>

(* ... of a stack without a channel: the exception is only logged ... *)
StopFails(t) ==
  /\ Goto(t, "close", "new")
  /\ channel[mine[t]] = "null"
  /\ UNCHANGED <<serverStack, created, channel, replaced, port, connection, mine,
                 overlapped>>

(* ... or closes its channel and awaits the end of it. *)
Close(t) ==
  /\ Goto(t, "close", "release")
  /\ channel[mine[t]] # "null"
  /\ channel' = [channel EXCEPT ![mine[t]] = "closed"]
  /\ port' = IF channel[mine[t]] = "open" THEN 0 ELSE port
  /\ UNCHANGED <<serverStack, created, replaced, connection, mine, overlapped>>

(* Mutant of Release: the connections are not awaited. *)
ReleaseAtOnce(t) ==
  /\ Goto(t, "release", "new")
  /\ UNCHANGED <<serverStack, created, channel, replaced, port, connection, mine,
                 overlapped>>

(* Mutant of Release: the request ends without starting the service again. *)
ReleaseForGood(t) ==
  /\ Goto(t, "release", "idle")
  /\ port # mine[t] /\ Connected(mine[t]) = {}
  /\ UNCHANGED <<serverStack, created, channel, replaced, port, connection, mine,
                 overlapped>>

(* releaseExternalResources() returns when the threads of the bootstrap have *)
(* ended; those of a replaced bootstrap are not waited for.                  *)
Release(t) ==
  /\ Goto(t, "release", "new")
  /\ \/ mine[t] \in replaced
     \/ port # mine[t] /\ Connected(mine[t]) = {}
  /\ UNCHANGED <<serverStack, created, channel, replaced, port, connection, mine,
                 overlapped>>

(* start(): a new stack is created and assigned to the field. *)
NewStack(t) ==
  /\ Goto(t, "new", "start")
  /\ created' = created + 1
  /\ serverStack' = created + 1
  /\ UNCHANGED <<channel, replaced, port, connection, mine,
                 overlapped>>

(* serverStack.start() reads the field again. *)
StartStack(t) ==
  /\ Goto(t, "start", "bind")
  /\ mine' = [mine EXCEPT ![t] = serverStack]
  /\ UNCHANGED <<serverStack, created, channel, replaced, port, connection,
                 overlapped>>

Bind(t) ==
  /\ Goto(t, "bind", "assign")
  /\ port = 0
  /\ port' = mine[t]
  /\ replaced' = replaced \ {mine[t]}
  /\ UNCHANGED <<serverStack, created, channel, connection, mine, overlapped>>

(* Mutant of BindFails: the request waits for the port. *)
BindWaits(t) ==
  /\ pc[t] = "bind"
  /\ port # 0
  /\ UNCHANGED serviceVars

(* The port is in use; the exception of bind() is swallowed. *)
BindFails(t) ==
  /\ Goto(t, "bind", "idle")
  /\ port # 0
  /\ replaced' = IF port = mine[t] THEN replaced \cup {mine[t]} ELSE replaced
  /\ UNCHANGED <<serverStack, created, channel, port, connection, mine,
                 overlapped>>

(* bind() has returned: channel = ... *)
AssignChannel(t) ==
  /\ Goto(t, "assign", "idle")
  /\ channel' = [channel EXCEPT ![mine[t]] = "open"]
  /\ UNCHANGED <<serverStack, created, replaced, port, connection, mine,
                 overlapped>>

RequestStep(t) ==
  \/ ReadStack(t)
  \/ StopFails(t)
  \/ Close(t)
  \/ Release(t)
  \/ NewStack(t)
  \/ StartStack(t)
  \/ Bind(t)
  \/ BindFails(t)
  \/ AssignChannel(t)

ServiceNext ==
  \/ \E c \in Peer : Connect(c) \/ Disconnect(c)
  \/ \E t \in Thread : StopServer(t) \/ RequestStep(t)

ServiceSpec == ServiceInit /\ [][ServiceNext]_serviceVars

(* The threads of the container run; clients may stay connected for ever. *)
FairServiceSpec == ServiceSpec /\ \A t \in Thread : WF_serviceVars(RequestStep(t))

-----------------------------------------------------------------------------
(***************************************************************************)
(* Properties.                                                             *)
(***************************************************************************)

(* However requests overlap, the service is never lost: when none runs, a    *)
(* stack is bound to the port (ServerRTSP.java:159-201, StopServer.java:31). *)
ServesWhenQuiet == Quiet => port # 0

(* As long as no two requests overlap, stop() leaves the port free and no    *)
(* client connected, and between two requests the field holds the stack that *)
(* serves, with its channel (ServerRTSP.java:174-201).                       *)
KeepsTrack ==
  ~overlapped =>
    /\ \A t \in Thread :
         pc[t] = "new" => port = 0 /\ \A c \in Peer : connection[c] = 0
    /\ Quiet => port = serverStack /\ channel[serverStack] = "open"

(* A request ends unless it waits for clients to disconnect or for a stack   *)
(* that is bound anew (RtspServerStackImpl.java:69-77).                      *)
WaitsForOthers(t) ==
  pc[t] = "release" /\ (port = mine[t] \/ Connected(mine[t]) # {})

RequestsEnd ==
  \A t \in Thread :
    pc[t] # "idle" ~>
      \/ pc[t] = "idle"
      \/ WaitsForOthers(t)
=============================================================================
