---------------------------- MODULE MediaServer ----------------------------
(***************************************************************************)
(* The media registry of the multicast server (ServerRTSP.INSTANCE) and    *)
(* the threads that work on it:                                            *)
(*                                                                         *)
(*   - one AddMedia servlet thread per media, inside addMedia();           *)
(*   - one "stream" thread per media, started by Media.Streaming(), which  *)
(*     builds the GStreamer pipeline, starts the "player" thread, sleeps   *)
(*     for the duration of a file and then deletes its own title;          *)
(*   - the player thread, which plays until its Gst.main() is interrupted; *)
(*   - the servlets DeleteMedia and StopServer, which delete by title or   *)
(*     delete everything.                                                  *)
(*                                                                         *)
(* deleteMedia() and deleteAllMedia() hold the monitor of INSTANCE, so one *)
(* deletion runs at a time and one iterator suffices.  addMedia() and the  *)
(* readers hold no monitor, so both updates of the list are split at their *)
(* accesses to its fields.  ArrayList.add() counts the modification and    *)
(* reads size, writes size, and writes the slot.  Iterator.remove() checks *)
(* modCount, counts the modification and reads size, copies the slots      *)
(* above one by one, reads size again, writes it, clears the slot it has   *)
(* left, and takes over modCount as it then is.                            *)
(***************************************************************************)
EXTENDS Naturals

CONSTANTS
  Media,      \* the Media objects the AddMedia servlet builds
  Title,      \* titles (names in rtsp://host:port/title)
  TitleOf,    \* the title each media is given
  Live,       \* webcam and screen media: no duration, no expiry
  Capacity,   \* bound: slots of the ArrayList's backing array
  All,        \* the "title" deleteAllMedia() works for
  Admin,      \* the servlet thread that is inside a deletion
  NULL

ASSUME MediaAssumption ==
  /\ TitleOf \in [Media -> Title]
  /\ Live \subseteq Media
  /\ Capacity \in Nat \ {0}
  /\ All \notin Title
  /\ Admin \notin Media
  /\ NULL \notin Media \cup {Admin} \cup Title \cup {All}

VARIABLES
  elementData,  \* backing array of ServerRTSP.medias
  size,         \* its size field
  modCount,     \* its modification count
  adding,       \* progress of addMedia(m)
  index,        \* the size that add() of m has read
  stream,       \* the thread Streaming() starts for m
  player,       \* the thread that runs Gst.main() for m
  pipe,         \* state of the pipeline that streams m
  interrupted,  \* media whose player thread has been interrupted
  lock,         \* holder of the monitor of ServerRTSP.INSTANCE
  key,          \* title being deleted, or All
  phase,        \* next statement of the deletion
  cursor,       \* cursor of its iterator
  expected,     \* expectedModCount of its iterator
  cur,          \* the media i.next() returned
  hole,         \* the slot remove() copies into or clears next, 0 if none
  last,         \* the slot it copies to, then the size it writes
  goal,         \* history: media the running deletion has to remove
  stopped,      \* history: media on which StopStreaming() was called
  overlapped    \* history: did two updates of the list overlap?

list      == <<elementData, size, modCount>>
adds      == <<adding, index>>
threads   == <<stream, player, pipe, interrupted>>
iterator  == <<key, phase, cursor, expected, cur, hole, last, goal>>
vars == <<list, adds, threads, lock, iterator, stopped, overlapped>>

Slot == 1 .. Capacity

(* The media getMedias() holds, ignoring holes. *)
Listed == {elementData[i] : i \in 1 .. size} \ {NULL}

(* m.getTitle().equals(title), or every media for deleteAllMedia(). *)
Matches(m, k) == k \in {TitleOf[m], All}

(* add() of m has read size and not yet written its slot. *)
InAdd(m) == adding[m] \in {"reserved", "grown"}

(* remove() has counted its modification and not yet cleared its slot. *)
InRemove == phase \in {"move", "shrink", "clear"}

(* add() of m has returned. *)
Stored(m) == adding[m] \in {"stored", "added"}

(* ref_thread is assigned after the player thread is started. *)
Registered(m) == stream[m] \notin {"none", "launching", "wired", "started"}

TypeOK ==
  /\ elementData \in [Slot -> Media \cup {NULL}]
  /\ size \in 0 .. Capacity
  /\ modCount \in Nat
  /\ adding \in [Media -> {"new", "reserved", "grown", "stored", "added"}]
  /\ index \in [Media -> 0 .. Capacity]
  /\ stream \in [Media -> {"none", "launching", "wired", "started", "sleeping",
                           "expired", "deleting", "ended", "failed", "returned"}]
  /\ player \in [Media -> {"none", "starting", "main", "ended"}]
  /\ pipe \in [Media -> {"none", "null", "playing"}]
  /\ interrupted \in SUBSET Media
  /\ lock \in Media \cup {Admin, NULL}
  /\ key \in Title \cup {All, NULL}
  /\ phase \in {"idle", "next", "stop", "interrupt", "remove", "move",
                "shrink", "clear", "resume"}
  /\ cursor \in 0 .. Capacity
  /\ expected \in Nat
  /\ cur \in Media \cup {NULL}
  /\ hole \in 0 .. Capacity
  /\ last \in 0 .. Capacity
  /\ goal \in SUBSET Media
  /\ stopped \in SUBSET Media
  /\ overlapped \in BOOLEAN

Init ==
  /\ elementData = [i \in Slot |-> NULL]
  /\ size = 0
  /\ modCount = 0
  /\ adding = [m \in Media |-> "new"]
  /\ index = [m \in Media |-> 0]
  /\ stream = [m \in Media |-> "none"]
  /\ player = [m \in Media |-> "none"]
  /\ pipe = [m \in Media |-> "none"]
  /\ interrupted = {}
  /\ lock = NULL
  /\ key = NULL
  /\ phase = "idle"
  /\ cursor = 0
  /\ expected = 0
  /\ cur = NULL
  /\ hole = 0
  /\ last = 0
  /\ goal = {}
  /\ stopped = {}
  /\ overlapped = FALSE

-----------------------------------------------------------------------------
(***************************************************************************)
(* addMedia(m): medias.add(m); m.Streaming()                               *)
(***************************************************************************)

(* ArrayList.add() counts the modification and reads size. *)
AddReserve(m) ==
  /\ adding[m] = "new"
  /\ adding' = [adding EXCEPT ![m] = "reserved"]
  /\ index' = [index EXCEPT ![m] = size]
  /\ modCount' = modCount + 1
  /\ overlapped' = (overlapped \/ InRemove \/ \E n \in Media : InAdd(n))
  /\ UNCHANGED <<elementData, size, threads, lock, iterator, stopped>>

(* size = index + 1 *)
AddGrow(m) ==
  /\ adding[m] = "reserved"
  /\ index[m] < Capacity
  /\ adding' = [adding EXCEPT ![m] = "grown"]
  /\ size' = index[m] + 1
  /\ UNCHANGED <<elementData, modCount, index, threads, lock, iterator,
                 stopped, overlapped>>

(* Mutant of AddStore: the media is written over the last one. *)
AddStoreOverLast(m) ==
  /\ adding[m] = "grown"
  /\ adding' = [adding EXCEPT ![m] = "stored"]
  /\ elementData' = [elementData EXCEPT ![IF index[m] = 0 THEN 1 ELSE index[m]] = m]
  /\ UNCHANGED <<size, modCount, index, threads, lock, iterator, stopped,
                 overlapped>>

(* elementData[index] = m *)
AddStore(m) ==
  /\ adding[m] = "grown"
  /\ adding' = [adding EXCEPT ![m] = "stored"]
  /\ elementData' = [elementData EXCEPT ![index[m] + 1] = m]
  /\ UNCHANGED <<size, modCount, index, threads, lock, iterator, stopped,
                 overlapped>>

(* Streaming() starts the stream thread, and addMedia() returns. *)
AddStream(m) ==
  /\ adding[m] = "stored"
  /\ adding' = [adding EXCEPT ![m] = "added"]
  /\ stream' = [stream EXCEPT ![m] = "launching"]
  /\ UNCHANGED <<list, index, player, pipe, interrupted, lock, iterator,
                 stopped, overlapped>>

-----------------------------------------------------------------------------
(***************************************************************************)
(* The stream thread: Pipeline.launch, start the player, publish it in     *)
(* ref_thread and, for a file, sleep and delete the own title.             *)
(***************************************************************************)

(* pipe = Pipeline.launch(...); ref_pipeline = pipe *)
Launch(m) ==
  /\ stream[m] = "launching"
  /\ stream' = [stream EXCEPT ![m] = "wired"]
  /\ pipe' = [pipe EXCEPT ![m] = "null"]
  /\ UNCHANGED <<list, adds, player, interrupted, lock, iterator, stopped,
                 overlapped>>

(* t.start() *)
StartPlayer(m) ==
  /\ stream[m] = "wired"
  /\ stream' = [stream EXCEPT ![m] = "started"]
  /\ player' = [player EXCEPT ![m] = "starting"]
  /\ UNCHANGED <<list, adds, pipe, interrupted, lock, iterator, stopped,
                 overlapped>>

(* ref_thread = t; the thread of a live media then returns. *)
Register(m) ==
  /\ stream[m] = "started"
  /\ stream' = [stream EXCEPT ![m] = IF m \in Live THEN "returned"
                                                   ELSE "sleeping"]
  /\ UNCHANGED <<list, adds, player, pipe, interrupted, lock, iterator,
                 stopped, overlapped>>

(* Thread.sleep(duration) returns and sendTeardown() is called. *)
Expire(m) ==
  /\ stream[m] = "sleeping"
  /\ stream' = [stream EXCEPT ![m] = "expired"]
  /\ UNCHANGED <<list, adds, player, pipe, interrupted, lock, iterator,
                 stopped, overlapped>>

(***************************************************************************)
(* The player thread: PLAYING, Gst.main() until interrupted, NULL.         *)
(***************************************************************************)
Play(m) ==
  /\ player[m] = "starting"
  /\ player' = [player EXCEPT ![m] = "main"]
  /\ pipe' = [pipe EXCEPT ![m] = "playing"]
  /\ UNCHANGED <<list, adds, stream, interrupted, lock, iterator, stopped,
                 overlapped>>

(* Mutant of MainReturns: the pipeline is not set to NULL. *)
MainReturnsPlaying(m) ==
  /\ player[m] = "main"
  /\ m \in interrupted
  /\ player' = [player EXCEPT ![m] = "ended"]
  /\ UNCHANGED <<list, adds, stream, pipe, interrupted, lock, iterator, stopped,
                 overlapped>>

MainReturns(m) ==
  /\ player[m] = "main"
  /\ m \in interrupted
  /\ player' = [player EXCEPT ![m] = "ended"]
  /\ pipe' = [pipe EXCEPT ![m] = "null"]
  /\ UNCHANGED <<list, adds, stream, interrupted, lock, iterator, stopped,
                 overlapped>>

-----------------------------------------------------------------------------
(***************************************************************************)
(* deleteMedia(title) and deleteAllMedia(), statement by statement, by the *)
(* holder of the monitor.                                                  *)
(***************************************************************************)

(* Enter the synchronized method: i = medias.iterator() *)
BeginDelete(p, k) ==
  /\ lock = NULL
  /\ lock' = p
  /\ key' = k
  /\ phase' = "next"
  /\ cursor' = 0
  /\ expected' = modCount
  /\ cur' = NULL
  /\ goal' = {m \in Listed : Matches(m, k)}
  /\ UNCHANGED <<list, adds, player, pipe, interrupted, hole, last, stopped,
                 overlapped>>

(* DeleteMedia with a title, or StopServer's deleteAllMedia() *)
ServletDelete ==
  /\ \E k \in Title \cup {All} : BeginDelete(Admin, k)
  /\ UNCHANGED stream

(* The stream thread of an expired media enters deleteMedia(getTitle()). *)
ExpiredDelete(m) ==
  /\ stream[m] = "expired"
  /\ BeginDelete(m, TitleOf[m])
  /\ stream' = [stream EXCEPT ![m] = "deleting"]

(* Leave the monitor; a stream thread ends with the outcome given. *)
Leave(outcome) ==
  /\ lock' = NULL
  /\ key' = NULL
  /\ phase' = "idle"
  /\ cursor' = 0
  /\ expected' = 0
  /\ cur' = NULL
  /\ goal' = {}
  /\ stream' = [m \in Media |-> IF m = lock THEN outcome ELSE stream[m]]
  /\ UNCHANGED <<list, adds, player, pipe, interrupted, hole, last, stopped,
                 overlapped>>

(* Mutant of FinishDelete: the last element is not looked at. *)
FinishDeleteEarly ==
  /\ phase = "next"
  /\ cursor + 1 >= size
  /\ Leave("ended")

(* i.hasNext() is false. *)
FinishDelete ==
  /\ phase = "next"
  /\ cursor = size
  /\ Leave("ended")

(* i.next() finds a concurrent modification or no element, or getTitle() is *)
(* called on null: an exception leaves the method.  DeleteMedia swallows    *)
(* it; a stream thread dies of it.                                          *)
NextThrows ==
  /\ phase = "next"
  /\ cursor # size
  /\ \/ expected # modCount
     \/ cursor > size
     \/ cursor < size /\ elementData[cursor + 1] = NULL
  /\ Leave("failed")

(* Mutant of NextMedia: a matching media is removed without being stopped. *)
NextMediaUnstopped ==
  /\ phase = "next"
  /\ cursor < size
  /\ expected = modCount
  /\ elementData[cursor + 1] # NULL
  /\ cursor' = cursor + 1
  /\ IF Matches(elementData[cursor + 1], key)
       THEN phase' = "remove" /\ cur' = elementData[cursor + 1]
       ELSE UNCHANGED <<phase, cur>>
  /\ UNCHANGED <<list, adds, threads, lock, key, expected, hole, last, goal,
                 stopped, overlapped>>

(* Mutant of NextMedia: the title is not compared. *)
NextMediaOfAnyTitle ==
  /\ phase = "next"
  /\ cursor < size
  /\ expected = modCount
  /\ elementData[cursor + 1] # NULL
  /\ cursor' = cursor + 1
  /\ phase' = "stop"
  /\ cur' = elementData[cursor + 1]
  /\ UNCHANGED <<list, adds, threads, lock, key, expected, hole, last, goal,
                 stopped, overlapped>>

(* Mutant of NextMedia: the iterator does not move past another title. *)
NextMediaStuck ==
  /\ phase = "next"
  /\ cursor < size
  /\ expected = modCount
  /\ elementData[cursor + 1] # NULL
  /\ IF Matches(elementData[cursor + 1], key)
       THEN /\ phase' = "stop"
            /\ cursor' = cursor + 1
            /\ cur' = elementData[cursor + 1]
       ELSE UNCHANGED <<phase, cursor, cur>>
  /\ UNCHANGED <<list, adds, threads, lock, key, expected, hole, last, goal,
                 stopped, overlapped>>

(* i.next() returns a media. *)
NextMedia ==
  /\ phase = "next"
  /\ cursor < size
  /\ expected = modCount
  /\ elementData[cursor + 1] # NULL
  /\ cursor' = cursor + 1
  /\ IF Matches(elementData[cursor + 1], key)
       THEN phase' = "stop" /\ cur' = elementData[cursor + 1]
       ELSE UNCHANGED <<phase, cur>>
  /\ UNCHANGED <<list, adds, threads, lock, key, expected, hole, last, goal,
                 stopped, overlapped>>

(* StopStreaming(): sendTeardown(); ref_pipeline.setState(NULL).  Before    *)
(* Launch, ref_pipeline is null for a live media (the exception is          *)
(* swallowed) and the pipeline that measured the duration for a file.       *)
StopPipeline ==
  /\ phase = "stop"
  /\ stopped' = stopped \cup {cur}
  /\ pipe' = [pipe EXCEPT ![cur] = IF @ = "none" THEN @ ELSE "null"]
  /\ phase' = IF pipe[cur] = "none" /\ cur \in Live THEN "remove"
                                                    ELSE "interrupt"
  /\ UNCHANGED <<list, adds, stream, player, interrupted, lock, key, cursor,
                 expected, cur, hole, last, goal, overlapped>>

(* StopStreaming(): ref_thread.interrupt(), unless ref_thread is still null. *)
InterruptPlayer ==
  /\ phase = "interrupt"
  /\ phase' = "remove"
  /\ interrupted' = IF Registered(cur) THEN interrupted \cup {cur}
                                       ELSE interrupted
  /\ UNCHANGED <<list, adds, stream, player, pipe, lock, key, cursor, expected,
                 cur, hole, last, goal, stopped, overlapped>>

(* i.remove() throws: the list was modified, or it shrank below the index. *)
RemoveThrows ==
  /\ phase = "remove"
  /\ expected # modCount \/ cursor > size
  /\ Leave("failed")

(* i.remove(): the list is as the iterator knows it; the modification is   *)
(* counted, and size says how many slots are to move.                      *)
RemoveCount ==
  /\ phase = "remove"
  /\ expected = modCount
  /\ cursor <= size
  /\ modCount' = modCount + 1
  /\ hole' = cursor
  /\ last' = size
  /\ phase' = "move"
  /\ overlapped' = (overlapped \/ \E n \in Media : InAdd(n))
  /\ UNCHANGED <<elementData, size, adds, threads, lock, key, cursor, expected,
                 cur, goal, stopped>>

(* System.arraycopy() moves the next slot down. *)
RemoveMove ==
  /\ phase = "move"
  /\ hole < last
  /\ elementData' = [elementData EXCEPT ![hole] = elementData[hole + 1]]
  /\ hole' = hole + 1
  /\ UNCHANGED <<size, modCount, adds, threads, lock, key, phase, cursor,
                 expected, cur, last, goal, stopped, overlapped>>

(* Mutant of RemoveRead: size-- in place of --size. *)
RemoveReadUnshrunk ==
  /\ phase = "move"
  /\ hole = last
  /\ last' = size
  /\ phase' = "shrink"
  /\ UNCHANGED <<list, adds, threads, lock, key, cursor, expected, cur, hole,
                 goal, stopped, overlapped>>

(* elementData[--size] = null reads size ... *)
RemoveRead ==
  /\ phase = "move"
  /\ hole = last
  /\ last' = size - 1
  /\ phase' = "shrink"
  /\ UNCHANGED <<list, adds, threads, lock, key, cursor, expected, cur, hole,
                 goal, stopped, overlapped>>

(* ... writes it ... *)
RemoveShrink ==
  /\ phase = "shrink"
  /\ size' = last
  /\ phase' = "clear"
  /\ UNCHANGED <<elementData, modCount, adds, threads, lock, key, cursor,
                 expected, cur, hole, last, goal, stopped, overlapped>>

(* ... and clears the slot. *)
RemoveClear ==
  /\ phase = "clear"
  /\ elementData' = [elementData EXCEPT ![last + 1] = NULL]
  /\ hole' = 0
  /\ last' = 0
  /\ phase' = "resume"
  /\ UNCHANGED <<size, modCount, adds, threads, lock, key, cursor, expected,
                 cur, goal, stopped, overlapped>>

(* Mutant of RemoveResume: the cursor is not moved back. *)
RemoveResumeSkipping ==
  /\ phase = "resume"
  /\ expected' = modCount
  /\ cur' = NULL
  /\ phase' = "next"
  /\ UNCHANGED <<list, adds, threads, lock, key, cursor, hole, last, goal,
                 stopped, overlapped>>

(* The iterator steps back and takes over modCount, which an add() may have *)
(* changed in the meantime.                                                 *)
RemoveResume ==
  /\ phase = "resume"
  /\ cursor' = cursor - 1
  /\ expected' = modCount
  /\ cur' = NULL
  /\ phase' = "next"
  /\ UNCHANGED <<list, adds, threads, lock, key, hole, last, goal, stopped,
                 overlapped>>

RemoveStep ==
  \/ RemoveThrows
  \/ RemoveCount
  \/ RemoveMove
  \/ RemoveRead
  \/ RemoveShrink
  \/ RemoveClear
  \/ RemoveResume

DeleteStep ==
  \/ FinishDelete
  \/ NextThrows
  \/ NextMedia
  \/ StopPipeline
  \/ InterruptPlayer
  \/ RemoveStep

-----------------------------------------------------------------------------
AddStep(m)    == AddReserve(m) \/ AddGrow(m) \/ AddStore(m) \/ AddStream(m)
StreamStep(m) == Launch(m) \/ StartPlayer(m) \/ Register(m) \/ Expire(m)
PlayerStep(m) == Play(m) \/ MainReturns(m)

Next ==
  \/ \E m \in Media : AddStep(m) \/ StreamStep(m) \/ PlayerStep(m)
                        \/ ExpiredDelete(m)
  \/ ServletDelete
  \/ DeleteStep

Spec == Init /\ [][Next]_vars

(***************************************************************************)
(* Threads that have been started run on; nobody has to add or to delete,  *)
(* so AddReserve and ServletDelete are not fair.  Java monitors promise no *)
(* fairness among waiting threads: ExpiredDelete is only weakly fair.      *)
(***************************************************************************)
Fairness ==
  /\ \A m \in Media :
       /\ WF_vars(AddGrow(m) \/ AddStore(m) \/ AddStream(m))
       /\ WF_vars(StreamStep(m))
       /\ WF_vars(PlayerStep(m))
       /\ WF_vars(ExpiredDelete(m))
  /\ WF_vars(DeleteStep)

FairSpec == Spec /\ Fairness

-----------------------------------------------------------------------------
(***************************************************************************)
(* Properties.                                                             *)
(***************************************************************************)

(* Until two updates of the list overlap, a media is in the list once; it is *)
(* there twice only while remove() moves it down, in the slot it leaves and  *)
(* the one below, where an unsynchronised reader may meet it both times      *)
(* (ServerRTSP.java:208 and 227).                                            *)
ListedOnce ==
  ~overlapped =>
    \A i, j \in 1 .. size :
      i < j /\ elementData[i] = elementData[j] /\ elementData[i] # NULL =>
        j = hole /\ i + 1 = hole

(* When a deletion runs to its end, every media that was listed under its  *)
(* title when it began is gone: no add() or remove() behind the iterator's *)
(* back makes deleteMedia() pass over one (ServerRTSP.java:222-229).       *)
DeleteComplete ==
  phase = "next" /\ cursor = size => goal \cap Listed = {}

(* As long as no two updates of the list have overlapped, a media that is no *)
(* longer listed was stopped first: nothing drops out of the list with its   *)
(* stream left on (ServerRTSP.java:226-227 and 244-246).                     *)
UnlistedWasStopped ==
  ~overlapped =>
    \A m \in Media : Stored(m) /\ m \notin Listed => m \in stopped

(* As long as no two updates of the list have overlapped, a stream thread    *)
(* that ran to its end leaves its own media unlisted, and for good           *)
(* (Media.java:334-336).                                                     *)
EndedIsUnlisted ==
  ~overlapped => \A m \in Media : stream[m] = "ended" => m \notin Listed

(* Media leave the list in the right order, stopped first, and those that    *)
(* have ended do leave it (ServerRTSP.java:225-248, Media.java:334-336).     *)
UnlistedFits == UnlistedWasStopped /\ EndedIsUnlisted

(* As long as no two updates of the list have overlapped, a step removes at  *)
(* most one media: the iterator's current one, of the title to delete,       *)
(* already stopped, and nobody's but the deletion's (ServerRTSP.java:225).   *)
RemovesOnlyItsTitle ==
  [][ ~overlapped' =>
        \A m \in Listed \ Listed' :
          m = cur /\ Matches(m, key) /\ m \in stopped ]_vars

(* A player thread that StopStreaming() interrupted stops sending for good, *)
(* even when it was interrupted before it began (Media.java:313-318, 709).  *)
InterruptedFallsSilent ==
  \A m \in Media : m \in interrupted ~> [](pipe[m] # "playing")

(* The monitor of the registry is never held for ever: every deletion ends, *)
(* by its last element or by an exception (ServerRTSP.java:217-231).        *)
MonitorIsReleased == lock # NULL ~> lock = NULL

(* A deletion does its work and comes to its end: it takes what it is to     *)
(* delete, the monitor is given back, and the players it has interrupted     *)
(* fall silent for good (ServerRTSP.java:217-231, Media.java:706-719).       *)
DeletionsWork ==
  RemovesOnlyItsTitle /\ InterruptedFallsSilent /\ MonitorIsReleased

(* The list and its deletions are what OnAir specifies: published media stay *)
(* on air until stopped and withdrawn, until two updates overlap             *)
(* (ServerRTSP.java:207-248).                                                *)
Registry == INSTANCE OnAir
  WITH onAir     <- Listed,
       published <- {m \in Media : Stored(m)},
       disrupted <- overlapped

ImplementsOnAir == Registry!Spec

(***************************************************************************)
(* The inductive invariant behind these properties.                        *)
(***************************************************************************)
(* Program counters of the threads, the monitor and the deletion agree. *)
ThreadsAgree ==
  /\ \A m \in Media : stream[m] # "none" => adding[m] = "added"
  /\ \A m \in Media : lock = m <=> stream[m] = "deleting"
  /\ \A m \in Media : lock = m => key = TitleOf[m]
  /\ lock = NULL <=> phase = "idle"
  /\ phase # "idle" => key # NULL
  /\ phase \notin {"idle", "next"} =>
       cursor > 0 /\ cur # NULL /\ Matches(cur, key)
  /\ phase \notin {"idle", "next", "stop"} => cur \in stopped

(* remove() works on the slots from the iterator's up, and there is one. *)
RemovalIsWithin ==
  /\ hole # 0 <=> InRemove
  /\ InRemove => cursor <= hole
  /\ phase = "move" => hole <= last /\ size > 0
  /\ phase \in {"shrink", "clear"} => last < Capacity

(* A slot holds only what has been stored. *)
SlotsAreStored ==
  \A i \in Slot : elementData[i] # NULL => Stored(elementData[i])

(* The part of the list the iterator has passed holds no media to delete. *)
PassedIsClean ==
  /\ \A m \in goal : Stored(m) /\ Matches(m, key)
  /\ \A i \in 1 .. cursor :
       phase = "next" \/ i < cursor => elementData[i] \notin goal

(* Without overlap: a media occupies one slot at most, but for the one that *)
(* remove() has just moved down.                                            *)
SlotsAreDistinct ==
  \A i, j \in Slot :
    i < j /\ elementData[i] = elementData[j] /\ elementData[i] # NULL =>
      j = hole /\ i + 1 = hole /\ cursor < hole

(* Without overlap: one add() at a time, no hole but the one it is about to *)
(* fill, nothing beyond size but what remove() is about to clear, and the   *)
(* iterator's slot holds its media.                                         *)
ListIsTight ==
  /\ \A m, n \in Media : InAdd(m) /\ InAdd(n) => m = n
  /\ \A m \in Media : adding[m] = "reserved" => index[m] = size
  /\ \A m \in Media : adding[m] = "grown" =>
       index[m] + 1 = size /\ elementData[size] = NULL
  /\ \A i \in 1 .. size : elementData[i] = NULL =>
       i = size /\ \E m \in Media : adding[m] = "grown"
  /\ \A i \in Slot : i > size => elementData[i] = NULL \/ i = hole
  /\ phase \in {"stop", "interrupt", "remove"} =>
       cursor <= size /\ elementData[cursor] = cur

(* Without overlap: no add() while remove() works on the list, its copying  *)
(* ends at the last slot, and the slot it copies into next holds the media  *)
(* it removes or the one it has just moved down.                            *)
RemovalIsTight ==
  InRemove =>
    /\ \A m \in Media : ~InAdd(m)
    /\ phase = "move" => last = size
    /\ phase = "shrink" => last + 1 = size /\ hole = size
    /\ phase = "clear" => last = size /\ hole = size + 1
    /\ elementData[hole] = IF hole = cursor THEN cur ELSE elementData[hole - 1]

(* Without overlap: the stream thread inside deleteMedia() either has its *)
(* media among those to remove or has already lost it.                    *)
OwnMediaIsGoal ==
  \A m \in Media : stream[m] = "deleting" => m \in goal \/ m \notin Listed

IInv ==
  /\ TypeOK
  /\ ThreadsAgree
  /\ RemovalIsWithin
  /\ SlotsAreStored
  /\ PassedIsClean
  /\ ~overlapped => SlotsAreDistinct /\ ListIsTight /\ RemovalIsTight /\ OwnMediaIsGoal
  /\ UnlistedWasStopped
  /\ EndedIsUnlisted
=============================================================================
