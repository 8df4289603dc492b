---------------------------- MODULE MediaReaders ----------------------------
(***************************************************************************)
(* A thread that reads the media registry while others change it.  No      *)
(* reader enters the monitor of ServerRTSP.INSTANCE:                       *)
(*                                                                         *)
(*   lookup   getMedia(title), for the RTSP handlers;                      *)
(*   xml      getXMLmedias(), for the GetMedias servlet and the apps;      *)
(*   page     the loop over getMedias() in Admin.jsp and Client.jsp.       *)
(*                                                                         *)
(* lookup and xml use a fail-fast iterator, page uses size() and get(i).   *)
(* The test of the loop, the checks of the access and the access to the    *)
(* slot are separate steps: no lock is held between them.  Readers change  *)
(* nothing, so one of them is enough.                                      *)
(***************************************************************************)
EXTENDS MediaServer

CONSTANTS Xml, Page

ASSUME ReaderAssumption == Xml # Page /\ {Xml, Page} \cap (Title \cup {All}) = {}

Request == Title \cup {Xml, Page}

VARIABLES
  request,     \* the title being looked up, Xml or Page
  step,        \* "idle", "test" (of the loop), "get" (the checks of an
               \* access), "take" (the access) or how the reading ended:
               \* "found", "end" (of the loop), "thrown"
  at,          \* cursor of the iterator, or the index of the page's loop
  expects,     \* expectedModCount of the iterator
  seen,        \* how often the reader was given each media
  throughout,  \* history: media listed all the time since the reading began
  midway,      \* history: was a removal under way when the reading began?
  disturbed    \* history: has one been under way since then?

history == <<throughout, midway, disturbed>>
reader  == <<request, step, at, expects, seen, history>>

Reading == step \in {"test", "get", "take"}

ReaderTypeOK ==
  /\ request \in Request
  /\ step \in {"idle", "test", "get", "take", "found", "end", "thrown"}
  /\ at \in 0 .. Capacity
  /\ expects \in Nat
  /\ seen \in [Media -> Nat]
  /\ throughout \in SUBSET Media
  /\ midway \in BOOLEAN
  /\ disturbed \in BOOLEAN

ReaderInit ==
  /\ Init
  /\ request = Xml
  /\ step = "idle"
  /\ at = 0
  /\ expects = 0
  /\ seen = [m \in Media |-> 0]
  /\ throughout = {}
  /\ midway = FALSE
  /\ disturbed = FALSE

(* medias.iterator(), or i = 0 *)
BeginRead(q) ==
  /\ ~Reading
  /\ request' = q
  /\ step' = "test"
  /\ at' = 0
  /\ expects' = modCount
  /\ seen' = [m \in Media |-> 0]
  /\ throughout' = Listed
  /\ midway' = InRemove
  /\ disturbed' = InRemove
  /\ UNCHANGED vars

(* Mutant of TestLoop: the loop ends one element early. *)
TestLoopEarly ==
  /\ step = "test"
  /\ step' = IF at + 1 < size THEN "get" ELSE "end"
  /\ UNCHANGED <<vars, request, at, expects, seen, history>>

(* Mutant of TestLoop: the iterator tests for one element too many. *)
TestLoopPastEnd ==
  /\ step = "test"
  /\ step' = IF request = Page THEN IF at < size THEN "get" ELSE "end"
                               ELSE IF at # size + 1 THEN "get" ELSE "end"
  /\ UNCHANGED <<vars, request, at, expects, seen, history>>

(* i.hasNext() compares with size for equality, the page with i < size(). *)
TestLoop ==
  /\ step = "test"
  /\ step' = IF request = Page THEN IF at < size THEN "get" ELSE "end"
                               ELSE IF at # size THEN "get" ELSE "end"
  /\ UNCHANGED <<vars, request, at, expects, seen, history>>

(* i.next() finds a modification or no element, or get(i) is out of range. *)
GetThrows ==
  /\ step = "get"
  /\ (request # Page /\ expects # modCount) \/ at >= size
  /\ step' = "thrown"
  /\ UNCHANGED <<vars, request, at, expects, seen, history>>

(* Mutant of GetMedia: the iterator does not look for modifications. *)
GetMediaUnchecked ==
  /\ step = "get"
  /\ at < size
  /\ step' = "take"
  /\ UNCHANGED <<vars, request, at, expects, seen, history>>

(* The checks of i.next() or get(i) pass. *)
GetMedia ==
  /\ step = "get"
  /\ request # Page => expects = modCount
  /\ at < size
  /\ step' = "take"
  /\ UNCHANGED <<vars, request, at, expects, seen, history>>

(* getTitle() is called on null. *)
TakeThrows ==
  /\ step = "take"
  /\ elementData[at + 1] = NULL
  /\ step' = "thrown"
  /\ UNCHANGED <<vars, request, at, expects, seen, history>>

(* Mutant of TakeMedia: the index is not advanced. *)
TakeMediaAgain ==
  /\ step = "take"
  /\ elementData[at + 1] # NULL
  /\ LET m == elementData[at + 1]
     IN  /\ seen' = [seen EXCEPT ![m] = @ + 1]
         /\ step' = IF request = TitleOf[m] THEN "found" ELSE "test"
  /\ UNCHANGED <<vars, request, at, expects, history>>

(* The slot is read; a lookup returns the media when it has the title. *)
TakeMedia ==
  /\ step = "take"
  /\ elementData[at + 1] # NULL
  /\ LET m == elementData[at + 1]
     IN  /\ seen' = [seen EXCEPT ![m] = @ + 1]
         /\ step' = IF request = TitleOf[m] THEN "found" ELSE "test"
  /\ at' = at + 1
  /\ UNCHANGED <<vars, request, expects, history>>

ReaderStep ==
  \/ \E q \in Request : BeginRead(q)
  \/ TestLoop
  \/ GetThrows
  \/ GetMedia
  \/ TakeThrows
  \/ TakeMedia

(* A step of the registry, noted by the reader's history.  The stream and     *)
(* player threads are left out: they touch the list only through deleteMedia, *)
(* which is what a servlet does with the same title.                          *)
RegistryStep ==
  /\ \/ \E m \in Media : AddReserve(m) \/ AddGrow(m) \/ AddStore(m)
     \/ ServletDelete
     \/ DeleteStep
  /\ throughout' = IF Reading THEN throughout \cap Listed' ELSE throughout
  /\ disturbed' = (disturbed \/ (Reading /\ InRemove'))
  /\ UNCHANGED <<request, step, at, expects, seen, midway>>

ReaderNext == ReaderStep \/ RegistryStep

ReaderSpec == ReaderInit /\ [][ReaderNext]_<<vars, reader>>

-----------------------------------------------------------------------------
(* A reading that came to the end of the list has been given every media    *)
(* that was listed all the while, unless a removal was under way meanwhile: *)
(* an add() is either noticed or behind the reader, also one that overlaps  *)
(* another (ServerRTSP.java:258-269).                                       *)
MissesOnlyOnRemoval ==
  step = "end" /\ ~disturbed => \A m \in throughout : seen[m] > 0

(* Until two updates of the list overlap, no reader is given a media three   *)
(* times, however many removals it runs into; twice a page may be given one  *)
(* that moves down while it reads, and a fail-fast iterator only if it was   *)
(* made while a removal was under way, whose count it takes for granted      *)
(* (Admin.jsp:178-179, ServerRTSP.java:258-269).                             *)
NothingIsReadTwice ==
  ~overlapped =>
    \A m \in Media :
      /\ seen[m] <= 2
      /\ seen[m] = 2 => IF request = Page THEN disturbed ELSE midway

(* Until two updates of the list overlap, a reader that is about to take an *)
(* element can take it, whether by iterator or by index, unless a removal   *)
(* was under way since it began or an add() has yet to fill its slot: a     *)
(* list at rest can always be read to its end (ServerRTSP.java:258-269,     *)
(* 309-310).                                                                *)
RestIsReadable ==
  step \in {"get", "take"} /\ ~overlapped /\ ~disturbed
    /\ (\A m \in Media : adding[m] # "grown") =>
      at < size /\ elementData[at + 1] # NULL

(* What a lookup or a page gets is what the list held: nothing is missed    *)
(* without a removal, nothing comes twice but what is moved meanwhile, and  *)
(* a list at rest can be read (ServerRTSP.java:258-269, Admin.jsp:178-213). *)
LookupsFit ==
  /\ ReaderTypeOK
  /\ MissesOnlyOnRemoval
  /\ NothingIsReadTwice
  /\ RestIsReadable

(***************************************************************************)
(* The inductive invariant behind LookupsFit.                              *)
(***************************************************************************)
(* The history knows of the removal under way; iterators made before it are *)
(* out of date; and an access that was checked is one to a slot.            *)
HistoryFits ==
  /\ step = "take" => at + 1 \in Slot
  /\ expects <= modCount
  /\ midway => disturbed
  /\ Reading /\ InRemove => disturbed
  /\ Reading /\ disturbed /\ ~midway /\ ~overlapped => expects < modCount

(* Without overlap: what has been read is behind the reader, but for a media *)
(* read from the slot below the one it is about to lose.                     *)
SeenIsBehind ==
  Reading => \A m \in Media : seen[m] > 0 =>
    /\ Stored(m)
    /\ \A i \in Slot : i > at /\ elementData[i] = m =>
         i = hole /\ at + 1 = hole /\ seen[m] = 1

(* Without overlap: an iterator made between removals has read no media that *)
(* is ahead of it, until its next check.                                     *)
IteratorIsAhead ==
  request # Page /\ ~midway =>
    /\ \A m \in Media : seen[m] <= 1
    /\ step = "take" \/ (Reading /\ ~disturbed) =>
         \A m \in Media : seen[m] > 0 =>
           \A i \in Slot : i > at => elementData[i] # m

(* Without a removal, what has not been read is still ahead, and ahead only. *)
UnseenIsAhead ==
  Reading /\ ~disturbed => \A m \in throughout :
    \/ seen[m] > 0
    \/ /\ \E i \in at + 1 .. size : elementData[i] = m
       /\ \A i \in 1 .. at : elementData[i] # m

(* Without overlap, a reader of a list at rest stays within it. *)
ReaderIsWithin ==
  Reading /\ ~disturbed => at <= size /\ (step # "test" => at < size)

ReaderInv ==
  /\ ReaderTypeOK
  /\ HistoryFits
  /\ UnseenIsAhead
  /\ MissesOnlyOnRemoval
  /\ ~overlapped =>
       SeenIsBehind /\ IteratorIsAhead /\ ReaderIsWithin /\ NothingIsReadTwice
=============================================================================
