------------------------- MODULE MediaServerProofs -------------------------
(***************************************************************************)
(* Theorems about MediaServer, and about MediaReaders, which extends it,   *)
(* for every set of media, titles and slots.                               *)
(***************************************************************************)
EXTENDS MediaReaders, TLAPS

USE MediaAssumption DEF MediaAssumption

(***************************************************************************)
(* Type correctness.                                                       *)
(***************************************************************************)

LEMMA InitType == Init => TypeOK
<1> SUFFICES ASSUME Init PROVE TypeOK
  OBVIOUS
<1>1. size \in 0 .. Capacity /\ cursor \in 0 .. Capacity
      /\ modCount \in Nat /\ expected \in Nat
  BY DEF Init
<1>2. index \in [Media -> 0 .. Capacity]
  BY DEF Init
<1>3. elementData \in [Slot -> Media \cup {NULL}]
  BY DEF Init
<1>4. /\ adding \in [Media -> {"new"}] /\ stream \in [Media -> {"none"}]
      /\ player \in [Media -> {"none"}] /\ pipe \in [Media -> {"none"}]
  BY DEF Init
<1>5. QED
  BY <1>1, <1>2, <1>3, <1>4 DEF Init, TypeOK

LEMMA AddType ==
  ASSUME TypeOK, NEW m \in Media, AddStep(m)
  PROVE  TypeOK'
<1>1. CASE AddReserve(m)
  BY <1>1 DEF AddReserve, TypeOK, threads, iterator
<1>2. CASE AddGrow(m)
  BY <1>2 DEF AddGrow, TypeOK, threads, iterator
<1>3. CASE AddStore(m)
  BY <1>3 DEF AddStore, TypeOK, threads, iterator, Slot
<1>4. CASE AddStream(m)
  BY <1>4 DEF AddStream, TypeOK, list, iterator
<1>5. QED
  BY <1>1, <1>2, <1>3, <1>4 DEF AddStep

LEMMA ThreadType ==
  ASSUME TypeOK, NEW m \in Media, StreamStep(m) \/ PlayerStep(m)
  PROVE  TypeOK'
<1> USE DEF TypeOK, list, adds, iterator
<1>1. CASE Launch(m)
  BY <1>1 DEF Launch
<1>2. CASE StartPlayer(m)
  BY <1>2 DEF StartPlayer
<1>3. CASE Register(m)
  BY <1>3 DEF Register
<1>4. CASE Expire(m)
  BY <1>4 DEF Expire
<1>5. CASE Play(m)
  BY <1>5 DEF Play
<1>6. CASE MainReturns(m)
  BY <1>6 DEF MainReturns
<1>7. QED
  BY <1>1, <1>2, <1>3, <1>4, <1>5, <1>6 DEF StreamStep, PlayerStep

LEMMA DeleteType ==
  ASSUME TypeOK, ThreadsAgree, RemovalIsWithin,
         ServletDelete \/ DeleteStep \/ \E m \in Media : ExpiredDelete(m)
  PROVE  TypeOK'
<1> USE DEF TypeOK, list, adds, threads, iterator
<1>0. Listed \subseteq Media
  BY DEF Listed, Slot
<1>1. CASE ServletDelete
  <2>1. PICK k \in Title \cup {All} : BeginDelete(Admin, k)
    BY <1>1 DEF ServletDelete
  <2>2. goal' \in SUBSET Media
    BY <1>0, <2>1 DEF BeginDelete
  <2>3. QED
    BY <1>1, <2>1, <2>2 DEF ServletDelete, BeginDelete
<1>2. ASSUME NEW m \in Media, ExpiredDelete(m)
      PROVE  TypeOK'
  <2>1. goal' \in SUBSET Media
    BY <1>0, <1>2 DEF ExpiredDelete, BeginDelete
  <2>2. QED
    BY <1>2, <2>1 DEF ExpiredDelete, BeginDelete
<1>3. ASSUME NEW o \in {"ended", "failed"}, Leave(o)
      PROVE  TypeOK'
  BY <1>3 DEF Leave
<1>4. CASE FinishDelete \/ NextThrows \/ RemoveThrows
  BY <1>3, <1>4 DEF FinishDelete, NextThrows, RemoveThrows
<1>5. CASE NextMedia
  BY <1>5 DEF NextMedia, Slot
<1>6. CASE StopPipeline
  BY <1>6 DEF StopPipeline, ThreadsAgree
<1>7. CASE InterruptPlayer
  BY <1>7 DEF InterruptPlayer, ThreadsAgree
<1>8. CASE RemoveCount
  BY <1>8 DEF RemoveCount
<1>9. CASE RemoveMove
  <2>1. hole \in Slot /\ hole + 1 \in Slot
    BY <1>9 DEF RemoveMove, RemovalIsWithin, InRemove, ThreadsAgree, Slot
  <2>2. QED
    BY <1>9, <2>1 DEF RemoveMove, Slot
<1>10. CASE RemoveRead
  BY <1>10 DEF RemoveRead, RemovalIsWithin
<1>11. CASE RemoveShrink \/ RemoveClear
  BY <1>11 DEF RemoveShrink, RemoveClear
<1>12. CASE RemoveResume
  BY <1>12 DEF RemoveResume, ThreadsAgree
<1>13. QED
  BY <1>1, <1>2, <1>4, <1>5, <1>6, <1>7, <1>8, <1>9, <1>10, <1>11, <1>12
     DEF DeleteStep, RemoveStep

-----------------------------------------------------------------------------
(***************************************************************************)
(* The program counters of threads, monitor and deletion stay in step.     *)
(***************************************************************************)

LEMMA LeaveAgrees ==
  ASSUME TypeOK, ThreadsAgree, phase # "idle",
         NEW o \in {"ended", "failed"}, Leave(o)
  PROVE  ThreadsAgree'
<1>1. \A m \in Media : stream'[m] # "deleting"
  BY DEF TypeOK, ThreadsAgree, Leave
<1>2. \A m \in Media : stream'[m] # "none" => adding'[m] = "added"
  BY DEF TypeOK, ThreadsAgree, Leave, adds
<1>3. QED
  BY <1>1, <1>2 DEF ThreadsAgree, Leave

LEMMA ThreadsAgreeInductive ==
  ASSUME TypeOK, ThreadsAgree, [Next]_vars
  PROVE  ThreadsAgree'
<1> USE DEF TypeOK, ThreadsAgree
<1>1. ASSUME NEW m \in Media, AddStep(m)
      PROVE  ThreadsAgree'
  <2>1. CASE AddReserve(m)
    BY <2>1 DEF AddReserve, threads, iterator, Matches
  <2>2. CASE AddGrow(m)
    BY <2>2 DEF AddGrow, threads, iterator, Matches
  <2>3. CASE AddStore(m)
    BY <2>3 DEF AddStore, threads, iterator, Matches
  <2>4. CASE AddStream(m)
    BY <2>4 DEF AddStream, iterator, Matches
  <2>5. QED
    BY <1>1, <2>1, <2>2, <2>3, <2>4 DEF AddStep
<1>2. ASSUME NEW m \in Media, StreamStep(m)
      PROVE  ThreadsAgree'
  <2>1. CASE Launch(m)
    BY <2>1 DEF Launch, adds, iterator, Matches
  <2>2. CASE StartPlayer(m)
    BY <2>2 DEF StartPlayer, adds, iterator, Matches
  <2>3. CASE Register(m)
    BY <2>3 DEF Register, adds, iterator, Matches
  <2>4. CASE Expire(m)
    BY <2>4 DEF Expire, adds, iterator, Matches
  <2>5. QED
    BY <1>2, <2>1, <2>2, <2>3, <2>4 DEF StreamStep
<1>3. ASSUME NEW m \in Media, PlayerStep(m)
      PROVE  ThreadsAgree'
  BY <1>3 DEF PlayerStep, Play, MainReturns, adds, iterator, Matches
<1>4. ASSUME NEW m \in Media, ExpiredDelete(m)
      PROVE  ThreadsAgree'
  BY <1>4 DEF ExpiredDelete, BeginDelete, adds
<1>5. CASE ServletDelete
  BY <1>5 DEF ServletDelete, BeginDelete, adds
<1>6. CASE FinishDelete \/ NextThrows \/ RemoveThrows
  BY <1>6, LeaveAgrees DEF FinishDelete, NextThrows, RemoveThrows
<1>7. CASE NextMedia
  BY <1>7 DEF NextMedia, adds, threads, Matches
<1>8. CASE StopPipeline
  BY <1>8 DEF StopPipeline, adds, Matches
<1>9. CASE InterruptPlayer
  BY <1>9 DEF InterruptPlayer, adds, Matches
<1>10. CASE RemoveCount
  BY <1>10 DEF RemoveCount, adds, threads, Matches
<1>11. CASE RemoveMove \/ RemoveRead \/ RemoveShrink \/ RemoveClear
  BY <1>11 DEF RemoveMove, RemoveRead, RemoveShrink, RemoveClear, adds, threads,
               Matches
<1>12. CASE RemoveResume
  BY <1>12 DEF RemoveResume, adds, threads
<1>13. CASE UNCHANGED vars
  BY <1>13 DEF vars, adds, threads, iterator, Matches
<1>14. QED
  BY <1>1, <1>2, <1>3, <1>4, <1>5, <1>6, <1>7, <1>8, <1>9, <1>10, <1>11, <1>12,
     <1>13
     DEF Next, DeleteStep, RemoveStep

-----------------------------------------------------------------------------
(***************************************************************************)
(* The removal.  Only its own steps move its slot, and while it works on   *)
(* the list no other step moves the iterator.                              *)
(***************************************************************************)

RemovalWork ==
  RemoveCount \/ RemoveMove \/ RemoveRead \/ RemoveShrink \/ RemoveClear

LEMMA RemovalIsKept ==
  ASSUME TypeOK, ThreadsAgree, [Next]_vars, ~RemovalWork
  PROVE  /\ UNCHANGED <<hole, last>>
         /\ InRemove' <=> InRemove
         /\ InRemove => UNCHANGED <<phase, cursor, cur>>
<1> USE DEF InRemove
<1>1. ASSUME NEW m \in Media, AddStep(m) \/ StreamStep(m) \/ PlayerStep(m)
      PROVE  UNCHANGED iterator
  BY <1>1 DEF AddStep, AddReserve, AddGrow, AddStore, AddStream, StreamStep,
              PlayerStep, Launch, StartPlayer, Register, Expire, Play, MainReturns
<1>2. ASSUME NEW p, NEW k, BeginDelete(p, k)
      PROVE  UNCHANGED <<hole, last>> /\ ~InRemove /\ ~InRemove'
  BY <1>2 DEF BeginDelete, ThreadsAgree
<1>3. ASSUME NEW o, Leave(o)
      PROVE  UNCHANGED <<hole, last>> /\ ~InRemove'
  BY <1>3 DEF Leave
<1>4. CASE FinishDelete \/ NextThrows \/ RemoveThrows
  BY <1>3, <1>4 DEF FinishDelete, NextThrows, RemoveThrows
<1>5. CASE NextMedia \/ StopPipeline \/ InterruptPlayer \/ RemoveResume
  BY <1>5 DEF NextMedia, StopPipeline, InterruptPlayer, RemoveResume
<1>6. CASE UNCHANGED iterator
  BY <1>6 DEF iterator
<1>7. CASE UNCHANGED vars
  BY <1>6, <1>7 DEF vars
<1>8. QED
  BY <1>1, <1>2, <1>4, <1>5, <1>6, <1>7
     DEF Next, DeleteStep, RemoveStep, RemovalWork, ServletDelete, ExpiredDelete

LEMMA RemovalWithinInductive ==
  ASSUME TypeOK, ThreadsAgree, RemovalIsWithin, [Next]_vars
  PROVE  RemovalIsWithin'
<1> USE DEF TypeOK, RemovalIsWithin, InRemove
<1>1. CASE RemoveCount
  BY <1>1 DEF RemoveCount, ThreadsAgree
<1>2. CASE RemoveMove
  BY <1>2 DEF RemoveMove
<1>3. CASE RemoveRead
  BY <1>3 DEF RemoveRead
<1>4. CASE RemoveShrink
  BY <1>4 DEF RemoveShrink
<1>5. CASE RemoveClear
  BY <1>5 DEF RemoveClear
<1>6. CASE ~RemovalWork
  <2>1. /\ UNCHANGED <<hole, last>>
        /\ InRemove' <=> InRemove
        /\ InRemove => UNCHANGED <<phase, cursor, cur>>
    BY <1>6, RemovalIsKept
  <2>2. phase = "move" => size' > 0
    <3>1. ASSUME NEW m \in Media, AddGrow(m)
          PROVE  size' > 0
      BY <3>1 DEF AddGrow
    <3>2. ASSUME phase = "move", ~\E m \in Media : AddGrow(m)
          PROVE  size' = size
      BY <1>6, <3>2
         DEF Next, vars, AddStep, StreamStep, PlayerStep, AddReserve, AddStore,
             AddStream, Launch, StartPlayer, Register, Expire, Play,
             MainReturns, ExpiredDelete, ServletDelete, BeginDelete, DeleteStep,
             FinishDelete, NextThrows, NextMedia, StopPipeline, InterruptPlayer,
             RemoveThrows, RemoveStep, RemoveResume, RemovalWork, Leave, list
    <3>3. QED
      BY <3>1, <3>2
  <2>3. QED
    BY <2>1, <2>2
<1>7. QED
  BY <1>1, <1>2, <1>3, <1>4, <1>5, <1>6 DEF RemovalWork

-----------------------------------------------------------------------------
(***************************************************************************)
(* The list.  Only add() and remove() touch it, at the steps named here;   *)
(* every other step leaves it and the progress of each add() in place, up  *)
(* to the return of addMedia().                                            *)
(***************************************************************************)

ListStep ==
  \/ \E m \in Media : AddReserve(m) \/ AddGrow(m) \/ AddStore(m)
  \/ RemoveCount \/ RemoveMove \/ RemoveShrink \/ RemoveClear

LEMMA OthersLeaveList ==
  ASSUME TypeOK, [Next]_vars, ~ListStep
  PROVE  /\ UNCHANGED <<list, index, overlapped>>
         /\ adding' \in [Media -> {"new", "reserved", "grown", "stored", "added"}]
         /\ \A m \in Media : Stored(m)' <=> Stored(m)
         /\ \A m \in Media : adding'[m] = "reserved" <=> adding[m] = "reserved"
         /\ \A m \in Media : adding'[m] = "grown" <=> adding[m] = "grown"
<1> USE DEF TypeOK, Stored, InAdd, list, adds
<1>1. ASSUME NEW m \in Media, AddStream(m)
      PROVE  /\ UNCHANGED <<list, index, overlapped>>
             /\ adding' = [adding EXCEPT ![m] = "added"]
             /\ adding[m] = "stored"
  BY <1>1 DEF AddStream
<1>2. CASE UNCHANGED <<list, adds, overlapped>>
  BY <1>2
<1>3. CASE \E m \in Media : AddStream(m)
  BY <1>1, <1>3
<1>4. CASE UNCHANGED vars
  BY <1>2, <1>4 DEF vars
<1>5. ASSUME NEW m \in Media,
             StreamStep(m) \/ PlayerStep(m) \/ ExpiredDelete(m)
      PROVE  UNCHANGED <<list, adds, overlapped>>
  BY <1>5 DEF StreamStep, PlayerStep, Launch, StartPlayer, Register, Expire,
              Play, MainReturns, ExpiredDelete, BeginDelete
<1>6. ASSUME ServletDelete \/ DeleteStep
      PROVE  UNCHANGED <<list, adds, overlapped>>
  BY <1>6 DEF ServletDelete, BeginDelete, DeleteStep, FinishDelete, NextThrows,
              NextMedia, StopPipeline, InterruptPlayer, RemoveThrows, RemoveStep,
              RemoveRead, RemoveResume, Leave, ListStep
<1>7. QED
  BY <1>2, <1>3, <1>4, <1>5, <1>6 DEF Next, ListStep, AddStep

(* What a removal does to the slots: one is given what the next one holds, *)
(* or is cleared.                                                          *)
LEMMA RemovalWrites ==
  ASSUME TypeOK, ThreadsAgree, RemovalIsWithin,
         RemoveCount \/ RemoveMove \/ RemoveShrink \/ RemoveClear
  PROVE  /\ UNCHANGED adding
         /\ \A i \in Slot :
              \/ elementData'[i] = elementData[i]
              \/ elementData'[i] = NULL
              \/ i = hole /\ i + 1 \in Slot /\ elementData'[i] = elementData[i + 1]
<1> USE DEF TypeOK, RemovalIsWithin, InRemove, Slot
<1>1. CASE RemoveCount \/ RemoveShrink
  BY <1>1 DEF RemoveCount, RemoveShrink, adds
<1>2. CASE RemoveMove
  <2>1. hole \in Slot /\ hole + 1 \in Slot
    BY <1>2 DEF RemoveMove, ThreadsAgree
  <2>2. QED
    BY <1>2, <2>1 DEF RemoveMove, adds
<1>3. CASE RemoveClear
  BY <1>3 DEF RemoveClear, adds
<1>4. QED
  BY <1>1, <1>2, <1>3

LEMMA StoredInductive ==
  ASSUME TypeOK, ThreadsAgree, RemovalIsWithin, SlotsAreStored, [Next]_vars
  PROVE  SlotsAreStored'
<1> USE DEF TypeOK, SlotsAreStored, Slot, Stored
<1>1. ASSUME NEW m \in Media, AddReserve(m) \/ AddGrow(m)
      PROVE  SlotsAreStored'
  <2>1. UNCHANGED elementData /\ \A n \in Media : Stored(n) => Stored(n)'
    BY <1>1 DEF AddReserve, AddGrow
  <2>2. QED
    BY <2>1
<1>2. ASSUME NEW m \in Media, AddStore(m)
      PROVE  SlotsAreStored'
  <2>1. \A i \in Slot : elementData'[i] = IF i = index[m] + 1 THEN m
                                                          ELSE elementData[i]
    BY <1>2 DEF AddStore
  <2>2. QED
    BY <1>2, <2>1 DEF AddStore
<1>3. CASE RemoveCount \/ RemoveMove \/ RemoveShrink \/ RemoveClear
  BY <1>3, RemovalWrites
<1>4. CASE ~ListStep
  BY <1>4, OthersLeaveList DEF list
<1>5. QED
  BY <1>1, <1>2, <1>3, <1>4 DEF ListStep

(***************************************************************************)
(* What the iterator has passed.                                           *)
(***************************************************************************)
LEMMA PassedInductive ==
  ASSUME TypeOK, ThreadsAgree, RemovalIsWithin, SlotsAreStored, PassedIsClean,
         [Next]_vars
  PROVE  PassedIsClean'
<1> USE DEF TypeOK, PassedIsClean, Slot, Stored, Matches
<1>1. ASSUME NEW m \in Media, AddStep(m)
      PROVE  PassedIsClean'
  <2>1. UNCHANGED iterator
    BY <1>1 DEF AddStep, AddReserve, AddGrow, AddStore, AddStream
  <2>2. \A n \in Media : Stored(n) => Stored(n)'
    BY <1>1 DEF AddStep, AddReserve, AddGrow, AddStore, AddStream
  <2>3. \A i \in Slot : elementData'[i] = elementData[i] \/ elementData'[i] \notin goal
    BY <1>1 DEF AddStep, AddReserve, AddGrow, AddStore, AddStream, list
  <2>4. QED
    BY <2>1, <2>2, <2>3 DEF iterator
<1>2. ASSUME NEW m \in Media, StreamStep(m) \/ PlayerStep(m)
      PROVE  PassedIsClean'
  BY <1>2 DEF StreamStep, PlayerStep, Launch, StartPlayer, Register, Expire,
              Play, MainReturns, list, adds, iterator
<1>3. ASSUME NEW p, NEW k, BeginDelete(p, k)
      PROVE  PassedIsClean'
  BY <1>3, SlotsAreStored DEF BeginDelete, Listed, SlotsAreStored, adds
<1>4. ASSUME NEW o, Leave(o)
      PROVE  PassedIsClean'
  BY <1>4 DEF Leave
<1>5. CASE NextMedia
  BY <1>5 DEF NextMedia, ThreadsAgree, list, adds
<1>6. CASE StopPipeline
  BY <1>6 DEF StopPipeline, list, adds
<1>7. CASE InterruptPlayer
  BY <1>7 DEF InterruptPlayer, list, adds
<1>8. CASE RemoveCount \/ RemoveMove \/ RemoveShrink \/ RemoveClear
  <2>1. UNCHANGED <<cursor, goal, key>> /\ phase' # "next" /\ phase # "next"
    BY <1>8 DEF RemoveCount, RemoveMove, RemoveShrink, RemoveClear
  <2>2. \A i \in Slot : i < cursor => elementData'[i] \in {elementData[i], NULL}
    BY <1>8, RemovalWrites DEF RemovalIsWithin, InRemove, RemoveCount, RemoveMove,
                               RemoveShrink, RemoveClear
  <2>3. \A m \in Media : Stored(m)' <=> Stored(m)
    BY <1>8, RemovalWrites
  <2>4. \A m \in goal' : Stored(m)' /\ Matches(m, key)'
    BY <2>1, <2>3
  <2>5. \A i \in 1 .. cursor' : i < cursor' => elementData'[i] \notin goal'
    BY <2>1, <2>2
  <2>6. QED
    BY <2>1, <2>4, <2>5
<1>9. CASE RemoveRead
  BY <1>9 DEF RemoveRead, list, adds
<1>10. CASE RemoveResume
  BY <1>10 DEF RemoveResume, ThreadsAgree, list, adds
<1>11. CASE UNCHANGED vars
  BY <1>11 DEF vars, list, adds, iterator
<1>12. QED
  BY <1>1, <1>2, <1>3, <1>4, <1>5, <1>6, <1>7, <1>8, <1>9, <1>10, <1>11
     DEF Next, DeleteStep, RemoveStep, ServletDelete, ExpiredDelete,
         FinishDelete, NextThrows, RemoveThrows

(***************************************************************************)
(* The list while no two updates have overlapped.                          *)
(***************************************************************************)
LEMMA OverlapIsKept ==
  ASSUME TypeOK, [Next]_vars, ~overlapped'
  PROVE  /\ ~overlapped
         /\ (\E m \in Media : AddReserve(m)) \/ RemoveCount =>
              \A n \in Media : ~InAdd(n)
         /\ (\E m \in Media : AddReserve(m)) => ~InRemove
<1>1. ASSUME NEW m \in Media, AddReserve(m)
      PROVE  ~overlapped /\ ~InRemove /\ \A n \in Media : ~InAdd(n)
  BY <1>1 DEF AddReserve, TypeOK
<1>2. ASSUME NEW m \in Media, AddGrow(m) \/ AddStore(m)
      PROVE  UNCHANGED overlapped
  BY <1>2 DEF AddGrow, AddStore
<1>3. CASE ~ListStep
  BY <1>3, OthersLeaveList DEF ListStep
<1>4. CASE RemoveCount
  <2>1. ~overlapped /\ \A n \in Media : ~InAdd(n)
    BY <1>4 DEF RemoveCount, TypeOK
  <2>2. \A m \in Media : ~AddReserve(m)
    BY <1>4 DEF RemoveCount, AddReserve, iterator
  <2>3. QED
    BY <2>1, <2>2
<1>5. CASE RemoveMove \/ RemoveShrink \/ RemoveClear
  <2>1. UNCHANGED overlapped
    BY <1>5 DEF RemoveMove, RemoveShrink, RemoveClear
  <2>2. ~RemoveCount /\ \A m \in Media : ~AddReserve(m)
    BY <1>5 DEF RemoveMove, RemoveShrink, RemoveClear, RemoveCount, AddReserve,
                iterator, TypeOK
  <2>3. QED
    BY <2>1, <2>2
<1>6. ASSUME NEW m \in Media, AddGrow(m) \/ AddStore(m)
      PROVE  ~RemoveCount
  BY <1>6 DEF AddGrow, AddStore, RemoveCount, iterator
<1>7. QED
  BY <1>1, <1>2, <1>3, <1>4, <1>5, <1>6 DEF ListStep

(* Steps of add(): no removal is under way. *)
LEMMA AddFindsNoRemoval ==
  ASSUME TypeOK, RemovalIsWithin, RemovalIsTight, [Next]_vars, ~overlapped',
         NEW m \in Media, AddReserve(m) \/ AddGrow(m) \/ AddStore(m)
  PROVE  hole = 0 /\ ~InRemove /\ UNCHANGED iterator
<1>1. ~InRemove
  BY OverlapIsKept DEF RemovalIsTight, InAdd, AddGrow, AddStore
<1>2. QED
  BY <1>1 DEF RemovalIsWithin, AddReserve, AddGrow, AddStore, TypeOK

LEMMA DistinctInductive ==
  ASSUME TypeOK, ThreadsAgree, RemovalIsWithin, SlotsAreStored, SlotsAreDistinct,
         ListIsTight, RemovalIsTight, [Next]_vars, ~overlapped'
  PROVE  SlotsAreDistinct'
<1> USE DEF TypeOK, SlotsAreDistinct, Slot
<1>1. ASSUME NEW m \in Media, AddReserve(m) \/ AddGrow(m)
      PROVE  SlotsAreDistinct'
  <2>1. UNCHANGED <<elementData, hole, cursor>>
    BY <1>1 DEF AddReserve, AddGrow, iterator
  <2>2. QED
    BY <2>1
<1>2. ASSUME NEW m \in Media, AddStore(m)
      PROVE  SlotsAreDistinct'
  <2>1. \A i \in Slot : elementData[i] # m
    BY <1>2 DEF AddStore, SlotsAreStored, Stored
  <2>2. \A i \in Slot : elementData'[i] = IF i = index[m] + 1 THEN m
                                                          ELSE elementData[i]
    BY <1>2 DEF AddStore
  <2>3. UNCHANGED <<hole, cursor>>
    BY <1>2, AddFindsNoRemoval DEF iterator
  <2>4. QED
    BY <2>1, <2>2, <2>3
<1>3. CASE RemoveCount
  BY <1>3 DEF RemoveCount, RemovalIsWithin, InRemove
<1>4. CASE RemoveMove
  <2>1. hole \in Slot /\ hole + 1 \in Slot /\ cursor < hole + 1
    BY <1>4 DEF RemoveMove, RemovalIsWithin, InRemove, ThreadsAgree
  <2>2. /\ \A i \in Slot : elementData'[i] = IF i = hole THEN elementData[hole + 1]
                                                        ELSE elementData[i]
        /\ hole' = hole + 1 /\ cursor' = cursor
    BY <1>4, <2>1 DEF RemoveMove
  <2>3. ASSUME NEW i \in Slot, NEW j \in Slot, i < j,
               elementData'[i] = elementData'[j], elementData'[i] # NULL
        PROVE  i = hole /\ j = hole + 1
    <3>1. CASE i = hole
      BY <2>1, <2>2, <2>3, <3>1
    <3>2. CASE j = hole
      BY <2>1, <2>2, <2>3, <3>2
    <3>3. CASE i # hole /\ j # hole
      BY <2>2, <2>3, <3>3
    <3>4. QED
      BY <3>1, <3>2, <3>3
  <2>4. QED
    BY <2>1, <2>2, <2>3
<1>5. CASE RemoveShrink
  BY <1>5 DEF RemoveShrink
<1>6. CASE RemoveClear
  <2>1. hole = last + 1
    BY <1>6 DEF RemoveClear, RemovalIsTight, InRemove
  <2>2. \A i \in Slot : elementData'[i] = IF i = hole THEN NULL ELSE elementData[i]
    BY <1>6, <2>1 DEF RemoveClear
  <2>3. QED
    BY <2>2
<1>7. CASE RemoveRead
  BY <1>7 DEF RemoveRead, list
<1>8. CASE ~ListStep /\ ~RemovalWork
  <2>1. UNCHANGED <<elementData, hole>> /\ (InRemove => UNCHANGED cursor)
    BY <1>8, OthersLeaveList, RemovalIsKept DEF list
  <2>2. CASE InRemove
    BY <2>1, <2>2
  <2>3. CASE ~InRemove
    BY <2>1, <2>3 DEF RemovalIsWithin
  <2>4. QED
    BY <2>2, <2>3
<1>9. QED
  BY <1>1, <1>2, <1>3, <1>4, <1>5, <1>6, <1>7, <1>8 DEF ListStep, RemovalWork

LEMMA TightInductive ==
  ASSUME TypeOK, ThreadsAgree, RemovalIsWithin, ListIsTight, RemovalIsTight,
         [Next]_vars, ~overlapped'
  PROVE  ListIsTight'
<1> USE DEF TypeOK, ListIsTight, Slot, InAdd
<1>1. ASSUME NEW m \in Media, AddReserve(m)
      PROVE  ListIsTight'
  <2>1. \A n \in Media : ~InAdd(n)
    BY <1>1, OverlapIsKept
  <2>2. QED
    BY <1>1, <2>1 DEF AddReserve, iterator
<1>2. ASSUME NEW m \in Media, AddGrow(m)
      PROVE  ListIsTight'
  <2>0. hole = 0 /\ UNCHANGED iterator
    BY <1>2, AddFindsNoRemoval
  <2>1. index[m] = size /\ size' = size + 1 /\ elementData[size + 1] = NULL
    BY <1>2, <2>0 DEF AddGrow
  <2>2. \A n \in Media : InAdd(n) => n = m
    BY <1>2 DEF AddGrow
  <2>3. \A i \in 1 .. size : elementData[i] # NULL
    BY <1>2, <2>2 DEF AddGrow
  <2>4. QED
    BY <1>2, <2>0, <2>1, <2>2, <2>3 DEF AddGrow, iterator
<1>3. ASSUME NEW m \in Media, AddStore(m)
      PROVE  ListIsTight'
  <2>0. hole = 0 /\ UNCHANGED iterator
    BY <1>3, AddFindsNoRemoval
  <2>1. index[m] + 1 = size /\ elementData[size] = NULL
    BY <1>3 DEF AddStore
  <2>2. \A n \in Media : InAdd(n) => n = m
    BY <1>3 DEF AddStore
  <2>3. phase \in {"stop", "interrupt", "remove"} => cursor # size
    BY <2>1 DEF ThreadsAgree
  <2>4. QED
    BY <1>3, <2>0, <2>1, <2>2, <2>3 DEF AddStore, iterator
<1>4. CASE RemoveCount
  <2>1. hole = 0
    BY <1>4 DEF RemoveCount, RemovalIsWithin, InRemove
  <2>2. QED
    BY <1>4, <2>1 DEF RemoveCount, adds
<1> DEFINE Tight == /\ \A i \in 1 .. size : elementData[i] # NULL
                    /\ \A i \in Slot : i > size => elementData[i] = NULL \/ i = hole
<1>5. ASSUME InRemove, UNCHANGED adding, phase' \notin {"stop", "interrupt", "remove"},
             Tight'
      PROVE  ListIsTight'
  <2>1. \A n \in Media : ~InAdd(n)
    BY <1>5 DEF RemovalIsTight
  <2>2. QED
    BY <1>5, <2>1
<1>6. CASE RemoveMove
  <2>1. hole \in 1 .. size /\ hole + 1 \in 1 .. size /\ InRemove
        /\ UNCHANGED <<adding, size>> /\ phase' = "move"
    BY <1>6 DEF RemoveMove, RemovalIsWithin, RemovalIsTight, InRemove, ThreadsAgree, adds
  <2>2. \A i \in Slot : elementData'[i] = IF i = hole THEN elementData[hole + 1]
                                                      ELSE elementData[i]
    BY <1>6, <2>1 DEF RemoveMove
  <2>3. \A n \in Media : ~InAdd(n)
    BY <2>1 DEF RemovalIsTight
  <2>4. \A i \in 1 .. size : elementData[i] # NULL
    BY <2>3
  <2>5. \A i \in Slot : i > size => elementData'[i] = NULL
    BY <2>1, <2>2
  <2>6. Tight'
    BY <2>1, <2>2, <2>4, <2>5
  <2>7. QED
    BY <1>5, <2>1, <2>6
<1>7. CASE RemoveShrink
  <2>1. size' = size - 1 /\ hole = size /\ InRemove /\ phase' = "clear"
        /\ UNCHANGED <<elementData, adding, hole>>
    BY <1>7 DEF RemoveShrink, RemovalIsTight, InRemove, adds
  <2>2. \A n \in Media : ~InAdd(n)
    BY <2>1 DEF RemovalIsTight
  <2>3. \A i \in 1 .. size : elementData[i] # NULL
    BY <2>2
  <2>4. \A i \in Slot : i > size' => elementData[i] = NULL \/ i = hole
    BY <2>1
  <2>5. Tight'
    BY <2>1, <2>3, <2>4
  <2>6. QED
    BY <1>5, <2>1, <2>5
<1>8. CASE RemoveClear
  <2>1. hole = size + 1 /\ hole = last + 1 /\ InRemove /\ phase' = "resume"
        /\ UNCHANGED <<adding, size>>
    BY <1>8 DEF RemoveClear, RemovalIsTight, InRemove, adds
  <2>2. \A i \in Slot : elementData'[i] = IF i = hole THEN NULL ELSE elementData[i]
    BY <1>8, <2>1 DEF RemoveClear
  <2>3. \A n \in Media : ~InAdd(n)
    BY <2>1 DEF RemovalIsTight
  <2>4. Tight'
    BY <2>1, <2>2, <2>3
  <2>5. QED
    BY <1>5, <2>1, <2>4
<1> HIDE DEF Tight
<1>9. CASE RemoveRead
  BY <1>9 DEF RemoveRead, list, adds
<1>0. ASSUME ~ListStep, ~RemovalWork,
             phase' \in {"stop", "interrupt", "remove"} =>
               cursor' <= size /\ elementData[cursor'] = cur'
      PROVE  ListIsTight'
  <2>1. /\ UNCHANGED <<elementData, size, index, hole>>
        /\ \A n \in Media : adding'[n] = "reserved" <=> adding[n] = "reserved"
        /\ \A n \in Media : adding'[n] = "grown" <=> adding[n] = "grown"
    BY <1>0, OthersLeaveList, RemovalIsKept DEF list
  <2>2. QED
    BY <1>0, <2>1
<1>10. CASE ~ListStep /\ ~RemovalWork /\ NextMedia
  <2>1. CASE phase' = "stop"
    <3>1. cursor' = cursor + 1 /\ cursor + 1 <= size
          /\ cur' = elementData[cursor + 1]
      BY <1>10, <2>1 DEF NextMedia
    <3>2. QED
      BY <1>0, <1>10, <3>1
  <2>2. CASE phase' = "next"
    BY <1>0, <1>10, <2>2
  <2>3. QED
    BY <1>10, <2>1, <2>2 DEF NextMedia
<1>11. CASE ~ListStep /\ ~RemovalWork /\ ~NextMedia
  <2>1. ASSUME NEW m \in Media, AddStream(m) \/ StreamStep(m) \/ PlayerStep(m)
        PROVE  UNCHANGED <<cursor, cur, phase>>
    BY <2>1 DEF AddStream, StreamStep, PlayerStep, Launch, StartPlayer, Register,
                Expire, Play, MainReturns, iterator
  <2>2. ASSUME NEW p, NEW k, BeginDelete(p, k)
        PROVE  phase' = "next"
    BY <2>2 DEF BeginDelete
  <2>3. ASSUME NEW o, Leave(o)
        PROVE  phase' = "idle"
    BY <2>3 DEF Leave
  <2>4. UNCHANGED vars => UNCHANGED <<cursor, cur, phase>>
    BY DEF vars, iterator
  <2>5. StopPipeline \/ InterruptPlayer =>
          UNCHANGED <<cursor, cur>> /\ phase \in {"stop", "interrupt", "remove"}
    BY DEF StopPipeline, InterruptPlayer
  <2>6. RemoveResume => phase' = "next"
    BY DEF RemoveResume
  <2>7. phase' \in {"stop", "interrupt", "remove"} =>
          UNCHANGED <<cursor, cur>> /\ phase \in {"stop", "interrupt", "remove"}
    BY <1>11, <2>1, <2>2, <2>3, <2>4, <2>5, <2>6
       DEF ListStep, RemovalWork, Next, AddStep, DeleteStep, RemoveStep,
           ServletDelete, ExpiredDelete, FinishDelete, NextThrows, RemoveThrows
  <2>8. QED
    BY <1>0, <1>11, <2>7
<1>12. QED
  BY <1>1, <1>2, <1>3, <1>4, <1>6, <1>7, <1>8, <1>9, <1>10, <1>11
     DEF ListStep, RemovalWork

LEMMA RemovalTightInductive ==
  ASSUME TypeOK, ThreadsAgree, RemovalIsWithin, ListIsTight, RemovalIsTight,
         [Next]_vars, ~overlapped'
  PROVE  RemovalIsTight'
<1> USE DEF TypeOK, RemovalIsTight, InRemove, Slot
<1>1. ASSUME NEW m \in Media, AddReserve(m) \/ AddGrow(m) \/ AddStore(m)
      PROVE  RemovalIsTight'
  BY <1>1, AddFindsNoRemoval DEF iterator
<1>2. CASE RemoveCount
  <2>1. \A n \in Media : ~InAdd(n)
    BY <1>2, OverlapIsKept
  <2>2. elementData[cursor] = cur
    BY <1>2 DEF RemoveCount, ListIsTight
  <2>3. QED
    BY <1>2, <2>1, <2>2 DEF RemoveCount, adds, InAdd
<1>3. CASE RemoveMove
  <2>1. hole \in Slot /\ hole + 1 \in Slot /\ hole >= cursor
    BY <1>3 DEF RemoveMove, RemovalIsWithin, ThreadsAgree
  <2>2. elementData'[hole + 1] = elementData[hole + 1]
        /\ elementData'[hole] = elementData[hole + 1]
    BY <1>3, <2>1 DEF RemoveMove
  <2>3. hole + 1 # cursor /\ hole' = hole + 1 /\ hole' - 1 = hole
        /\ UNCHANGED cursor /\ phase' = "move" /\ last' = last /\ size' = size
    BY <1>3, <2>1 DEF RemoveMove
  <2>4. \A n \in Media : ~InAdd(n)'
    BY <1>3 DEF RemoveMove, adds, InAdd
  <2>5. elementData'[hole'] = IF hole' = cursor' THEN cur' ELSE elementData'[hole' - 1]
    BY <2>2, <2>3
  <2>6. last = size
    BY <1>3 DEF RemoveMove
  <2>7. QED
    BY <2>3, <2>4, <2>5, <2>6
<1>4. CASE RemoveRead
  BY <1>4 DEF RemoveRead, RemovalIsWithin, list, adds, InAdd
<1>5. CASE RemoveShrink
  BY <1>5 DEF RemoveShrink, adds, InAdd
<1>6. CASE RemoveClear
  BY <1>6 DEF RemoveClear
<1>7. CASE ~ListStep /\ ~RemovalWork
  <2>1. /\ UNCHANGED <<elementData, size, hole, last>>
        /\ InRemove' <=> InRemove
        /\ InRemove => UNCHANGED <<phase, cursor, cur>>
    BY <1>7, OthersLeaveList, RemovalIsKept DEF list
  <2>2. \A n \in Media : InAdd(n)' <=> InAdd(n)
    BY <1>7, OthersLeaveList DEF InAdd
  <2>3. CASE InRemove
    BY <2>1, <2>2, <2>3
  <2>4. CASE ~InRemove
    BY <2>1, <2>4
  <2>5. QED
    BY <2>3, <2>4
<1>8. QED
  BY <1>1, <1>2, <1>3, <1>4, <1>5, <1>6, <1>7 DEF ListStep, RemovalWork

(* What a removal leaves of the list when it drops the content of its slot. *)
LEMMA ListedDrops ==
  ASSUME TypeOK, ThreadsAgree, RemovalIsWithin, SlotsAreDistinct, RemovalIsTight,
         InRemove, hole \in 1 .. size, size' \in 0 .. size,
         Listed' \subseteq Listed,
         \A i \in 1 .. size : i # hole => i \in 1 .. size' /\ elementData'[i] = elementData[i],
         hole \notin 1 .. size' \/ (hole + 1 \in 1 .. size /\ elementData'[hole] = elementData[hole + 1])
  PROVE  Listed' = IF hole = cursor THEN Listed \ {cur} ELSE Listed
<1> USE DEF TypeOK, Slot
<1>1. Listed \ {elementData[hole]} \subseteq Listed'
  <2>1. SUFFICES ASSUME NEW m \in Listed, m # elementData[hole]
                 PROVE  m \in Listed'
    OBVIOUS
  <2>2. PICK i \in 1 .. size : elementData[i] = m /\ m # NULL
    BY DEF Listed
  <2>3. i \in 1 .. size' /\ elementData'[i] = m
    BY <2>1, <2>2
  <2>4. QED
    BY <2>2, <2>3 DEF Listed
<1>2. CASE hole = cursor
  <2>1. elementData[hole] = cur /\ cur # NULL
    BY <1>2 DEF RemovalIsTight, ThreadsAgree, InRemove
  <2>2. ASSUME NEW i \in 1 .. size, i # hole
        PROVE  elementData[i] # cur
    <3>1. i \in Slot /\ hole \in Slot /\ (i < hole \/ hole < i)
      BY <2>2
    <3>2. ~(elementData[i] = elementData[hole] /\ elementData[i] # NULL)
      BY <1>2, <3>1 DEF SlotsAreDistinct
    <3>3. QED
      BY <2>1, <3>2
  <2>3. cur \notin Listed'
    <3>1. SUFFICES ASSUME NEW i \in 1 .. size', elementData'[i] = cur
                   PROVE  FALSE
      BY DEF Listed
    <3>2. CASE i = hole
      BY <2>2, <3>1, <3>2
    <3>3. CASE i # hole /\ i \in 1 .. size
      BY <2>2, <3>1, <3>3
    <3>4. i \in 1 .. size
      BY <3>1
    <3>5. QED
      BY <3>2, <3>3, <3>4
  <2>4. QED
    BY <1>1, <1>2, <2>1, <2>3
<1>3. CASE hole # cursor
  <2>1. elementData[hole] = elementData[hole - 1] /\ hole - 1 \in 1 .. size
    BY <1>3 DEF RemovalIsTight, ThreadsAgree, RemovalIsWithin, InRemove
  <2>2. hole - 1 \in 1 .. size' /\ elementData'[hole - 1] = elementData[hole]
    BY <2>1
  <2>3. elementData[hole] \in Listed => elementData[hole] \in Listed'
    BY <2>2 DEF Listed
  <2>4. Listed \subseteq Listed'
    BY <1>1, <2>3
  <2>5. Listed' = Listed
    BY <2>4
  <2>6. QED
    BY <1>3, <2>5
<1>4. QED
  BY <1>2, <1>3

(* Without overlap a step puts one media on the list, takes the iterator's *)
(* current media off it, or leaves it alone.                               *)
LEMMA ListedChanges ==
  ASSUME TypeOK, ThreadsAgree, RemovalIsWithin, SlotsAreDistinct, ListIsTight,
         RemovalIsTight, [Next]_vars, ~overlapped'
  PROVE  \/ Listed' = Listed /\ \A m \in Media : Stored(m)' <=> Stored(m)
         \/ \E m \in Media : AddStore(m) /\ Listed' = Listed \cup {m}
         \/ InRemove /\ Listed' = Listed \ {cur} /\ UNCHANGED <<adding, stopped>>
<1> USE DEF TypeOK, Slot
<1>1. ASSUME NEW m \in Media, AddReserve(m)
      PROVE  Listed' = Listed /\ \A n \in Media : Stored(n)' <=> Stored(n)
  BY <1>1 DEF AddReserve, Listed, Stored
<1>2. ASSUME NEW m \in Media, AddGrow(m)
      PROVE  Listed' = Listed /\ \A n \in Media : Stored(n)' <=> Stored(n)
  <2>0. hole = 0
    BY <1>2, AddFindsNoRemoval
  <2>1. index[m] = size /\ size' = size + 1 /\ elementData[size + 1] = NULL
    BY <1>2, <2>0 DEF AddGrow, ListIsTight
  <2>2. Listed' = Listed
    <3>1. elementData' = elementData /\ 1 .. size' = (1 .. size) \cup {size + 1}
      BY <1>2, <2>1 DEF AddGrow
    <3>2. QED
      BY <2>1, <3>1 DEF Listed
  <2>3. QED
    BY <1>2, <2>2 DEF AddGrow, Stored
<1>3. ASSUME NEW m \in Media, AddStore(m)
      PROVE  Listed' = Listed \cup {m}
  <2>1. index[m] + 1 = size /\ elementData[size] = NULL /\ size \in Slot
    BY <1>3 DEF AddStore, ListIsTight
  <2>2. /\ elementData'[size] = m
        /\ \A i \in Slot : i # size => elementData'[i] = elementData[i]
        /\ size' = size
    BY <1>3, <2>1 DEF AddStore
  <2>3. m \in Listed'
    BY <2>1, <2>2 DEF Listed
  <2>5. ASSUME NEW n \in Listed', n # m
        PROVE  n \in Listed
    <3>1. PICK i \in 1 .. size' : elementData'[i] = n /\ n # NULL
      BY DEF Listed
    <3>2. i \in 1 .. size /\ elementData[i] = n
      BY <2>1, <2>2, <2>5, <3>1
    <3>3. QED
      BY <3>1, <3>2 DEF Listed
  <2>4. ASSUME NEW n \in Listed
        PROVE  n \in Listed'
    <3>1. PICK i \in 1 .. size : elementData[i] = n /\ n # NULL
      BY DEF Listed
    <3>2. elementData'[i] = n
      BY <2>1, <2>2, <3>1
    <3>3. QED
      BY <2>2, <3>1, <3>2 DEF Listed
  <2>6. QED
    BY <2>3, <2>4, <2>5
<1>4. CASE RemoveCount \/ RemoveClear
  <2>1. UNCHANGED <<adding, size>>
    BY <1>4 DEF RemoveCount, RemoveClear, adds
  <2>2. \A i \in 1 .. size : elementData'[i] = elementData[i]
    BY <1>4 DEF RemoveCount, RemoveClear, RemovalIsTight, InRemove
  <2>3. ASSUME NEW m \in Listed
        PROVE  m \in Listed'
    <3>1. PICK i \in 1 .. size : elementData[i] = m /\ m # NULL
      BY DEF Listed
    <3>2. QED
      BY <2>1, <2>2, <3>1 DEF Listed
  <2>4. ASSUME NEW m \in Listed'
        PROVE  m \in Listed
    <3>1. PICK i \in 1 .. size' : elementData'[i] = m /\ m # NULL
      BY DEF Listed
    <3>2. i \in 1 .. size /\ elementData[i] = m
      BY <2>1, <2>2, <3>1
    <3>3. QED
      BY <3>1, <3>2 DEF Listed
  <2>5. Listed' = Listed
    BY <2>3, <2>4
  <2>6. QED
    BY <2>1, <2>5 DEF Stored
<1>5. CASE RemoveMove
  <2>1. hole \in 1 .. size /\ hole + 1 \in 1 .. size /\ InRemove
        /\ UNCHANGED <<adding, size, stopped>>
    BY <1>5 DEF RemoveMove, RemovalIsWithin, RemovalIsTight, InRemove, ThreadsAgree, adds
  <2>2. \A i \in 1 .. size : elementData'[i] = IF i = hole THEN elementData[hole + 1]
                                                         ELSE elementData[i]
    BY <1>5, <2>1 DEF RemoveMove
  <2>3. Listed' \subseteq Listed
    <3>1. SUFFICES ASSUME NEW m \in Listed' PROVE m \in Listed
      OBVIOUS
    <3>2. PICK i \in 1 .. size' : elementData'[i] = m /\ m # NULL
      BY DEF Listed
    <3>3. \E j \in 1 .. size : elementData[j] = m
      BY <2>1, <2>2, <3>2
    <3>4. QED
      BY <3>2, <3>3 DEF Listed
  <2>4. Listed' = IF hole = cursor THEN Listed \ {cur} ELSE Listed
    BY <2>1, <2>2, <2>3, ListedDrops
  <2>5. QED
    BY <2>1, <2>4 DEF Stored
<1>6. CASE RemoveShrink
  <2>1. hole = size /\ size \in Slot /\ size' = size - 1 /\ InRemove
        /\ UNCHANGED <<adding, elementData, stopped>>
    BY <1>6 DEF RemoveShrink, RemovalIsWithin, RemovalIsTight, InRemove, ThreadsAgree, adds
  <2>2. Listed' \subseteq Listed
    BY <2>1 DEF Listed
  <2>3. Listed' = IF hole = cursor THEN Listed \ {cur} ELSE Listed
    BY <2>1, <2>2, ListedDrops
  <2>4. QED
    BY <2>1, <2>3 DEF Stored
<1>7. CASE ~ListStep
  <2>1. UNCHANGED <<elementData, size>> /\ \A m \in Media : Stored(m)' <=> Stored(m)
    BY <1>7, OthersLeaveList DEF list
  <2>2. Listed' = Listed
    BY ONLY <2>1 DEF Listed
  <2>3. QED
    BY <2>1, <2>2
<1>8. QED
  BY <1>1, <1>2, <1>3, <1>4, <1>5, <1>6, <1>7 DEF ListStep

(***************************************************************************)
(* What the deletions do to the list while no two updates have overlapped. *)
(***************************************************************************)
LEMMA StoppedGrows ==
  ASSUME [Next]_vars
  PROVE  stopped \subseteq stopped'
BY DEF Next, vars, AddStep, StreamStep, PlayerStep, AddReserve, AddGrow,
       AddStore, AddStream, Launch, StartPlayer, Register, Expire, Play,
       MainReturns, ExpiredDelete, ServletDelete, BeginDelete, DeleteStep,
       FinishDelete, NextThrows, NextMedia, StopPipeline, InterruptPlayer,
       RemoveStep, RemoveThrows, RemoveCount, RemoveMove, RemoveRead,
       RemoveShrink, RemoveClear, RemoveResume, Leave

LEMMA UnlistedInductive ==
  ASSUME TypeOK, ThreadsAgree, RemovalIsWithin, SlotsAreDistinct, ListIsTight,
         RemovalIsTight, UnlistedWasStopped, [Next]_vars, ~overlapped'
  PROVE  UnlistedWasStopped'
<1>1. ~overlapped
  BY OverlapIsKept
<1>2. CASE Listed' = Listed /\ \A m \in Media : Stored(m)' <=> Stored(m)
  BY <1>1, <1>2, StoppedGrows DEF UnlistedWasStopped
<1>3. ASSUME NEW m \in Media, AddStore(m), Listed' = Listed \cup {m}
      PROVE  UnlistedWasStopped'
  <2>1. \A n \in Media \ {m} : Stored(n)' <=> Stored(n)
    BY <1>3 DEF AddStore, Stored, TypeOK
  <2>2. QED
    BY <1>1, <1>3, <2>1, StoppedGrows DEF UnlistedWasStopped
<1>4. CASE InRemove /\ Listed' = Listed \ {cur} /\ UNCHANGED <<adding, stopped>>
  <2>1. cur \in stopped
    BY <1>4 DEF InRemove, ThreadsAgree
  <2>2. \A m \in Media : Stored(m)' <=> Stored(m)
    BY <1>4 DEF Stored
  <2>3. QED
    BY <1>1, <1>4, <2>1, <2>2, StoppedGrows DEF UnlistedWasStopped
<1>5. QED
  BY <1>2, <1>3, <1>4, ListedChanges

(* A media that was stored and is no longer listed does not come back. *)
LEMMA UnlistedStays ==
  ASSUME TypeOK, ThreadsAgree, RemovalIsWithin, SlotsAreDistinct, ListIsTight,
         RemovalIsTight, [Next]_vars, ~overlapped',
         NEW m \in Media, Stored(m), m \notin Listed
  PROVE  m \notin Listed'
<1>1. ASSUME NEW n \in Media, AddStore(n)
      PROVE  n # m
  BY <1>1 DEF AddStore, Stored
<1>2. QED
  BY <1>1, ListedChanges

LEMMA OwnGoalInductive ==
  ASSUME TypeOK, ThreadsAgree, RemovalIsWithin, SlotsAreDistinct, ListIsTight,
         RemovalIsTight, OwnMediaIsGoal, [Next]_vars, ~overlapped'
  PROVE  OwnMediaIsGoal'
<1> SUFFICES ASSUME NEW m \in Media, stream'[m] = "deleting", m \in Listed'
             PROVE  m \in goal'
  BY DEF OwnMediaIsGoal
<1> USE DEF TypeOK
<1>1. CASE stream[m] = "deleting"
  <2>1. m \in goal
    <3>1. Stored(m)
      BY <1>1 DEF ThreadsAgree, Stored
    <3>2. QED
      BY <1>1, <3>1, UnlistedStays DEF OwnMediaIsGoal
  <2>2. lock = m /\ phase # "idle"
    BY <1>1 DEF ThreadsAgree
  <2>3. ASSUME NEW o \in {"ended", "failed"}, Leave(o)
        PROVE  FALSE
    BY <2>2, <2>3 DEF Leave
  <2>4. UNCHANGED goal
    BY <2>2, <2>3
       DEF Next, vars, AddStep, StreamStep, PlayerStep, AddReserve, AddGrow,
           AddStore, AddStream, Launch, StartPlayer, Register, Expire, Play,
           MainReturns, ExpiredDelete, ServletDelete, BeginDelete, DeleteStep,
           FinishDelete, NextThrows, NextMedia, StopPipeline, InterruptPlayer,
           RemoveThrows, RemoveStep, RemoveCount, RemoveMove, RemoveRead,
           RemoveShrink, RemoveClear, RemoveResume, Leave, iterator
  <2>5. QED
    BY <2>1, <2>4
<1>2. CASE stream[m] # "deleting"
  <2>1. ExpiredDelete(m)
    BY <1>2
       DEF Next, vars, AddStep, StreamStep, PlayerStep, AddReserve, AddGrow,
           AddStore, AddStream, Launch, StartPlayer, Register, Expire, Play,
           MainReturns, ExpiredDelete, ServletDelete, DeleteStep,
           FinishDelete, NextThrows, NextMedia, StopPipeline, InterruptPlayer,
           RemoveThrows, RemoveStep, RemoveCount, RemoveMove, RemoveRead,
           RemoveShrink, RemoveClear, RemoveResume, Leave, threads
  <2>2. QED
    BY <2>1 DEF ExpiredDelete, BeginDelete, Matches, Listed, list
<1>3. QED
  BY <1>1, <1>2

LEMMA PassedImpliesComplete ==
  ASSUME TypeOK, PassedIsClean
  PROVE  DeleteComplete
<1> SUFFICES ASSUME phase = "next", cursor = size, NEW m \in goal, m \in Listed
             PROVE  FALSE
  BY DEF DeleteComplete
<1>1. PICK i \in 1 .. size : elementData[i] = m
  BY DEF Listed
<1>2. QED
  BY <1>1 DEF PassedIsClean, TypeOK

LEMMA EndedInductive ==
  ASSUME TypeOK, ThreadsAgree, RemovalIsWithin, SlotsAreDistinct, PassedIsClean,
         ListIsTight, RemovalIsTight, OwnMediaIsGoal, EndedIsUnlisted, [Next]_vars,
         ~overlapped'
  PROVE  EndedIsUnlisted'
<1> SUFFICES ASSUME NEW m \in Media, stream'[m] = "ended"
             PROVE  m \notin Listed'
  BY DEF EndedIsUnlisted
<1> USE DEF TypeOK
<1>1. CASE stream[m] = "ended"
  <2>1. m \notin Listed /\ Stored(m)
    BY <1>1, OverlapIsKept DEF EndedIsUnlisted, ThreadsAgree, Stored
  <2>2. QED
    BY <2>1, UnlistedStays
<1>2. CASE stream[m] # "ended"
  <2>1. FinishDelete /\ lock = m
    BY <1>2
       DEF Next, vars, AddStep, StreamStep, PlayerStep, AddReserve, AddGrow,
           AddStore, AddStream, Launch, StartPlayer, Register, Expire, Play,
           MainReturns, ExpiredDelete, ServletDelete, DeleteStep,
           FinishDelete, NextThrows, NextMedia, StopPipeline, InterruptPlayer,
           RemoveThrows, RemoveStep, RemoveCount, RemoveMove, RemoveRead,
           RemoveShrink, RemoveClear, RemoveResume, Leave, threads
  <2>2. m \notin Listed
    <3>1. goal \cap Listed = {}
      BY <2>1, PassedImpliesComplete DEF DeleteComplete, FinishDelete
    <3>2. m \in goal \/ m \notin Listed
      BY <2>1 DEF OwnMediaIsGoal, ThreadsAgree
    <3>3. QED
      BY <3>1, <3>2
  <2>3. QED
    BY <2>1, <2>2 DEF FinishDelete, Leave, Listed, list
<1>3. QED
  BY <1>1, <1>2

-----------------------------------------------------------------------------
(***************************************************************************)
(* The invariant and what follows from it.                                 *)
(***************************************************************************)
LEMMA InitInvariant == Init => IInv
<1> SUFFICES ASSUME Init PROVE IInv
  OBVIOUS
<1>1. TypeOK
  BY InitType
<1>2. Listed = {} /\ \A m \in Media : ~Stored(m) /\ ~InAdd(m)
  BY DEF Init, Listed, Stored, InAdd, Slot
<1>3. ThreadsAgree /\ PassedIsClean /\ RemovalIsWithin /\ RemovalIsTight
  BY DEF Init, ThreadsAgree, PassedIsClean, RemovalIsWithin, RemovalIsTight, InRemove
<1>4. SlotsAreStored /\ SlotsAreDistinct /\ ListIsTight
  BY <1>2 DEF Init, SlotsAreStored, SlotsAreDistinct, ListIsTight, InAdd
<1>5. OwnMediaIsGoal /\ UnlistedWasStopped /\ EndedIsUnlisted
  BY <1>2 DEF Init, OwnMediaIsGoal, UnlistedWasStopped, EndedIsUnlisted
<1>6. QED
  BY <1>1, <1>3, <1>4, <1>5 DEF IInv

LEMMA NextType ==
  ASSUME TypeOK, ThreadsAgree, RemovalIsWithin, [Next]_vars
  PROVE  TypeOK'
<1>1. CASE UNCHANGED vars
  BY <1>1 DEF vars, list, adds, threads, iterator, TypeOK
<1>2. QED
  BY <1>1, AddType, ThreadType, DeleteType DEF Next

LEMMA NextInvariant == IInv /\ [Next]_vars => IInv'
<1> SUFFICES ASSUME IInv, [Next]_vars PROVE IInv'
  OBVIOUS
<1> USE DEF IInv
<1>1. TypeOK' /\ ThreadsAgree'
  BY NextType, ThreadsAgreeInductive
<1>2. RemovalIsWithin' /\ SlotsAreStored' /\ PassedIsClean'
  BY RemovalWithinInductive, StoredInductive, PassedInductive
<1>3. ASSUME ~overlapped'
      PROVE  /\ SlotsAreDistinct' /\ ListIsTight' /\ RemovalIsTight'
             /\ OwnMediaIsGoal' /\ UnlistedWasStopped' /\ EndedIsUnlisted'
  <2>1. SlotsAreDistinct /\ ListIsTight /\ RemovalIsTight /\ OwnMediaIsGoal
    BY <1>3, OverlapIsKept
  <2>2. SlotsAreDistinct' /\ ListIsTight' /\ RemovalIsTight'
    BY <1>3, <2>1, DistinctInductive, TightInductive, RemovalTightInductive
  <2>3. OwnMediaIsGoal' /\ UnlistedWasStopped' /\ EndedIsUnlisted'
    BY <1>1, <1>3, <2>1, OwnGoalInductive, UnlistedInductive, EndedInductive
  <2>4. QED
    BY <2>2, <2>3
<1>4. overlapped' => UnlistedWasStopped' /\ EndedIsUnlisted'
  BY DEF UnlistedWasStopped, EndedIsUnlisted
<1>5. QED
  BY <1>1, <1>2, <1>3, <1>4

(* IInv holds in every reachable state. *)
THEOREM Invariance == Spec => []IInv
BY InitInvariant, NextInvariant, PTL DEF Spec

(* Every variable keeps its type, for every set of media and every capacity. *)
THEOREM TypeCorrect == Spec => []TypeOK
<1>1. IInv => TypeOK
  BY DEF IInv
<1>2. QED
  BY <1>1, Invariance, PTL

(* Until two updates of the list overlap, a media is listed twice only while *)
(* a removal moves it down, in the slot it leaves and the one below, for any *)
(* number of media and slots (ServerRTSP.java:208, 227).                     *)
THEOREM NeverListedTwice == Spec => []ListedOnce
<1>1. IInv => ListedOnce
  BY DEF IInv, TypeOK, SlotsAreDistinct, ListedOnce, Slot
<1>2. QED
  BY <1>1, Invariance, PTL

(* A deletion that runs to its end has removed every media that was listed *)
(* under its title when it began (ServerRTSP.java:222-229).                *)
THEOREM DeletionIsComplete == Spec => []DeleteComplete
<1>1. IInv => DeleteComplete
  BY PassedImpliesComplete DEF IInv
<1>2. QED
  BY <1>1, Invariance, PTL

(* Until two updates of the list overlap, only stopped media leave the list *)
(* (ServerRTSP.java:226-227, 244-246).                                      *)
THEOREM UnlistedMediaWereStopped == Spec => []UnlistedWasStopped
<1>1. IInv => UnlistedWasStopped
  BY DEF IInv
<1>2. QED
  BY <1>1, Invariance, PTL

(* Until two updates of the list overlap, a stream thread that ran to its   *)
(* end leaves its own media unlisted for good (Media.java:334-336).         *)
THEOREM EndedThreadsAreUnlisted == Spec => []EndedIsUnlisted
<1>1. IInv => EndedIsUnlisted
  BY DEF IInv
<1>2. QED
  BY <1>1, Invariance, PTL

(* Until two updates of the list overlap, media leave the list stopped, and  *)
(* those that have ended do leave it (ServerRTSP.java:225-248,               *)
(* Media.java:334-336).                                                      *)
THEOREM MediaLeaveInOrder == Spec => []UnlistedFits
<1>1. UnlistedWasStopped /\ EndedIsUnlisted => UnlistedFits
  BY DEF UnlistedFits
<1>2. QED
  BY <1>1, UnlistedMediaWereStopped, EndedThreadsAreUnlisted, PTL

(* Until two updates of the list overlap, a step takes at most one media off *)
(* the list: the stopped one of the title being deleted (ServerRTSP.java:225).*)
THEOREM RemovalsAreOfTheTitle == Spec => RemovesOnlyItsTitle
<1>1. ASSUME IInv, [Next]_vars, ~overlapped', NEW m \in Listed \ Listed'
      PROVE  m = cur /\ Matches(m, key) /\ m \in stopped
  <2>1. SlotsAreDistinct /\ ListIsTight /\ RemovalIsTight /\ TypeOK'
    BY <1>1, OverlapIsKept, NextType DEF IInv
  <2>2. InRemove /\ m = cur
    BY <1>1, <2>1, ListedChanges DEF IInv
  <2>3. QED
    BY <1>1, <2>2 DEF InRemove, IInv, ThreadsAgree
<1>2. ASSUME IInv, [Next]_vars
      PROVE  ~overlapped' => \A m \in Listed \ Listed' :
                               m = cur /\ Matches(m, key) /\ m \in stopped
  BY <1>1, <1>2
<1>3. QED
  BY <1>2, Invariance, PTL DEF Spec, RemovesOnlyItsTitle

(***************************************************************************)
(* The registry implements OnAir.                                          *)
(***************************************************************************)
LEMMA InitImplementsOnAir == Init => Registry!Init
BY DEF Init, Registry!Init, Listed, Stored

LEMMA StopIsOfListed ==
  ASSUME IInv, [Next]_vars, ~overlapped', stopped' # stopped
  PROVE  cur \in Listed /\ stopped' = stopped \cup {cur}
         /\ UNCHANGED <<elementData, size, adding, overlapped>>
<1>1. StopPipeline
  BY DEF Next, vars, AddStep, StreamStep, PlayerStep, AddReserve, AddGrow,
         AddStore, AddStream, Launch, StartPlayer, Register, Expire, Play,
         MainReturns, ExpiredDelete, ServletDelete, BeginDelete, DeleteStep,
         FinishDelete, NextThrows, NextMedia, InterruptPlayer, RemoveStep,
         RemoveThrows, RemoveCount, RemoveMove, RemoveRead, RemoveShrink,
         RemoveClear, RemoveResume, Leave
<1>2. ListIsTight
  BY OverlapIsKept DEF IInv
<1>3. cursor \in 1 .. size /\ elementData[cursor] = cur /\ cur # NULL
  BY <1>1, <1>2 DEF StopPipeline, ListIsTight, IInv, TypeOK, ThreadsAgree
<1>4. QED
  BY <1>1, <1>3 DEF StopPipeline, Listed, list, adds

LEMMA NextImplementsOnAir ==
  IInv /\ [Next]_vars => [Registry!Next]_Registry!vars
<1> SUFFICES ASSUME IInv, [Next]_vars
             PROVE  [Registry!Next]_Registry!vars
  OBVIOUS
<1> DEFINE published == {m \in Media : Stored(m)}
<1> USE DEF Registry!Next, Registry!vars
<1>1. CASE overlapped'
  <2>0. TypeOK'
    BY NextType DEF IInv
  <2>1. /\ Listed' \in SUBSET Media
        /\ published' \in SUBSET Media
        /\ stopped' \in SUBSET Media
    BY <2>0 DEF TypeOK, Listed, Slot
  <2>2. QED
    BY <1>1, <2>1 DEF Registry!Disrupt, IInv, TypeOK
<1>2. CASE ~overlapped' /\ stopped' # stopped
  <2>1. cur \in Media /\ Registry!Halt(cur)
    BY <1>2, StopIsOfListed
       DEF Registry!Halt, Listed, Stored, IInv, TypeOK, Slot
  <2>2. QED
    BY <2>1
<1>3. CASE ~overlapped' /\ stopped' = stopped
  <2>1. /\ SlotsAreDistinct /\ ListIsTight /\ RemovalIsTight /\ TypeOK'
        /\ overlapped' = overlapped
    BY <1>3, OverlapIsKept, NextType DEF IInv, TypeOK
  <2>2. CASE Listed' = Listed /\ \A m \in Media : Stored(m)' <=> Stored(m)
    BY <1>3, <2>1, <2>2
  <2>3. ASSUME NEW m \in Media, AddStore(m), Listed' = Listed \cup {m}
        PROVE  Registry!Publish(m)
    BY <1>3, <2>1, <2>3 DEF Registry!Publish, AddStore, Stored, IInv, TypeOK
  <2>4. CASE InRemove /\ Listed' = Listed \ {cur} /\ UNCHANGED <<adding, stopped>>
    <3>1. cur \in Media /\ cur \in stopped
      BY <2>4 DEF InRemove, IInv, TypeOK, ThreadsAgree
    <3>2. CASE cur \in Listed
      <4>1. Registry!Withdraw(cur)
        BY <1>3, <2>1, <2>4, <3>1, <3>2 DEF Registry!Withdraw, Stored
      <4>2. QED
        BY <3>1, <4>1
    <3>3. CASE cur \notin Listed
      <4>1. Listed' = Listed /\ \A m \in Media : Stored(m)' <=> Stored(m)
        BY <2>4, <3>3 DEF Stored
      <4>2. QED
        BY <2>2, <4>1
    <3>4. QED
      BY <3>2, <3>3
  <2>5. QED
    BY <1>3, <2>1, <2>2, <2>3, <2>4, ListedChanges DEF IInv
<1>4. QED
  BY <1>1, <1>2, <1>3

(* The list with its unsynchronised add() and its deletions is, until two   *)
(* updates overlap, the registry OnAir specifies (ServerRTSP.java:207-248). *)
THEOREM RegistryImplementsOnAir == Spec => ImplementsOnAir
BY InitImplementsOnAir, NextImplementsOnAir, Invariance, PTL
   DEF Spec, ImplementsOnAir, Registry!Spec

(***************************************************************************)
(* The readers.                                                            *)
(***************************************************************************)

USE ReaderAssumption DEF ReaderAssumption

(***************************************************************************)
(* The steps of a reader leave the registry alone, the others are steps of *)
(* the registry.                                                           *)
(***************************************************************************)

LEMMA ReaderStepFrame ==
  ASSUME ReaderStep
  PROVE  UNCHANGED vars
BY DEF ReaderStep, BeginRead, TestLoop, GetThrows, GetMedia, TakeThrows, TakeMedia

LEMMA RegistryStepIsNext ==
  ASSUME RegistryStep
  PROVE  Next
BY DEF RegistryStep, Next, AddStep

LEMMA ReaderNextInvariant ==
  ASSUME IInv, [ReaderNext]_<<vars, reader>>
  PROVE  [Next]_vars /\ IInv'
<1>1. [Next]_vars
  BY ReaderStepFrame, RegistryStepIsNext DEF ReaderNext
<1>2. QED
  BY <1>1, NextInvariant

LEMMA ListedHaveSlots ==
  ASSUME TypeOK, NEW m \in Listed
  PROVE  m \in Media /\ m # NULL /\ \E i \in 1 .. size : elementData[i] = m
BY DEF TypeOK, Listed, Slot

-----------------------------------------------------------------------------
(***************************************************************************)
(* The list under a reader's eyes: what a step of the registry may do.     *)
(***************************************************************************)

(* A slot holds what it held, what the next one held as the removal copies  *)
(* it down, nothing, or a media that was not stored before; what was stored *)
(* stays so.                                                                *)
LEMMA SlotsMoveDown ==
  ASSUME TypeOK, ThreadsAgree, RemovalIsWithin, [Next]_vars
  PROVE  /\ \A m \in Media : Stored(m) => Stored(m)'
         /\ \A i \in Slot :
              \/ elementData'[i] = NULL
              \/ elementData'[i] = elementData[i]
              \/ RemoveMove /\ i = hole /\ i + 1 \in Slot
                   /\ elementData'[i] = elementData[i + 1]
              \/ elementData'[i] \in Media /\ ~Stored(elementData'[i])
<1> USE DEF TypeOK, Slot, Stored
<1>1. ASSUME NEW m \in Media, AddReserve(m) \/ AddGrow(m)
      PROVE  elementData' = elementData /\ \A n \in Media : Stored(n) => Stored(n)'
  BY <1>1 DEF AddReserve, AddGrow
<1>2. ASSUME NEW m \in Media, AddStore(m)
      PROVE  /\ \A n \in Media : Stored(n) => Stored(n)'
             /\ ~Stored(m)
             /\ \A i \in Slot : elementData'[i] \in {elementData[i], m}
  BY <1>2 DEF AddStore
<1>3. CASE RemoveCount \/ RemoveMove \/ RemoveShrink \/ RemoveClear
  <2>1. UNCHANGED adding
    BY <1>3, RemovalWrites
  <2>2. ~RemoveMove => \A i \in Slot : elementData'[i] \in {elementData[i], NULL}
    BY <1>3 DEF RemoveCount, RemoveShrink, RemoveClear
  <2>3. RemoveMove => \A i \in Slot :
          \/ elementData'[i] \in {elementData[i], NULL}
          \/ i = hole /\ i + 1 \in Slot /\ elementData'[i] = elementData[i + 1]
    BY RemovalWrites
  <2>4. QED
    BY <2>1, <2>2, <2>3
<1>4. CASE ~ListStep
  BY <1>4, OthersLeaveList DEF list
<1>5. CASE \E m \in Media : AddReserve(m) \/ AddGrow(m)
  BY <1>1, <1>5
<1>6. CASE \E m \in Media : AddStore(m)
  <2>1. PICK m \in Media : AddStore(m)
    BY <1>6
  <2>2. /\ \A n \in Media : Stored(n) => Stored(n)'
        /\ ~Stored(m)
        /\ \A i \in Slot : elementData'[i] \in {elementData[i], m}
    BY <1>2, <2>1
  <2>3. QED
    BY <2>2
<1>7. QED
  BY <1>3, <1>4, <1>5, <1>6 DEF ListStep

(* Unless a removal is under way, a slot holds what it held or a media that *)
(* was not stored before.                                                   *)
LEMMA SlotsStay ==
  ASSUME TypeOK, ThreadsAgree, [Next]_vars, ~InRemove
  PROVE  \A i \in Slot : \/ elementData'[i] = elementData[i]
                         \/ elementData'[i] \in Media /\ ~Stored(elementData'[i])
<1> USE DEF TypeOK, Slot, Stored
<1>1. ASSUME NEW m \in Media, AddReserve(m) \/ AddGrow(m)
      PROVE  elementData' = elementData
  BY <1>1 DEF AddReserve, AddGrow
<1>2. ASSUME NEW m \in Media, AddStore(m)
      PROVE  ~Stored(m) /\ \A i \in Slot : elementData'[i] \in {elementData[i], m}
  BY <1>2 DEF AddStore
<1>3. CASE RemoveCount
  BY <1>3 DEF RemoveCount
<1>4. ~RemoveMove /\ ~RemoveShrink /\ ~RemoveClear
  BY DEF RemoveMove, RemoveShrink, RemoveClear, InRemove
<1>5. CASE ~ListStep
  BY <1>5, OthersLeaveList DEF list
<1>6. CASE \E m \in Media : AddStore(m)
  <2>1. PICK m \in Media : AddStore(m)
    BY <1>6
  <2>2. ~Stored(m) /\ \A i \in Slot : elementData'[i] \in {elementData[i], m}
    BY <1>2, <2>1
  <2>3. QED
    BY <2>2
<1>7. QED
  BY <1>1, <1>3, <1>4, <1>5, <1>6 DEF ListStep

(* The modification count only grows, and a removal that begins counts. *)
LEMMA ModCountGrows ==
  ASSUME TypeOK, [Next]_vars
  PROVE  modCount <= modCount' /\ (InRemove' => InRemove \/ modCount < modCount')
<1> USE DEF InRemove
<1>1. ASSUME NEW m \in Media, AddReserve(m) \/ AddGrow(m) \/ AddStore(m)
      PROVE  modCount <= modCount' /\ InRemove' = InRemove
  BY <1>1 DEF AddReserve, AddGrow, AddStore, TypeOK, iterator
<1>2. CASE RemoveCount
  BY <1>2 DEF RemoveCount, TypeOK
<1>3. CASE RemoveMove \/ RemoveShrink \/ RemoveClear
  BY <1>3 DEF RemoveMove, RemoveShrink, RemoveClear, TypeOK
<1>4. CASE ~ListStep
  <2>1. modCount' = modCount
    BY <1>4, OthersLeaveList DEF list
  <2>2. InRemove' => InRemove
    BY <1>4 DEF Next, vars, AddStep, StreamStep, PlayerStep, AddStream, Launch,
                StartPlayer, Register, Expire, Play, MainReturns, ExpiredDelete,
                ServletDelete, BeginDelete, DeleteStep, FinishDelete, NextThrows,
                NextMedia, StopPipeline, InterruptPlayer, RemoveThrows, RemoveStep,
                RemoveRead, RemoveResume, Leave, iterator, ListStep
  <2>3. QED
    BY <2>1, <2>2 DEF TypeOK
<1>5. QED
  BY <1>1, <1>2, <1>3, <1>4 DEF ListStep

(* Until updates overlap, only a removal makes the list shorter. *)
LEMMA OnlyRemovalShrinks ==
  ASSUME TypeOK, ThreadsAgree, RemovalIsWithin, ListIsTight, RemovalIsTight,
         [Next]_vars, ~overlapped', ~InRemove
  PROVE  size <= size'
<1> USE DEF TypeOK
<1>1. ASSUME NEW m \in Media, AddGrow(m)
      PROVE  size <= size'
  BY <1>1 DEF AddGrow, ListIsTight
<1>2. ASSUME NEW m \in Media, AddReserve(m) \/ AddStore(m)
      PROVE  size <= size'
  BY <1>2 DEF AddReserve, AddStore
<1>3. CASE RemoveCount
  BY <1>3 DEF RemoveCount
<1>4. ~RemoveMove /\ ~RemoveShrink /\ ~RemoveClear
  BY DEF RemoveMove, RemoveShrink, RemoveClear, InRemove
<1>5. CASE ~ListStep
  BY <1>5, OthersLeaveList DEF list
<1>6. QED
  BY <1>1, <1>2, <1>3, <1>4, <1>5 DEF ListStep

-----------------------------------------------------------------------------
(***************************************************************************)
(* The parts of ReaderInv, one step of the reader or of the registry at a  *)
(* time.                                                                   *)
(***************************************************************************)

(* The media a reader takes is the one in the slot, and is counted. *)
LEMMA TakeReads ==
  ASSUME TypeOK, ReaderTypeOK, HistoryFits, TakeMedia
  PROVE  /\ at + 1 \in Slot /\ elementData[at + 1] \in Media
         /\ at' = at + 1 /\ step = "take" /\ step' \in {"found", "test"}
         /\ \A n \in Media : seen'[n] = IF n = elementData[at + 1] THEN seen[n] + 1
                                                                 ELSE seen[n]
         /\ UNCHANGED <<vars, request, expects, history>>
<1>1. at + 1 \in Slot /\ elementData[at + 1] \in Media
  BY DEF TypeOK, HistoryFits, TakeMedia
<1>2. seen' = [seen EXCEPT ![elementData[at + 1]] = @ + 1]
      /\ step' \in {"found", "test"}
  BY DEF TakeMedia
<1>3. QED
  BY <1>1, <1>2 DEF TakeMedia, ReaderTypeOK

LEMMA ReaderTypes ==
  ASSUME TypeOK, ReaderTypeOK, HistoryFits, [ReaderNext]_<<vars, reader>>
  PROVE  ReaderTypeOK'
<1> USE DEF TypeOK, ReaderTypeOK, history
<1>1. ASSUME NEW q \in Request, BeginRead(q)
      PROVE  ReaderTypeOK'
  <2>1. Listed \subseteq Media
    BY DEF Listed, Slot
  <2>2. seen' \in [Media -> Nat]
    BY <1>1 DEF BeginRead
  <2>3. request' \in Request /\ step' = "test" /\ at' \in 0 .. Capacity
    BY <1>1 DEF BeginRead
  <2>4. /\ expects' \in Nat /\ throughout' \in SUBSET Media
        /\ midway' \in BOOLEAN /\ disturbed' \in BOOLEAN
    BY <1>1, <2>1 DEF BeginRead, InRemove
  <2>5. QED
    BY <2>2, <2>3, <2>4
<1>2. CASE TestLoop
  BY <1>2 DEF TestLoop
<1>3. CASE GetThrows \/ GetMedia
  BY <1>3 DEF GetThrows, GetMedia
<1>4. CASE TakeThrows
  BY <1>4 DEF TakeThrows
<1>5. CASE TakeMedia
  <2>1. at' \in 0 .. Capacity /\ step' \in {"found", "test"}
        /\ UNCHANGED <<request, expects, history>>
    BY <1>5, TakeReads DEF Slot
  <2>2. seen' \in [Media -> Nat]
    BY <1>5, TakeReads DEF TakeMedia
  <2>3. QED
    BY <2>1, <2>2
<1>6. CASE RegistryStep
  BY <1>6 DEF RegistryStep, InRemove
<1>7. CASE UNCHANGED reader
  BY <1>7 DEF reader
<1>8. QED
  BY <1>1, <1>2, <1>3, <1>4, <1>5, <1>6, <1>7 DEF ReaderNext, ReaderStep

LEMMA HistoryInductive ==
  ASSUME IInv, ReaderTypeOK, HistoryFits, [ReaderNext]_<<vars, reader>>
  PROVE  HistoryFits'
<1> USE DEF ReaderTypeOK, HistoryFits, Reading, history
<1>0. TypeOK
  BY DEF IInv
<1>1. ASSUME NEW q \in Request, BeginRead(q)
      PROVE  HistoryFits'
  <2>1. /\ step' = "test" /\ expects' = modCount /\ modCount' = modCount
        /\ (midway' <=> InRemove) /\ (disturbed' <=> InRemove) /\ (InRemove' <=> InRemove)
    BY <1>1 DEF BeginRead, vars, list, iterator, InRemove
  <2>2. modCount <= modCount
    BY <1>0 DEF TypeOK
  <2>3. QED
    BY <2>1, <2>2
<1>2. ASSUME UNCHANGED <<vars, expects, history>>, Reading' => Reading,
             step' = "take" => at' + 1 \in Slot
      PROVE  HistoryFits'
  BY <1>2 DEF vars, list, iterator, InRemove
<1>3. CASE TestLoop \/ GetThrows \/ TakeThrows
  BY <1>2, <1>3 DEF TestLoop, GetThrows, TakeThrows
<1>4. CASE GetMedia
  BY <1>0, <1>2, <1>4 DEF GetMedia, TypeOK, Slot
<1>5. CASE TakeMedia
  BY <1>0, <1>2, <1>5, TakeReads
<1>6. CASE RegistryStep
  <2>1. /\ UNCHANGED <<step, at, expects, midway>>
        /\ disturbed' = (disturbed \/ (Reading /\ InRemove'))
    BY <1>6 DEF RegistryStep
  <2>2. [Next]_vars
    BY <1>6, RegistryStepIsNext
  <2>3. modCount <= modCount' /\ (InRemove' => InRemove \/ modCount < modCount')
    BY <1>0, <2>2, ModCountGrows
  <2>4. modCount \in Nat /\ modCount' \in Nat
    BY <2>2, NextInvariant DEF IInv, TypeOK
  <2>5. ~overlapped' => ~overlapped
    BY <1>0, <2>2, OverlapIsKept
  <2>6. ASSUME Reading, disturbed', ~midway, ~overlapped'
        PROVE  expects < modCount'
    <3>1. CASE disturbed
      BY <2>3, <2>4, <2>5, <2>6, <3>1
    <3>2. CASE ~disturbed
      BY <2>1, <2>3, <2>4, <2>6, <3>2
    <3>3. QED
      BY <3>1, <3>2
  <2>7. Reading /\ InRemove' => disturbed'
    BY <2>1
  <2>8. midway => disturbed'
    BY <2>1
  <2>9. expects <= modCount'
    BY <2>3, <2>4, <1>0 DEF TypeOK
  <2>10. QED
    BY <2>1, <2>6, <2>7, <2>8, <2>9
<1>7. CASE UNCHANGED <<vars, reader>>
  BY <1>2, <1>7 DEF reader
<1>8. QED
  BY <1>1, <1>3, <1>4, <1>5, <1>6, <1>7 DEF ReaderNext, ReaderStep

(* What the reader has been given is ahead of it in the slot remove() has *)
(* just copied down, or not at all.                                       *)
LEMMA SeenIsBehindInductive ==
  ASSUME IInv, ReaderTypeOK, HistoryFits, SeenIsBehind, ~overlapped, ~overlapped',
         [ReaderNext]_<<vars, reader>>
  PROVE  SeenIsBehind'
<1> USE DEF ReaderTypeOK, SeenIsBehind, Reading
<1>0. TypeOK /\ ThreadsAgree /\ RemovalIsWithin /\ SlotsAreStored /\ SlotsAreDistinct
  BY DEF IInv
<1>1. ASSUME NEW q \in Request, BeginRead(q)
      PROVE  SeenIsBehind'
  BY <1>1 DEF BeginRead
<1>2. ASSUME UNCHANGED <<vars, at, seen>>, Reading' => Reading
      PROVE  SeenIsBehind'
  BY <1>2 DEF vars, list, adds, iterator, Stored
<1>3. CASE TestLoop \/ GetThrows \/ GetMedia \/ TakeThrows
  BY <1>2, <1>3 DEF TestLoop, GetThrows, GetMedia, TakeThrows
<1>4. CASE TakeMedia
  <2>1. /\ at + 1 \in Slot /\ at' = at + 1 /\ Reading /\ at \in Nat
        /\ UNCHANGED <<elementData, adding, hole>>
    BY <1>0, <1>4, TakeReads DEF vars, list, adds, iterator
  <2>2. PICK m \in Media : m = elementData[at + 1]
    BY <1>0, <1>4, TakeReads
  <2>3. \A n \in Media : seen'[n] = IF n = m THEN seen[n] + 1 ELSE seen[n]
    BY <1>0, <1>4, <2>2, TakeReads
  <2>4. m # NULL /\ Stored(m)
    BY <1>0, <2>1, <2>2 DEF SlotsAreStored
  <2>5. ASSUME NEW i \in Slot, i > at + 1, elementData[i] = m
        PROVE  i = hole /\ at + 2 = hole
    BY <1>0, <2>1, <2>2, <2>4, <2>5 DEF SlotsAreDistinct
  <2>6. ASSUME NEW i \in Slot, i > at + 1, elementData[i] = m
        PROVE  seen'[m] = 1
    <3>1. hole # at + 1
      BY <2>1, <2>5, <2>6
    <3>2. ~(seen[m] > 0)
      BY <2>1, <2>2, <3>1
    <3>3. QED
      BY <2>3, <3>2
  <2>7. ASSUME NEW n \in Media, seen'[n] > 0
        PROVE  /\ Stored(n)'
               /\ \A i \in Slot : i > at' /\ elementData'[i] = n =>
                    i = hole' /\ at' + 1 = hole' /\ seen'[n] = 1
    <3>1. CASE n = m
      BY <2>1, <2>4, <2>5, <2>6, <3>1 DEF Stored
    <3>2. CASE n # m
      <4>1. Stored(n) /\ \A i \in Slot : i > at /\ elementData[i] = n =>
                            i = hole /\ at + 1 = hole
        BY <2>1, <2>3, <2>7, <3>2
      <4>2. ~\E i \in Slot : i > at + 1 /\ elementData[i] = n
        BY <2>1, <4>1 DEF Slot
      <4>3. QED
        BY <2>1, <4>1, <4>2 DEF Stored
    <3>3. QED
      BY <3>1, <3>2
  <2>8. QED
    BY <2>7
<1>5. CASE RegistryStep
  <2>1. UNCHANGED <<step, at, seen>>
    BY <1>5 DEF RegistryStep
  <2>2. [Next]_vars
    BY <1>5, RegistryStepIsNext
  <2>3. ASSUME Reading, NEW m \in Media, seen[m] > 0
        PROVE  /\ Stored(m)'
               /\ \A i \in Slot : i > at /\ elementData'[i] = m =>
                    i = hole' /\ at + 1 = hole' /\ seen[m] = 1
    <3>1. Stored(m)
      BY <2>3
    <3>2. \A i \in Slot : i > at /\ elementData[i] = m =>
            i = hole /\ at + 1 = hole /\ seen[m] = 1
      BY <2>3
    <3>3. m # NULL /\ Stored(m)'
      BY <1>0, <2>2, <3>1, SlotsMoveDown
    <3>4. ASSUME NEW i \in Slot, i > at, elementData'[i] = m
          PROVE  i = hole' /\ at + 1 = hole' /\ seen[m] = 1
      <4>1. CASE RemoveMove
        <5>1. i # hole /\ elementData[i] = m
          <6>1. hole + 1 \in Slot /\ hole \in Slot /\ elementData' =
                  [elementData EXCEPT ![hole] = elementData[hole + 1]]
            BY <1>0, <4>1 DEF RemoveMove, RemovalIsWithin, InRemove, TypeOK, Slot,
                              ThreadsAgree
          <6>2. i = hole => elementData[hole + 1] = m
            BY <1>0, <3>4, <6>1 DEF TypeOK
          <6>3. i = hole => hole + 1 > at /\ hole + 1 # hole
            BY <3>4, <6>1 DEF Slot
          <6>4. i # hole
            BY <3>2, <6>1, <6>2, <6>3
          <6>5. QED
            BY <1>0, <3>4, <6>1, <6>4 DEF TypeOK
        <5>2. QED
          BY <3>2, <3>4, <5>1
      <4>2. CASE ~RemoveMove
        <5>1. elementData'[i] = elementData[i]
          BY <1>0, <2>2, <3>1, <3>3, <3>4, <4>2, SlotsMoveDown
        <5>2. i = hole /\ at + 1 = hole /\ seen[m] = 1
          BY <3>2, <3>4, <5>1
        <5>3. hole' = hole
          <6>1. hole # 0 /\ InRemove
            BY <1>0, <5>2 DEF Slot, RemovalIsWithin
          <6>2. ~RemoveCount
            BY <6>1 DEF RemoveCount, InRemove
          <6>3. RemoveClear => elementData'[hole] = NULL
            <7>1. RemovalIsTight
              BY DEF IInv
            <7>2. QED
              BY <1>0, <5>2, <7>1 DEF RemoveClear, RemovalIsTight, InRemove, TypeOK
          <6>4. ~RemoveClear
            BY <3>3, <3>4, <5>2, <6>3
          <6>5. CASE RemoveRead \/ RemoveShrink
            BY <6>5 DEF RemoveRead, RemoveShrink
          <6>6. CASE ~RemovalWork
            BY <1>0, <2>2, <6>6, RemovalIsKept
          <6>7. QED
            BY <4>2, <6>2, <6>4, <6>5, <6>6 DEF RemovalWork
        <5>4. QED
          BY <5>2, <5>3
      <4>3. QED
        BY <4>1, <4>2
    <3>5. QED
      BY <3>3, <3>4
  <2>4. QED
    BY <2>1, <2>3
<1>6. CASE UNCHANGED <<vars, reader>>
  BY <1>2, <1>6 DEF reader
<1>7. QED
  BY <1>1, <1>3, <1>4, <1>5, <1>6 DEF ReaderNext, ReaderStep

(* An iterator made between removals is refused at its next check once a *)
(* removal has begun.                                                    *)
LEMMA IteratorInductive ==
  ASSUME IInv, ReaderTypeOK, HistoryFits, SeenIsBehind, IteratorIsAhead,
         ~overlapped, ~overlapped', [ReaderNext]_<<vars, reader>>
  PROVE  IteratorIsAhead'
<1> USE DEF ReaderTypeOK, IteratorIsAhead, Reading, history
<1>0. TypeOK /\ ThreadsAgree /\ RemovalIsWithin /\ SlotsAreStored /\ SlotsAreDistinct
  BY DEF IInv
<1>1. ASSUME NEW q \in Request, BeginRead(q)
      PROVE  IteratorIsAhead'
  BY <1>1 DEF BeginRead
<1>2. ASSUME UNCHANGED <<elementData, request, at, seen, history>>,
             step' = "take" \/ (Reading' /\ ~disturbed) =>
               step = "take" \/ (Reading /\ ~disturbed)
      PROVE  IteratorIsAhead'
  BY <1>2
<1>3. CASE TestLoop \/ GetThrows \/ TakeThrows
  BY <1>2, <1>3 DEF TestLoop, GetThrows, TakeThrows, vars, list
<1>4. CASE GetMedia
  <2>1. request # Page /\ ~midway => ~disturbed
    BY <1>0, <1>4 DEF GetMedia, HistoryFits, TypeOK
  <2>2. QED
    BY <1>4, <2>1 DEF GetMedia, vars, list
<1>5. CASE TakeMedia
  <2>1. SUFFICES ASSUME request # Page, ~midway
                 PROVE  /\ \A n \in Media : seen'[n] <= 1
                        /\ Reading' /\ ~disturbed => \A n \in Media : seen'[n] > 0 =>
                             \A i \in Slot : i > at' => elementData'[i] # n
    BY <1>0, <1>5, TakeReads
  <2>2. /\ at + 1 \in Slot /\ at' = at + 1 /\ at \in Nat /\ UNCHANGED elementData
        /\ step = "take"
    BY <1>0, <1>5, TakeReads DEF vars, list
  <2>3. PICK m \in Media : m = elementData[at + 1]
    BY <1>0, <1>5, TakeReads
  <2>4. \A n \in Media : seen'[n] = IF n = m THEN seen[n] + 1 ELSE seen[n]
    BY <1>0, <1>5, <2>3, TakeReads
  <2>5. \A n \in Media : seen[n] > 0 => \A i \in Slot : i > at => elementData[i] # n
    BY <2>1, <2>2
  <2>6. seen[m] = 0
    BY <2>2, <2>3, <2>5
  <2>7. \A n \in Media : seen'[n] <= 1
    BY <2>1, <2>4, <2>6
  <2>8. ASSUME ~disturbed, NEW n \in Media, seen'[n] > 0, NEW i \in Slot, i > at + 1
        PROVE  elementData[i] # n
    <3>1. hole = 0
      BY <1>0, <2>2, <2>8 DEF HistoryFits, RemovalIsWithin, TypeOK
    <3>2. elementData[i] # m
      BY <1>0, <2>2, <2>3, <2>8, <3>1 DEF SlotsAreDistinct, Slot
    <3>3. n # m => elementData[i] # n
      BY <2>2, <2>4, <2>5, <2>8 DEF Slot
    <3>4. QED
      BY <3>2, <3>3
  <2>9. QED
    BY <2>2, <2>7, <2>8
<1>6. CASE RegistryStep
  <2>1. /\ UNCHANGED <<request, step, at, seen, midway>>
        /\ disturbed' = (disturbed \/ (Reading /\ InRemove'))
    BY <1>6 DEF RegistryStep
  <2>2. [Next]_vars
    BY <1>6, RegistryStepIsNext
  <2>3. ASSUME NEW m \in Media, seen[m] > 0, Reading,
               \A i \in Slot : i > at => elementData[i] # m,
               NEW i \in Slot, i > at
        PROVE  elementData'[i] # m
    <3>1. Stored(m)
      BY <2>3 DEF SeenIsBehind
    <3>2. i + 1 \in Slot => i + 1 > at
      BY <2>3 DEF Slot
    <3>3. QED
      BY <1>0, <2>2, <2>3, <3>1, <3>2, SlotsMoveDown
  <2>4. QED
    BY <2>1, <2>3
<1>7. CASE UNCHANGED <<vars, reader>>
  BY <1>2, <1>7 DEF reader, vars, list
<1>8. QED
  BY <1>1, <1>3, <1>4, <1>5, <1>6, <1>7 DEF ReaderNext, ReaderStep

LEMMA NothingTwiceInductive ==
  ASSUME IInv, ReaderTypeOK, HistoryFits, SeenIsBehind, IteratorIsAhead,
         NothingIsReadTwice, ~overlapped, ~overlapped', [ReaderNext]_<<vars, reader>>
  PROVE  NothingIsReadTwice'
<1> USE DEF ReaderTypeOK, NothingIsReadTwice, history
<1>0. TypeOK /\ RemovalIsWithin
  BY DEF IInv
<1>1. ASSUME NEW q \in Request, BeginRead(q)
      PROVE  NothingIsReadTwice'
  BY <1>1 DEF BeginRead
<1>2. ASSUME UNCHANGED <<request, seen, midway>>, disturbed => disturbed'
      PROVE  NothingIsReadTwice'
  BY <1>2
<1>3. CASE TestLoop \/ GetThrows \/ GetMedia \/ TakeThrows
  BY <1>2, <1>3 DEF TestLoop, GetThrows, GetMedia, TakeThrows
<1>4. CASE TakeMedia
  <2>1. /\ at + 1 \in Slot /\ at \in Nat /\ step = "take" /\ Reading
        /\ UNCHANGED <<request, midway, disturbed>>
    BY <1>0, <1>4, TakeReads DEF Reading
  <2>2. PICK m \in Media : m = elementData[at + 1]
    BY <1>0, <1>4, TakeReads
  <2>3. \A n \in Media : seen'[n] = IF n = m THEN seen[n] + 1 ELSE seen[n]
    BY <1>0, <1>4, <2>2, TakeReads
  <2>4. seen[m] > 0 => at + 1 = hole /\ seen[m] = 1
    BY <2>1, <2>2 DEF SeenIsBehind
  <2>5. seen[m] > 0 => disturbed
    BY <1>0, <2>1, <2>4 DEF HistoryFits, RemovalIsWithin
  <2>6. seen[m] > 0 /\ request # Page => midway
    BY <2>1, <2>2 DEF IteratorIsAhead
  <2>7. ASSUME NEW n \in Media
        PROVE  seen'[n] <= 2 /\ (seen'[n] = 2 => IF request = Page THEN disturbed
                                                                  ELSE midway)
    <3>1. CASE n # m
      BY <2>3, <3>1
    <3>2. CASE n = m /\ seen[m] > 0
      BY <2>3, <2>4, <2>5, <2>6, <3>2
    <3>3. CASE n = m /\ ~(seen[m] > 0)
      BY <2>3, <3>3
    <3>4. QED
      BY <3>1, <3>2, <3>3
  <2>8. QED
    BY <2>1, <2>7
<1>5. CASE RegistryStep
  BY <1>2, <1>5 DEF RegistryStep
<1>6. CASE UNCHANGED reader
  BY <1>2, <1>6 DEF reader
<1>7. QED
  BY <1>1, <1>3, <1>4, <1>5, <1>6 DEF ReaderNext, ReaderStep

LEMMA UnseenIsAheadInductive ==
  ASSUME IInv, ReaderTypeOK, HistoryFits, UnseenIsAhead, MissesOnlyOnRemoval,
         [ReaderNext]_<<vars, reader>>
  PROVE  UnseenIsAhead' /\ MissesOnlyOnRemoval'
<1> USE DEF ReaderTypeOK, UnseenIsAhead, MissesOnlyOnRemoval, Reading, history
<1>0. TypeOK /\ ThreadsAgree /\ SlotsAreStored /\ size \in 0 .. Capacity
  BY DEF IInv, TypeOK
<1>1. ASSUME NEW q \in Request, BeginRead(q)
      PROVE  UnseenIsAhead' /\ MissesOnlyOnRemoval'
  <2>1. step' = "test" /\ at' = 0 /\ throughout' = Listed
        /\ UNCHANGED <<elementData, size>>
    BY <1>1 DEF BeginRead, vars, list
  <2>2. ASSUME NEW m \in Listed
        PROVE  \E i \in at' + 1 .. size' : elementData'[i] = m
    <3>1. PICK i \in 1 .. size : elementData[i] = m
      BY <1>0, ListedHaveSlots
    <3>2. i \in at' + 1 .. size' /\ elementData'[i] = m
      BY <2>1, <3>1
    <3>3. QED
      BY <3>2
  <2>3. 1 .. at' = {}
    BY <2>1
  <2>4. QED
    BY <2>1, <2>2, <2>3
<1>2. CASE TestLoop
  <2>1. UNCHANGED <<elementData, size, at, seen, throughout, disturbed>>
        /\ step = "test" /\ step' \in {"get", "end"}
        /\ (step' = "end" => at >= size)
    BY <1>0, <1>2 DEF TestLoop, vars, list
  <2>2. UnseenIsAhead'
    BY <2>1
  <2>3. step' = "end" => at + 1 .. size = {}
    BY <1>0, <2>1
  <2>4. MissesOnlyOnRemoval'
    BY <2>1, <2>3
  <2>5. QED
    BY <2>2, <2>4
<1>3. CASE GetThrows \/ GetMedia \/ TakeThrows
  <2>1. /\ UNCHANGED <<elementData, size, at, seen, throughout, disturbed>>
        /\ Reading /\ step' # "end"
    BY <1>3 DEF GetThrows, GetMedia, TakeThrows, vars, list
  <2>2. QED
    BY <2>1
<1>4. CASE TakeMedia
  <2>1. /\ UNCHANGED <<elementData, size, throughout, disturbed>>
        /\ at' = at + 1 /\ Reading /\ step' # "end"
    BY <1>0, <1>4, TakeReads DEF vars, list
  <2>2. PICK m \in Media : m = elementData[at + 1]
    BY <1>0, <1>4, TakeReads
  <2>3. \A n \in Media : seen'[n] = IF n = m THEN seen[n] + 1 ELSE seen[n]
    BY <1>0, <1>4, <2>2, TakeReads
  <2>4. ASSUME ~disturbed, NEW n \in throughout
        PROVE  \/ seen'[n] > 0
               \/ /\ \E i \in at' + 1 .. size : elementData[i] = n
                  /\ \A i \in 1 .. at' : elementData[i] # n
    <3>1. CASE seen[n] > 0
      BY <2>3, <3>1
    <3>2. CASE n = m
      BY <2>3, <3>2
    <3>3. CASE ~(seen[n] > 0) /\ n # m
      <4>1. PICK i \in at + 1 .. size : elementData[i] = n
        BY <2>1, <2>4, <3>3
      <4>2. i \in at' + 1 .. size
        BY <1>0, <2>1, <2>2, <3>3, <4>1
      <4>3. ASSUME NEW j \in 1 .. at'
            PROVE  elementData[j] # n
        <5>1. CASE j = at + 1
          BY <2>2, <3>3, <5>1
        <5>2. CASE j \in 1 .. at
          BY <2>1, <2>4, <3>3, <5>2
        <5>3. QED
          BY <2>1, <4>3, <5>1, <5>2
      <4>4. QED
        BY <4>1, <4>2, <4>3
    <3>4. QED
      BY <3>1, <3>2, <3>3
  <2>5. QED
    BY <2>1, <2>4
<1>5. CASE RegistryStep
  <2>1. /\ UNCHANGED <<step, at, seen>>
        /\ throughout' = IF Reading THEN throughout \cap Listed' ELSE throughout
        /\ disturbed' = (disturbed \/ (Reading /\ InRemove'))
    BY <1>5 DEF RegistryStep
  <2>2. [Next]_vars
    BY <1>5, RegistryStepIsNext
  <2>3. TypeOK'
    BY <2>2, NextInvariant DEF IInv
  <2>4. ASSUME Reading, ~disturbed', NEW m \in throughout', ~(seen[m] > 0)
        PROVE  /\ \E i \in at + 1 .. size' : elementData'[i] = m
               /\ \A i \in 1 .. at : elementData'[i] # m
    <3>1. ~disturbed /\ ~InRemove /\ m \in throughout /\ m \in Listed'
      BY <2>1, <2>4 DEF HistoryFits
    <3>2. /\ \E i \in at + 1 .. size : elementData[i] = m
          /\ \A i \in 1 .. at : elementData[i] # m
      BY <2>4, <3>1
    <3>3. Stored(m) /\ m \in Media /\ m # NULL
      <4>1. m \in Media
        BY <3>1
      <4>2. QED
        BY <1>0, <3>2, <4>1 DEF SlotsAreStored, Slot
    <3>4. \A i \in Slot : elementData'[i] = m => elementData[i] = m
      BY <1>0, <2>2, <3>1, <3>3, SlotsStay
    <3>5. \A i \in 1 .. at : elementData'[i] # m
      BY <3>2, <3>4 DEF Slot
    <3>6. PICK j \in 1 .. size' : elementData'[j] = m
      BY <3>1 DEF Listed
    <3>7. j \in at + 1 .. size'
      BY <2>3, <3>5, <3>6 DEF TypeOK
    <3>8. QED
      BY <3>5, <3>6, <3>7
  <2>5. UnseenIsAhead'
    BY <2>1, <2>4
  <2>6. MissesOnlyOnRemoval'
    BY <2>1
  <2>7. QED
    BY <2>5, <2>6
<1>6. CASE UNCHANGED <<vars, reader>>
  BY <1>6 DEF reader, vars, list
<1>7. QED
  BY <1>1, <1>2, <1>3, <1>4, <1>5, <1>6 DEF ReaderNext, ReaderStep

LEMMA ReaderIsWithinInductive ==
  ASSUME IInv, ReaderTypeOK, HistoryFits, ReaderIsWithin, ~overlapped, ~overlapped',
         [ReaderNext]_<<vars, reader>>
  PROVE  ReaderIsWithin'
<1> USE DEF ReaderTypeOK, ReaderIsWithin, Reading, history
<1>0. TypeOK /\ ThreadsAgree /\ RemovalIsWithin /\ ListIsTight /\ RemovalIsTight
      /\ size \in 0 .. Capacity
  BY DEF IInv, TypeOK
<1>1. ASSUME NEW q \in Request, BeginRead(q)
      PROVE  ReaderIsWithin'
  BY <1>0, <1>1 DEF BeginRead, vars, list
<1>2. CASE TestLoop
  BY <1>0, <1>2 DEF TestLoop, vars, list
<1>3. CASE GetThrows \/ GetMedia \/ TakeThrows
  BY <1>3 DEF GetThrows, GetMedia, TakeThrows, vars, list
<1>4. CASE TakeMedia
  <2>1. at' = at + 1 /\ step = "take" /\ UNCHANGED <<size, disturbed>>
        /\ step' \in {"found", "test"}
    BY <1>0, <1>4, TakeReads DEF vars, list
  <2>2. QED
    BY <1>0, <2>1
<1>5. CASE RegistryStep
  <2>1. /\ UNCHANGED <<step, at>>
        /\ disturbed' = (disturbed \/ (Reading /\ InRemove'))
    BY <1>5 DEF RegistryStep
  <2>2. [Next]_vars
    BY <1>5, RegistryStepIsNext
  <2>3. ~InRemove => size <= size'
    BY <1>0, <2>2, OnlyRemovalShrinks
  <2>4. size' \in 0 .. Capacity
    BY <2>2, NextInvariant DEF IInv, TypeOK
  <2>5. Reading /\ ~disturbed => ~InRemove
    BY DEF HistoryFits
  <2>6. QED
    BY <1>0, <2>1, <2>3, <2>4, <2>5
<1>6. CASE UNCHANGED <<vars, reader>>
  BY <1>6 DEF reader, vars, list
<1>7. QED
  BY <1>1, <1>2, <1>3, <1>4, <1>5, <1>6 DEF ReaderNext, ReaderStep

-----------------------------------------------------------------------------
(***************************************************************************)
(* The invariant and what follows from it.                                 *)
(***************************************************************************)

LEMMA ReaderInitInvariant == ReaderInit => IInv /\ ReaderInv
<1> SUFFICES ASSUME ReaderInit PROVE IInv /\ ReaderInv
  OBVIOUS
<1>1. IInv
  BY InitInvariant DEF ReaderInit
<1>2. ReaderTypeOK
  <2>1. seen \in [Media -> Nat]
    BY DEF ReaderInit
  <2>2. request \in Request /\ step = "idle" /\ at \in 0 .. Capacity
    BY DEF ReaderInit, Request
  <2>3. expects \in Nat /\ throughout \in SUBSET Media
        /\ midway \in BOOLEAN /\ disturbed \in BOOLEAN
    BY DEF ReaderInit
  <2>4. QED
    BY <2>1, <2>2, <2>3 DEF ReaderTypeOK
<1>3. HistoryFits /\ SeenIsBehind /\ UnseenIsAhead /\ MissesOnlyOnRemoval
      /\ ReaderIsWithin
  BY DEF ReaderInit, Init, HistoryFits, SeenIsBehind, UnseenIsAhead,
         MissesOnlyOnRemoval, ReaderIsWithin, Reading
<1>4. IteratorIsAhead /\ NothingIsReadTwice
  BY DEF ReaderInit, IteratorIsAhead, NothingIsReadTwice, Reading
<1>5. QED
  BY <1>1, <1>2, <1>3, <1>4 DEF ReaderInv

LEMMA ReaderNextKeepsInv ==
  IInv /\ ReaderInv /\ [ReaderNext]_<<vars, reader>> => IInv' /\ ReaderInv'
<1> SUFFICES ASSUME IInv, ReaderInv, [ReaderNext]_<<vars, reader>>
             PROVE  IInv' /\ ReaderInv'
  OBVIOUS
<1>1. IInv' /\ (~overlapped' => ~overlapped)
  BY ReaderNextInvariant, OverlapIsKept DEF IInv
<1>2. ReaderTypeOK'
  BY ReaderTypes DEF ReaderInv, IInv
<1>3. HistoryFits' /\ UnseenIsAhead' /\ MissesOnlyOnRemoval'
  BY HistoryInductive, UnseenIsAheadInductive DEF ReaderInv
<1>4. ASSUME ~overlapped'
      PROVE  SeenIsBehind' /\ IteratorIsAhead' /\ ReaderIsWithin' /\ NothingIsReadTwice'
  BY <1>1, <1>4, SeenIsBehindInductive, IteratorInductive, ReaderIsWithinInductive,
     NothingTwiceInductive DEF ReaderInv
<1>5. QED
  BY <1>1, <1>2, <1>3, <1>4 DEF ReaderInv

(* IInv and ReaderInv hold in every reachable state of a reader's run. *)
THEOREM ReaderInvariance == ReaderSpec => [](IInv /\ ReaderInv)
BY ReaderInitInvariant, ReaderNextKeepsInv, PTL DEF ReaderSpec

(* Whatever a reader of the list does not lock out, it gets what the list   *)
(* held: nothing is missed without a removal; until updates overlap nothing *)
(* comes three times, and twice only what a removal moves meanwhile; and a  *)
(* list at rest can be read (ServerRTSP.java:258-269, Admin.jsp:178-213).   *)
THEOREM ReadersAreServed == ReaderSpec => []LookupsFit
<1>1. ASSUME IInv, ReaderInv
      PROVE  LookupsFit
  <2>1. NothingIsReadTwice
    BY <1>1 DEF ReaderInv, NothingIsReadTwice
  <2>2. RestIsReadable
    <3>1. SUFFICES ASSUME step \in {"get", "take"}, ~overlapped, ~disturbed,
                          \A m \in Media : adding[m] # "grown"
                   PROVE  at < size /\ elementData[at + 1] # NULL
      BY DEF RestIsReadable
    <3>2. at < size /\ at + 1 \in 1 .. size
      BY <1>1, <3>1 DEF ReaderInv, ReaderIsWithin, Reading, IInv, TypeOK, ReaderTypeOK
    <3>3. QED
      BY <1>1, <3>1, <3>2 DEF IInv, ListIsTight
  <2>3. QED
    BY <1>1, <2>1, <2>2 DEF ReaderInv, LookupsFit
<1>2. QED
  BY <1>1, ReaderInvariance, PTL
=============================================================================
