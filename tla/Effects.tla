------------------------------ MODULE Effects ------------------------------
(***************************************************************************)
(* jQuery's animations: the queue of an element, the list of the timers    *)
(* that run, the interval that drives them, and stop(), finish(), delay()  *)
(* and promise().                                                          *)
(*                                                                         *)
(* JavaScript runs one call at a time, but an animation that has ended     *)
(* calls a function of the page, which may start and stop animations while *)
(* the loop that called it has not gone on: `calls' is the stack of what   *)
(* is being executed, the innermost first.  What an animation changes of   *)
(* its element is left out; its length is counted in intervals, and one    *)
(* of length 0 has nothing to change or no duration.  An "empty" one was    *)
(* given no properties at all: it is never put into the queue, and moves   *)
(* it on as if it came from there.                                         *)
(***************************************************************************)
EXTENDS Naturals, Sequences, SequencesExt, FiniteSets

CONSTANTS
  Elements,
  MaxAnims,    \* how often animate() and delay() are called
  MaxLength,   \* the longest animation
  MaxStops,    \* how often stop() and finish() are called
  Prog,        \* the string "inprogress"
  Off          \* undefined

Anims == 1 .. MaxAnims   \* each call, in their order

VARIABLES
  anim,        \* what each call asked for
  status,      \* and what has become of it
  stopped,     \* the animations whose flag of that name is set
  made,        \* those whose finish() stops them, and does not run them
  left,        \* the intervals an animation has still to run
  queue,       \* the "fx" queue of an element
  hooks,       \* the queueHooks of an element; cur is the function it runs,
               \*   stop the delay that can be stopped
  finishing,   \* the elements with the "finish" flag
  timers,      \* jQuery.timers
  ticking,     \* timerId is set
  timeouts,    \* the delays whose timeout is pending
  calls,       \* the stack
  promised,    \* the elements for which a promise() waits
  completed,   \* how often the function of the page was called
  stops,       \* how often stop() and finish() were called
  nested,      \* one of them was called before another one had returned, or
               \*   finish() before the animation it finishes was made
  loose        \* the elements whose queue moves on though one of it may run:
               \*   a stop forgot the delay, an empty animation ended, or
               \*   what ends one, and what its function calls, both dequeue

animations == <<anim, status, stopped, made, left>>
queues == <<queue, hooks, promised>>
clock == <<timers, ticking>>
history == <<completed, stops, nested, loose>>
vars == <<animations, queues, finishing, clock, timeouts, calls, history>>

NoHooks == [is |-> FALSE, cur |-> Off, stop |-> Off, unqueued |-> 0]

Init ==
  /\ anim = [a \in Anims |-> Off]
  /\ status = [a \in Anims |-> "unused"]
  /\ stopped = {} /\ made = {}
  /\ left = [a \in Anims |-> 0]
  /\ queue = [e \in Elements |-> <<>>]
  /\ hooks = [e \in Elements |-> NoHooks]
  /\ finishing = {}
  /\ timers = <<>> /\ ticking = FALSE
  /\ timeouts = {}
  /\ calls = <<>>
  /\ promised = {}
  /\ completed = [a \in Anims |-> 0]
  /\ stops = 0 /\ nested = FALSE /\ loose = {}

Top == Head(calls)
Below == Tail(calls)
Running(what) == calls # <<>> /\ Top.runs = what
UserCode == calls = <<>> \/ Running("body")

Body == [runs |-> "body"]
Dequeue(e) == [runs |-> "dequeue", e |-> e]
Run(a) == [runs |-> "run", a |-> a]
Unqueue(e) == [runs |-> "unqueue", e |-> e]
Loop(i) == [runs |-> "tick", i |-> i, of |-> Off]
Called(i, a) == [runs |-> "tick", i |-> i, of |-> a]
Stopping(e, goto) == [runs |-> "stop", e |-> e, goto |-> goto]
StopFrom(e, i, goto, deq) ==
  [runs |-> "stopping", e |-> e, i |-> i, goto |-> goto, deq |-> deq]
Splice(i) == [runs |-> "splice", i |-> i]
Made(a) == [runs |-> "made", a |-> a]
FinishOf(a) == [runs |-> "finish", a |-> a]
FinishTimers(e, i, old) ==
  [runs |-> "finishing", e |-> e, i |-> i, old |-> old]
Finished(e) == [runs |-> "finished", e |-> e]

Without(s, i) == IF i \in DOMAIN s THEN RemoveAt(s, i) ELSE s
Elem(a) == anim[a].elem
Empty(a) == anim[a].how = "empty"
Queued(a) == anim[a].how # "now"

(* Mutant of Completion: one that is not in the queue moves it on as well. *)
CompletionDequeues(a) ==
  IF Queued(a) THEN <<Body, Dequeue(Elem(a))>>
  ELSE IF anim[a].length = 0 THEN <<Unqueue(Elem(a)), Body, Dequeue(Elem(a))>>
  ELSE <<Body, Unqueue(Elem(a)), Dequeue(Elem(a))>>

(* The functions that are called when the deferred of a is resolved: the   *)
(* function of the page, and then what moves the queue on, or ends the     *)
(* count of the animations that are not in it.  One that ends before it    *)
(* was given the function of the page has ended the count by then.         *)
Completion(a) ==
  IF Queued(a) THEN <<Body, Dequeue(Elem(a))>>
  ELSE IF anim[a].length = 0 THEN <<Unqueue(Elem(a)), Body>>
  ELSE <<Body, Unqueue(Elem(a))>>

(* Mutant of EndOf: an animation may be ended again.                       *)
EndAgain(a, goto, rest) ==
  /\ stopped' = stopped \cup {a}
  /\ IF goto
     THEN /\ status' = [status EXCEPT ![a] = "resolved"]
          /\ completed' = [completed EXCEPT ![a] = @ + 1]
          /\ calls' = Completion(a) \o rest
     ELSE /\ status' = [status EXCEPT ![a] = "rejected"]
          /\ calls' = (IF Queued(a) THEN <<>> ELSE <<Unqueue(Elem(a))>>) \o rest
          /\ UNCHANGED completed

(* anim.stop(): a is resolved, or rejected; `rest' is the stack below.     *)
EndOf(a, goto, rest) ==
  /\ stopped' = stopped \cup {a}
  /\ IF a \in stopped \/ status[a] # "running"
     THEN calls' = rest /\ UNCHANGED <<status, completed>>
     ELSE IF goto
     THEN /\ status' = [status EXCEPT ![a] = "resolved"]
          /\ completed' = [completed EXCEPT ![a] = @ + 1]
          /\ calls' = Completion(a) \o rest
     ELSE /\ status' = [status EXCEPT ![a] = "rejected"]
          /\ calls' = (IF Queued(a) THEN <<>> ELSE <<Unqueue(Elem(a))>>) \o rest
          /\ UNCHANGED completed

(* hooks.empty: the queue and its hooks are removed, promises kept.        *)
EmptyFires(e) ==
  /\ hooks' = [hooks EXCEPT ![e] = NoHooks]
  /\ promised' = promised \ {e}

-----------------------------------------------------------------------------
(* jQuery.dequeue(e).                                                      *)
DequeueStep ==
  /\ Running("dequeue")
  /\ LET e == Top.e
         q == IF queue[e] # <<>> /\ Head(queue[e]) = Prog THEN Tail(queue[e])
              ELSE queue[e]
     IN  IF q = <<>>
         THEN /\ queue' = [queue EXCEPT ![e] = <<>>]
              /\ IF hooks[e].unqueued > 0
                 THEN /\ hooks' = [hooks EXCEPT ![e].cur = Off]
                      /\ UNCHANGED promised
                 ELSE EmptyFires(e)
              /\ calls' = Below
         ELSE /\ queue' = [queue EXCEPT ![e] = <<Prog>> \o Tail(q)]
              /\ hooks' = [hooks EXCEPT ![e] = [@ EXCEPT !.is = TRUE,
                                           !.cur = Head(q), !.stop = Off]]
              /\ calls' = <<Run(Head(q))>> \o Below
              /\ UNCHANGED promised
  /\ UNCHANGED <<animations, finishing, clock, timeouts, history>>

(* The function of delay().                                                *)
RunDelay ==
  /\ Running("run") /\ anim[Top.a].how = "delay"
  /\ status' = [status EXCEPT ![Top.a] = "running"]
  /\ timeouts' = timeouts \cup {Top.a}
  /\ hooks' = [hooks EXCEPT ![Elem(Top.a)].stop = Top.a]
  /\ calls' = Below
  /\ UNCHANGED <<anim, stopped, made, left, queue, promised, finishing, clock,
                 history>>

(* Mutant of RunAnimation: the unqueued animations are not counted.        *)
RunOne ==
  /\ Running("run") /\ anim[Top.a].how # "delay"
  /\ LET a == Top.a
         e == Elem(a)
         over == anim[a].length = 0
     IN  /\ left' = [left EXCEPT ![a] = anim[a].length]
         /\ timers' = IF over THEN timers ELSE Append(timers, a)
         /\ ticking' = (ticking \/ ~over)
         /\ hooks' = IF Queued(a) THEN hooks
                     ELSE [hooks EXCEPT ![e] = [@ EXCEPT !.is = TRUE,
                                                  !.unqueued = 1]]
         /\ IF over
            THEN /\ status' = [status EXCEPT ![a] = "resolved"]
                 /\ completed' = [completed EXCEPT ![a] = @ + 1]
                 /\ calls' = Completion(a) \o <<Made(a)>> \o Below
            ELSE /\ status' = [status EXCEPT ![a] = "running"]
                 /\ calls' = <<Made(a)>> \o Below
                 /\ UNCHANGED completed
  /\ UNCHANGED <<anim, stopped, made, queue, promised, finishing, timeouts,
                 stops, nested, loose>>

(* doAnimation() and Animation(): one that has nothing to do ends before   *)
(* it was a timer; while the element is finishing the others end at once,  *)
(* as one does that was given no properties.                               *)
RunAnimation ==
  /\ Running("run") /\ anim[Top.a].how # "delay"
  /\ LET a == Top.a
         e == Elem(a)
         over == anim[a].length = 0
     IN  /\ left' = [left EXCEPT ![a] = anim[a].length]
         /\ timers' = IF over THEN timers ELSE Append(timers, a)
         /\ ticking' = (ticking \/ ~over)
         /\ hooks' = IF Queued(a) THEN hooks
                     ELSE [hooks EXCEPT ![e] = [@ EXCEPT !.is = TRUE,
                                                  !.unqueued = @ + 1]]
         /\ IF over
            THEN /\ status' = [status EXCEPT ![a] = "resolved"]
                 /\ completed' = [completed EXCEPT ![a] = @ + 1]
                 /\ calls' = Completion(a) \o <<Made(a)>> \o Below
            ELSE /\ status' = [status EXCEPT ![a] = "running"]
                 /\ calls' = <<Made(a)>> \o Below
                 /\ UNCHANGED completed
  /\ UNCHANGED <<anim, stopped, made, queue, promised, finishing, timeouts,
                 stops, nested, loose>>

RanAnimation ==
  /\ Running("made")
  /\ made' = made \cup {Top.a}
  /\ IF Elem(Top.a) \in finishing \/ Empty(Top.a) THEN EndOf(Top.a, TRUE, Below)
     ELSE /\ calls' = Below
          /\ UNCHANGED <<stopped, status, completed>>
  /\ UNCHANGED <<anim, left, queues, finishing, clock, timeouts, stops, nested,
                 loose>>

(* Mutant of UnqueueStep: the queue of the element is not asked.           *)
UnqueueEmpties ==
  /\ Running("unqueue")
  /\ LET e == Top.e
         last == hooks[e].unqueued = 1
     IN  /\ hooks' = [hooks EXCEPT ![e] =
                        IF last THEN NoHooks
                        ELSE [@ EXCEPT !.unqueued = @ - 1]]
         /\ promised' = IF last THEN promised \ {e} ELSE promised
  /\ calls' = Below
  /\ UNCHANGED <<animations, queue, finishing, clock, timeouts, history>>

(* The end of an animation that was not in the queue.                      *)
UnqueueStep ==
  /\ Running("unqueue")
  /\ LET e == Top.e
         last == hooks[e].unqueued = 1 /\ queue[e] = <<>>
     IN  /\ hooks' = [hooks EXCEPT ![e] =
                        IF last THEN NoHooks
                        ELSE [@ EXCEPT !.unqueued = @ - 1]]
         /\ promised' = IF last THEN promised \ {e} ELSE promised
  /\ calls' = Below
  /\ UNCHANGED <<animations, queue, finishing, clock, timeouts, history>>

-----------------------------------------------------------------------------
(* jQuery.fx.tick(), `elapsed' intervals after the one before.             *)
Tick(elapsed) ==
  /\ calls = <<>> /\ ticking
  /\ left' = [a \in Anims |-> IF Contains(timers, a) /\ left[a] > elapsed
                              THEN left[a] - elapsed
                              ELSE IF Contains(timers, a) THEN 0 ELSE left[a]]
  /\ calls' = <<Loop(1)>>
  /\ UNCHANGED <<anim, status, stopped, made, queues, finishing, clock, timeouts,
                 history>>

(* One step of its loop: the timer is called.                              *)
CallTimer ==
  /\ Running("tick") /\ Top.of = Off /\ Top.i \in DOMAIN timers
  /\ LET a == timers[Top.i]
     IN  IF a \notin stopped /\ left[a] > 0
         THEN /\ calls' = <<Loop(Top.i + 1)>> \o Below
              /\ UNCHANGED <<status, completed>>
         ELSE IF a \in stopped \/ status[a] # "running"
         THEN /\ calls' = <<Called(Top.i, a)>> \o Below
              /\ UNCHANGED <<status, completed>>
         ELSE /\ status' = [status EXCEPT ![a] = "resolved"]
              /\ completed' = [completed EXCEPT ![a] = @ + 1]
              /\ calls' = Completion(a) \o <<Called(Top.i, a)>> \o Below
  /\ UNCHANGED <<anim, stopped, made, left, queues, finishing, clock, timeouts,
                 stops, nested, loose>>

(* It has ended: it is removed, if it is still where it was.               *)
RemoveTimer ==
  /\ Running("tick") /\ Top.of # Off
  /\ IF Top.i \in DOMAIN timers /\ timers[Top.i] = Top.of
     THEN /\ timers' = RemoveAt(timers, Top.i)
          /\ calls' = <<Loop(Top.i)>> \o Below
     ELSE /\ calls' = <<Loop(Top.i + 1)>> \o Below
          /\ UNCHANGED timers
  /\ UNCHANGED <<animations, queues, finishing, ticking, timeouts, history>>

(* Mutant of EndTick: the clock is stopped after every tick.               *)
EndTickStops ==
  /\ Running("tick") /\ Top.of = Off /\ Top.i \notin DOMAIN timers
  /\ ticking' = FALSE
  /\ calls' = Below
  /\ UNCHANGED <<animations, queues, finishing, timers, timeouts, history>>

(* Mutant of EndTick: the clock is not stopped.                            *)
EndTickGoesOn ==
  /\ Running("tick") /\ Top.of = Off /\ Top.i \notin DOMAIN timers
  /\ calls' = Below
  /\ UNCHANGED <<animations, queues, finishing, clock, timeouts, history>>

(* The loop has come to the end of the list.                               *)
EndTick ==
  /\ Running("tick") /\ Top.of = Off /\ Top.i \notin DOMAIN timers
  /\ ticking' = (timers # <<>>)
  /\ calls' = Below
  /\ UNCHANGED <<animations, queues, finishing, timers, timeouts, history>>

(* The timeout of a delay.                                                 *)
Timeout(a) ==
  /\ calls = <<>> /\ a \in timeouts
  /\ timeouts' = timeouts \ {a}
  /\ status' = [status EXCEPT ![a] = "resolved"]
  /\ calls' = <<Dequeue(Elem(a))>>
  /\ UNCHANGED <<anim, stopped, made, left, queues, finishing, clock, history>>

-----------------------------------------------------------------------------
(* stop(), once the queue was cleared if that was asked for: the delay of  *)
(* the queue is stopped, and then the timers, from the last one; a timer   *)
(* that has ended has no element any more.                                 *)
StopDelay ==
  /\ Running("stop")
  /\ LET e == Top.e
         d == hooks[e].stop
     IN  /\ timeouts' = timeouts \ {d}
         /\ status' = IF d \in timeouts THEN [status EXCEPT ![d] = "rejected"]
                      ELSE status
         /\ hooks' = [hooks EXCEPT ![e].stop = Off]
         /\ calls' = <<StopFrom(e, Len(timers), Top.goto, TRUE)>> \o Below
  /\ UNCHANGED <<anim, stopped, made, left, queue, promised, finishing, clock,
                 history>>

StopTimer ==
  /\ Running("stopping") /\ Top.i > 0
  /\ Top.i \in DOMAIN timers
  /\ LET a == timers[Top.i]
         next(deq) == StopFrom(Top.e, Top.i - 1, Top.goto, deq)
     IN  IF Elem(a) = Top.e /\ status[a] = "running"
         THEN EndOf(a, Top.goto, <<Splice(Top.i), next(FALSE)>> \o Below)
         ELSE /\ calls' = <<next(Top.deq)>> \o Below
              /\ UNCHANGED <<status, stopped, completed>>
  /\ UNCHANGED <<anim, made, left, queues, finishing, clock, timeouts, stops,
                 nested, loose>>

(* Mutant of SpliceStep: the timer behind it is removed.                   *)
SpliceNext ==
  /\ Running("splice")
  /\ timers' = Without(timers, Top.i + 1)
  /\ calls' = Below
  /\ UNCHANGED <<animations, queues, finishing, ticking, timeouts, history>>

(* timers.splice( index, 1 ), whatever is at the index by now.             *)
SpliceStep ==
  /\ Running("splice")
  /\ timers' = Without(timers, Top.i)
  /\ calls' = Below
  /\ UNCHANGED <<animations, queues, finishing, ticking, timeouts, history>>

(* The loop looks at a timer that is no more: an exception.                *)
StopThrows ==
  /\ Running("stopping") \/ Running("finishing")
  /\ Top.i \notin {0, Off} \cup DOMAIN timers
  /\ calls' = <<>>
  /\ UNCHANGED <<animations, queues, finishing, clock, timeouts, history>>

(* Mutant of EndStop: the queue is left to the functions that were called. *)
EndStopSilent ==
  /\ Running("stopping") /\ Top.i = 0
  /\ calls' = (IF Top.deq THEN <<Dequeue(Top.e)>> ELSE <<>>) \o Below
  /\ UNCHANGED <<animations, queues, finishing, clock, timeouts, history>>

(* The queue moves on, unless the functions that were called saw to that.  *)
EndStop ==
  /\ Running("stopping") /\ Top.i = 0
  /\ calls' = (IF Top.deq \/ ~Top.goto THEN <<Dequeue(Top.e)>> ELSE <<>>)
              \o Below
  /\ UNCHANGED <<animations, queues, finishing, clock, timeouts, history>>

-----------------------------------------------------------------------------
(* finish(), once it has emptied the queue: the animation that runs, the   *)
(* timers from the last one, and the functions that were in the queue.     *)
FinishFunction ==
  /\ Running("finish")
  /\ IF Top.a \in made THEN EndOf(Top.a, TRUE, Below)
     ELSE /\ calls' = <<Run(Top.a)>> \o Below
          /\ UNCHANGED <<stopped, status, completed>>
  /\ UNCHANGED <<anim, made, left, queues, finishing, clock, timeouts, stops,
                 nested, loose>>

FinishTimer ==
  /\ Running("finishing")
  /\ LET i == IF Top.i = Off THEN Len(timers) ELSE Top.i
         next == FinishTimers(Top.e, i - 1, Top.old)
     IN  /\ i > 0 /\ i \in DOMAIN timers
         /\ LET a == timers[i]
            IN  IF Elem(a) = Top.e /\ status[a] = "running" /\ Queued(a)
                THEN EndOf(a, TRUE, <<Splice(i), next>> \o Below)
                ELSE /\ calls' = <<next>> \o Below
                     /\ UNCHANGED <<status, stopped, completed>>
  /\ UNCHANGED <<anim, made, left, queues, finishing, clock, timeouts, stops,
                 nested, loose>>

FinishQueue ==
  /\ Running("finishing")
  /\ Top.i \in {0} \cup (IF timers = <<>> THEN {Off} ELSE {})
  /\ calls' = [i \in DOMAIN Top.old |-> FinishOf(Top.old[i])]
              \o Below
  /\ UNCHANGED <<animations, queues, finishing, clock, timeouts, history>>

EndFinish ==
  /\ Running("finished")
  /\ finishing' = finishing \ {Top.e}
  /\ calls' = Below
  /\ UNCHANGED <<animations, queues, clock, timeouts, history>>

-----------------------------------------------------------------------------
(* A stop() or a finish() of e has not returned yet; of any element; an    *)
(* animation of e that is over has not been made yet; something that is    *)
(* under way is going to dequeue e.                                        *)
BeingStopped(e) ==
  \E i \in DOMAIN calls :
    calls[i].runs \in {"stop", "stopping", "finished"} /\ calls[i].e = e
AnyIsStopped == \E e \in Elements : BeingStopped(e)
BeingMade(e) ==
  \E i \in DOMAIN calls : calls[i].runs = "made" /\ Elem(calls[i].a) = e
DequeueDue(e) == BeingStopped(e) \/ Contains(calls, Dequeue(e))

(* An empty animation while something of the queue is in progress, or one  *)
(* that starts before what empties the queue has come to its dequeue.      *)
MovesOnEarly(e, how) ==
  \/ how = "empty" /\ queue[e] # <<>>
  \/ how \in {"fx", "delay"} /\ queue[e] = <<>> /\ DequeueDue(e)

(* queue(): what is put into the queue of an element makes sure that it    *)
(* has hooks, and is taken out again when nothing is in progress.          *)
Pushed(e, a) == [queue EXCEPT ![e] = Append(@, a)]
Enqueue(e, a) ==
  /\ queue' = Pushed(e, a)
  /\ hooks' = [hooks EXCEPT ![e].is = TRUE]
  /\ calls' = (IF Head(queue'[e]) # Prog THEN <<Dequeue(e)>> ELSE <<>>) \o calls

(* What the page calls, at the bottom of the stack or in the function of   *)
(* an animation that has ended: animate(), with `queue: false' when `how'  *)
(* is "now" and without properties when it is "empty", and delay().        *)
Animate(a, e, how, length) ==
  /\ UserCode /\ status[a] = "unused"
  /\ \A b \in 1 .. a - 1 : status[b] # "unused"
  /\ anim' = [anim EXCEPT ![a] = [elem |-> e, how |-> how, length |-> length]]
  /\ status' = [status EXCEPT ![a] = "queued"]
  /\ IF how \in {"now", "empty"}
     THEN /\ calls' = <<Run(a)>> \o calls
          /\ UNCHANGED <<queue, hooks>>
     ELSE Enqueue(e, a)
  /\ loose' = IF MovesOnEarly(e, how) THEN loose \cup {e} ELSE loose
  /\ UNCHANGED <<stopped, made, left, promised, finishing, clock, timeouts,
                 completed, stops, nested>>

DelayPends(e) == \E d \in timeouts : Elem(d) = e
ForgetsDelay(e, clear, goto) ==
  DelayPends(e) /\ (clear \/ (goto /\ hooks[e].unqueued > 0))
Dropped(e, some) ==
  [a \in Anims |-> IF Contains(queue[e], a) /\ a \in some THEN "dropped"
                   ELSE status[a]]
Delays == {a \in Anims : anim[a] # Off /\ anim[a].how = "delay"}

Stop(e, clear, goto) ==
  /\ UserCode /\ stops < MaxStops
  /\ stops' = stops + 1
  /\ nested' = (nested \/ AnyIsStopped)
  /\ loose' = IF DequeueDue(e) \/ ForgetsDelay(e, clear, goto)
              THEN loose \cup {e} ELSE loose
  /\ queue' = IF clear THEN [queue EXCEPT ![e] = <<>>] ELSE queue
  /\ status' = IF clear THEN Dropped(e, Anims) ELSE status
  /\ calls' = (IF clear THEN <<Dequeue(e)>> ELSE <<>>)
              \o <<Stopping(e, goto)>> \o calls
  /\ UNCHANGED <<anim, stopped, made, left, hooks, promised, finishing, clock,
                 timeouts, completed>>

Finish(e) ==
  /\ UserCode /\ stops < MaxStops
  /\ stops' = stops + 1
  /\ nested' = (nested \/ AnyIsStopped \/ BeingMade(e))
  /\ loose' = IF DequeueDue(e) \/ DelayPends(e) THEN loose \cup {e} ELSE loose
  /\ finishing' = finishing \cup {e}
  /\ queue' = [queue EXCEPT ![e] = <<>>]
  /\ status' = Dropped(e, Delays)
  /\ LET cur == hooks[e].cur
         functions == SelectSeq(queue[e], LAMBDA x : x \notin Delays \cup {Prog})
     IN  calls' = (IF cur \in {Off} \cup Delays THEN <<>> ELSE <<FinishOf(cur)>>)
                  \o <<FinishTimers(e, Off, functions), Finished(e)>> \o calls
  /\ UNCHANGED <<anim, stopped, made, left, hooks, promised, clock, timeouts,
                 completed>>

AskPromise(e) ==
  /\ UserCode /\ hooks[e].is
  /\ promised' = promised \cup {e}
  /\ UNCHANGED <<animations, queue, hooks, finishing, clock, timeouts, calls,
                 history>>

Return ==
  /\ Running("body")
  /\ calls' = Below
  /\ UNCHANGED <<animations, queues, finishing, clock, timeouts, history>>

LibraryStep ==
  \/ DequeueStep \/ RunDelay \/ RunAnimation \/ RanAnimation \/ UnqueueStep
  \/ CallTimer \/ RemoveTimer \/ EndTick
  \/ StopDelay \/ StopTimer \/ SpliceStep \/ StopThrows \/ EndStop
  \/ FinishFunction \/ FinishTimer \/ FinishQueue \/ EndFinish

PageStep ==
  \E e \in Elements :
    \/ \E a \in Anims :
         \/ \E length \in 0 .. MaxLength, how \in {"fx", "now"} :
              Animate(a, e, how, length)
         \/ \E how \in {"empty", "delay"} : Animate(a, e, how, 0)
    \/ \E clear, goto \in BOOLEAN : Stop(e, clear, goto)
    \/ Finish(e)
    \/ AskPromise(e)

Ticks == \E elapsed \in 1 .. MaxLength : Tick(elapsed)
Timeouts == \E a \in Anims : Timeout(a)

Next == LibraryStep \/ PageStep \/ Return \/ Ticks \/ Timeouts

Spec == Init /\ [][Next]_vars

(* The interpreter goes on, functions of the page return, the interval and *)
(* the timeouts come.                                                      *)
FairSpec ==
  /\ Spec
  /\ WF_vars(LibraryStep) /\ WF_vars(Return) /\ WF_vars(Ticks)
  /\ \A a \in Anims : WF_vars(Timeout(a))

-----------------------------------------------------------------------------
(* The types, and that no timer is listed twice nor an end counted twice.  *)
TypeOK ==
  /\ stopped \subseteq Anims /\ made \subseteq Anims
  /\ timeouts \subseteq Delays
  /\ \A e \in Elements : \A i \in 2 .. Len(queue[e]) : queue[e][i] \in Anims
  /\ IsInjective(timers)
  /\ \A e \in Elements : hooks[e].unqueued \in Nat
  /\ left \in [Anims -> 0 .. MaxLength]

Idle == calls = <<>>
Runs(a) == status[a] = "running"

(* The function of the page is called once for an animation that came to   *)
(* its end or was sent there, and never for one that was stopped.          *)
CompletedOnce ==
  \A a \in Anims \ Delays :
    ~nested => completed[a] = IF status[a] = "resolved" THEN 1 ELSE 0

(* The interval is there as long as a timer is.                            *)
ClockRuns == timers # <<>> => ticking

(* An animation that runs is a timer.                                      *)
NoneIsLost ==
  Idle /\ ~nested => \A a \in Anims \ Delays : Runs(a) => Contains(timers, a)

(* One animation of a queue runs at a time, unless it is loose.            *)
OneAtATime ==
  ~nested => \A a, b \in Anims :
    Runs(a) /\ Runs(b) /\ Queued(a) /\ Queued(b) /\ Elem(a) = Elem(b)
      => a = b \/ Elem(a) \in loose

(* What is in a queue waits for something that runs.                       *)
QueueMovesOn ==
  Idle /\ ~nested => \A e \in Elements :
    queue[e] # <<>> /\ e \notin loose =>
      \E a \in Anims : Runs(a) /\ Queued(a) /\ Elem(a) = e

(* The list of timers is that of the animations that run, whatever their   *)
(* functions start and stop while the list is walked: each is on it until  *)
(* it has come to its end, which is told once (jquery-1.9.1.js:9157-9345). *)
(* Nothing is said once a stop() or finish() was called from inside        *)
(* another, or finish() before the animation of the queue was made.        *)
TimersFit == TypeOK /\ ClockRuns /\ NoneIsLost /\ CompletedOnce

(* A queue is neither run twice nor left alone: as long as it holds        *)
(* something one animation of it runs (jquery-1.9.1.js:1908-1942).         *)
(* Elements that are loose are excepted, and what TimersFit excepts.       *)
QueueFits == OneAtATime /\ QueueMovesOn

(* A promise of an element is kept no sooner than its queue is empty and   *)
(* none of its animations runs; stop() and finish() keep it while they are *)
(* still at work on the element, and no more is said where the queue is    *)
(* loose (jquery-1.9.1.js:2004-2033).                                      *)
PromiseKept ==
  [][\A e \in promised \ promised' :
       ~nested /\ e \notin loose /\ ~BeingStopped(e)
       => /\ queue'[e] = <<>>
          /\ \A a \in Anims : Runs(a) => Elem(a) # e]_vars

(* The interval is always given up: an idle page is not woken every 13 ms. *)
ClockStops == []<>~ticking
=============================================================================
