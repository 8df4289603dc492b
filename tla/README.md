# RTSP multicast: verification project

TLA+ models of the RTSP multicast system in `src/`: a Java server that streams
files, a webcam or the screen to multicast groups, an RTSP stack on netty, an
RTSP client library, the players that use it, and the web pages from which all
of this is administered, with the scripts that run in them.  The modules are
meant to be read with the code beside them: every definition that models code is
mapped to its lines in `PROJECT.json`, which also lists the runs, the theorems
and the hazards.

    tlc -workers 2 -config MediaServer.cfg MCMediaServer.tla         # model checking
    tlapm MediaServerProofs.tla                                      # proofs

## 1. The system

| component | code | state | operations |
|---|---|---|---|
| media registry | `ServerRTSP.java` | `medias` (an ArrayList), monitor of `INSTANCE` | `addMedia`, `deleteMedia`, `deleteAllMedia`, `getMedia`, `getMedias`, `getXMLmedias` |
| media and its threads | `Media.java` | `ref_pipeline`, `ref_thread`, pipeline state, duration | `Streaming`, the stream thread, the player thread, `StopStreaming`, `sendTeardown` |
| servlets and pages | `server_rtsp_war` | none of their own | AddMedia, DeleteMedia, GetMedias, StopServer; Admin, Client and LightClient pages |
| request handling | `RtspServerListener.java` | `sessions` (in ServerRTSP) | DESCRIBE, SETUP, PLAY, OPTIONS |
| service life cycle | `ServerRTSP.java`, `RtspServerStackImpl.java` | `serverStack`; `channel`, `bootstrap` of each stack | `start`, `stop`, `destroyInstance` |
| client handshake | `ClientRTSP.java`, `RtspClientListener.java` | `cmd_sent`, `media`, `cSeq`, `session`, `sdp`, `streamsSetup`, `clientStack` | `playMedia`, the response handlers, `createNotify` |
| client stack | `RtspClientStackImpl.java`, `RtspResponseHandler.java` | `channel`, `bootstrap` | `sendRquest`, `stop`, dispatch of responses and exceptions |
| form that starts a media | `jquery.validate.js`, `jquery.validate.check.js`, `app.js`, `Admin.jsp`, `AddMedia.java` | the validator's `submitted`, `invalid`, `pending`, labels, marks; the format and what it hides | the events of the fields, submit, `remote`, `changeFormato`, AddMedia |
| slider of the pages | `jquery.foundation.orbit.js` | active slide, lock, clock, `z-index` | `shift`, `startClock`, `stopClock`, clicks |
| callbacks and deferreds | `jquery-1.9.1.js` | the closure of each list | add, fire, `Deferred`, `then`, `when` |
| effects and queues | `jquery-1.9.1.js` | queue, timers, interval, hooks | `animate`, `delay`, `stop`, `finish`, `promise` |
| events and private data | `jquery-1.9.1.js` | handlers, listeners, identifiers | `on`, `off`, `trigger`, `dispatch`, `cleanData` |
| ajax | `jquery-1.9.1.js` | state of a request, `jQuery.active`, names of JSONP functions | `ajax`, `abort`, timeouts, transports, conversions |
| players | `PlayerActivity`, `MainActivity`, `SimpleClient`, `GuiClient` | the registration as observer, the sockets that wait for a tear-down | play, error, tear-down, list of media |
| media control | `kas-mscontrol-only-receive` | frame and feeder queues, frame pool, recorder controller, join table | record, flush, join, unjoin |

### Interactions

* The servlets call the registry directly, each on a thread of its container.
* `addMedia` appends to the list and starts the stream thread; this starts the
  player thread, publishes it in `ref_thread` and, for a file, sleeps for the
  duration and then calls `deleteMedia` with its own title.
* The RTSP handlers read the registry without its monitor; the requests of one
  listener are serialised by `synchronized(listener)`.
* StopServer empties the registry, stops the stack and starts another one;
  nothing orders two such requests.
* The client drives DESCRIBE, one SETUP per stream of the SDP, and PLAY; each
  response handler sends the next request from the worker thread of the stack.
  The observer of the shared `ClientRTSP` object is notified of the end.
* When a media stops, the server sends one datagram with its title to the
  multicast group; a player that receives its title leaves.
* The pages list the medias in a slider.  The form of the administration page is
  guarded by the validation plugin, which hears of the fields through events,
  asks the server through ajax, and lets the browser send the form to the
  servlet AddMedia, which parses it again and calls the registry.
* The slider animates its slides through effects; effects and ajax tell the page
  of their end through deferreds, and deferreds keep their functions in lists of
  callbacks.

### What is hard, and what makes each part correct

* **Registry.**  `addMedia` and all readers ignore the monitor that the
  deletions hold, and timers delete by title.  Correct: what was added is
  listed until it is deleted, what leaves the list was stopped, a deletion
  removes all it was asked to and nothing else, a lookup misses only what is
  being removed.
* **Media.**  `StopStreaming` uses references that other threads assign later.
  Correct: a stopped media falls silent, an expired one is released.
* **Request handling.**  The media may vanish between two requests and within
  one; any exception of a lookup ends the process.  Correct: answers tell what
  was true during the lookup, session ids are unique and stay known, every
  request is answered.
* **Service.**  `serverStack` is read, replaced and used again without a
  monitor.  Correct: the service comes back after StopServer, and stop stops it.
* **Client.**  One object, one set of fields, many plays; two threads; a latch
  that is counted down on success only.  Correct: each response is handled by
  the handler of its request, a success is a complete handshake of one play, a
  player is told how its play ended.
* **Scripts.**  One thread, but every callback may call back into what called
  it, from the middle of its loop: lists grow while they are walked, timers and
  requests are stopped by the function that is told of their end.  Correct:
  everyone who was promised a call gets it once, in order; what is started ends;
  the counters that decide what happens when "all" are done fit; what the user
  sees of a form is what the validator thinks of it, and what it lets through
  the servlet can use.
* **Players and media control.**  Datagrams may be lost, threads are never
  ended, drawing and controlling threads share queues, use counts and wait sets.

## 2. The modules

| module | models | proofs | instance for TLC |
|---|---|---|---|
| `OnAir` | what the registry promises | | |
| `MediaServer` | registry, deletions, stream and player threads | `MediaServerProofs` | `MCMediaServer` |
| `MediaReaders` (extends `MediaServer`) | getMedia, getXMLmedias and the pages, reading while the registry changes | `MediaServerProofs` | `MCMediaReaders` |
| `RtspServerListener` | the request handlers | `ServerProofs` | `MCRtspServerListener` |
| `RtspService` | start, stop, StopServer | `ServerProofs` | `MCRtspService` |
| `ClientRTSP` | client library, client stack, PlayerActivity's task | `ClientRTSPProofs` | `MCClientRTSP` |
| `Validator` | the validation plugin with its rules, requests among them | `PagesProofs` | |
| `AddMediaForm` (extends `Validator`) | the page's scripts and the servlet | `PagesProofs` | `MCAddMediaForm` |
| `Orbit` | the slider | `PagesProofs` | `MCOrbit` |
| `Promise` | what a deferred promises | | |
| `Callbacks` | a list of callbacks, as operators | | |
| `Deferred` (extends `Callbacks`) | Deferred, `then`, `when`, re-entrant | `DeferredProofs`, `DerivedProofs` | `MCDeferred` |
| `Effects` | animations, queues and timers | | `MCEffects` |
| `Events` | handlers, dispatch, private data | `EventsProofs` | `MCEvents` |
| `Ajax` | the life of requests | `AjaxProofs` | |
| `AjaxConvert` | the conversions of an answer, as operators | | |
| `Jsonp` (extends both) | answers, JSONP names; puts the actions together | `AjaxProofs` | `MCAjax` |

### OnAir and MediaServer

`OnAir` has three variables: the set on air, those ever published, and a flag
that two updates have overlapped.  Media are published, halted and withdrawn;
after a disruption the list may only be disturbed in the ways the flag allows.
`MediaServer!ImplementsOnAir` is the refinement: `onAir <- Listed`.

`MediaServer` splits `ArrayList.add()` at its accesses to the shared fields
(`AddReserve` reads `modCount` and `size`, `AddGrow` writes `size`, `AddStore`
writes the slot) because `addMedia` takes no monitor.  A deletion holds it, so
one iterator suffices: `BeginDelete`, then `NextMedia` or `NextThrows` with the
test of `modCount`, then for a media that matches `StopPipeline`,
`InterruptPlayer`, and `RemoveThrows` or the removal.  `i.remove()` races with
`add()` and with the readers and is split likewise: `RemoveCount` (the checks,
`modCount++`, and `size` for the number of slots to move), a `RemoveMove` per slot
that `System.arraycopy` moves down, `RemoveRead`, `RemoveShrink` and `RemoveClear`
for `elementData[--size] = null`, and `RemoveResume`, in which the iterator takes
over `modCount` as it then is.  `hole` is the slot it copies into or clears next.
While a media is moved down it is in two slots, which `ListedOnce` says of no
other; an `add()` in between (`[a,b]` becomes `[b,b]`, with the new media cleared
away) is one of the overlaps that `overlapped` remembers.  `key` is the title or
`All`.  A media's stream thread is `Launch`, `StartPlayer`, `Register`,
`Expire`, `ExpiredDelete`; its player thread is `Play`, `MainReturns`.

Abstractions: accesses to fields are sequentially consistent; `modCount++` is one
step, together with the reading of `size` next to it in `add()` and `remove()`;
the backing array has `Capacity` slots and does not grow; GStreamer
is external, with `Gst.main()` returning only on an interrupt; `sendTeardown`
is part of the step that stops the pipeline and has no receiver here;
CalculateDuration appears only as the pipeline it leaves in `ref_pipeline`.

### MediaReaders

Adds one reader to every state of the registry: an iterator (`getMedia`,
`getXMLmedias`) with its own cursor and `expectedModCount`, or a page that reads
`size()` and `get(i)`.  `TestLoop` is `hasNext()` or the loop's test, `GetMedia`
and `GetThrows` the checks of the access, `TakeMedia` and `TakeThrows` the access
itself.  A reading may meet a removal half done: `midway` says that one was under
way when it began, `disturbed` that one has been under way since.  A page may then
be given a media twice, once from either slot, and so may an iterator that was
made midway, for which the removal is already counted; `NothingIsReadTwice` says
that nothing is given three times, and twice only so.  The module justifies the
two-step lookup used next, in which a removal is done at one moment of the
lookup.

### RtspServerListener

Requests are records of what the handlers tell apart.  `Receive` enters the
monitor; `BeginLookup` and `EndLookup` are `getMedia`, between which the
registry may change; `DescribeReply`, `PlayReply`, `SetupReply` and
`ReplyAtOnce` answer.  A lookup may find any media of the title that was listed
at some time meanwhile and may miss one only after a removal, and it may throw
only after a change: this is what `MediaReaders` checks of the iterator.  Both
exits of the process are steps: `LookupThrows` and `SetupOfMissing`.  Session
ids are numbers of the millisecond that seeds the generator, since equal seeds
give equal ids; `GenerateSession` is the retry that succeeds.

Left out: holes in the list (`null` slots left by overlapping adds), on which
every lookup throws from then on, as `MediaReaders` shows; the stack overflow of
the recursive `generateSession` when the clock stands still.

### RtspService

`StopServer(t)` is a request on a container thread: it reads the field, closes
and releases that stack, creates and assigns a new one, reads the field again
and binds.  `channel` is assigned after the bind, an exception of any part is
swallowed, and `release` waits for the stack's connections.  A second start of
one stack replaces its bootstrap (`replaced`), whose threads are then no longer
awaited.  Left out: a port taken by another process; the two statements between
`serverStack = ...` and `setRtspListener`, in which the stack is not bound.

### ClientRTSP

Play `p` is one PlayerActivity with one queued task; stack `k` is created by the
task of play `k`.  Until `playMedia` has stopped the old stack, the old worker
handles responses on the same fields, so `ResetCSeq`, `ResetSession` and
`SetMedia` are steps of their own; the rest of `playMedia` runs alone and is
split only where it waits (`StopOld`, `BeginRelease`, `Release`,
`SendDescribe`, `WriteDescribe`).  The worker runs `OnError`, `OnUnexpected`,
`DescribeResponse`, `SetupResponse` or `PlayResponse` for a response at the head
of its connection, and then `Send`, which connects again when the channel is
closed.  `Notify` tells whoever is the observer at that moment; `outcome`
remembers in whose name.  The server side (`Answer`, `Refuse`) is what
`RtspServerListener` does, seen from one connection; `Stray` is another server.

Abstractions: netty 3.5.9 and AsyncTask are external, taken as the client uses
them (`releaseExternalResources` interrupts the worker, ends connecting, and
waits for open connections); an interrupt reaches the worker only while it waits
on the latch; the checks of CSeq and session are one step; an unknown host, a
stack that cannot be created, and the cancellation of a task that is still
queued are left out.  Observers behave as PlayerActivity: they take themselves
off when told.

### Validator and AddMediaForm

A text is a member of a small set, told apart by what a rule or the servlet
makes of it; `Typed` says which texts come into which field.  `check` is the
first rule that fails; `element` and `form` are the two ways to check, each with
what it keeps (`submitted`, `invalid`) and shows (`marked`, `label`), and with
the requests that the rule `remote` makes (`Ask`).  `FocusIn`, `FocusOut`,
`KeyUp`, `Submit` and `Refuse` are the handlers; a refused submit moves the
focus, which is an event of its own (`MoveFocus`).  `Accepted`, `Refused` and
`Fails` are the ends of a request; `CheckAgain` and the submit that follows are
what `stopRequest` does when the last answer has come.  `ChangeFormat` and
`PickFile` are the scripts of the page, of which the validator hears nothing,
and `AddMedia` the servlet.  No page of the repository uses `remote`: two
fields, `inputNombre` and `inputCorreo`, stand for a form that would.

What TLC showed about `remote` while the properties were found, all of it in the
exceptions they name: an answer goes through `showErrors()` with whatever was
checked last, so it takes the mark of another field; a field that was emptied
while its answer was under way is marked or cleared for a text that is gone; the
text under way is answered with the result of the text before; a request that
fails stays counted and blocks the form; and `formSubmitted` survives a `form()`
that fails, so that the form is later sent without a click.

### Orbit

The slides are numbered as the medias of the page.  `Load` makes the slider once
the images are there; `Rotate`, `Strike` and `StrikeHidden` are the ticks of a
clock; `ClickTimer` and `ClickArrow` the user's; `Accept` is a `shift()` that
takes the lock, a refused one only overwrites `prevActiveSlide` (line 512),
although the comment at 544 speaks of the previous slide; `Arrive` is the end
of the animation.  `Press` is a click on a slide, at rest or while the next one
moves in: where that has not arrived, the slide it replaces takes the click,
invisible but in place and above the others; and one of which a refused `shift()`
made the slider forget that it was left (`forgotten`) keeps lying there.
`PressesSeenOrLeft` says that clicks go astray so far and no farther.
`intervals` are the clocks the browser runs, `clock` the
handle the plugin keeps.  A page without medias asks for an animation of nothing
and so never releases the lock.

### Promise, Callbacks and Deferred

`Callbacks` says what each method makes of the variables of a list; `Deferred`
runs them: `calls` is the stack of JavaScript, so a function that is being called
from a loop may fire, add to, disable and lock the list of this loop, make
deferreds by `then` and `when`, or throw.  `then` may be given a filter for the
progress, too: when that returns a promise, this settles the derived deferred as
well, maybe before its parent and otherwise (1193-1196); `tied` keeps the
deferreds to which it has happened.  `Promise` says what a deferred
promises (settled once; every function told once, in order, before or after), and
`Deferred!IsPromise` is the refinement, which also holds when functions throw.
That *all* are told (`AllAreCalled`) does not: a throw leaves `firing` set.  That
a derived deferred follows what it was derived from (`DerivedFollow`) holds of
those that are not `tied`.

### Effects

One action per piece of code that runs between two points at which a function of
the page can be called: `CallTimer` and `RemoveTimer` in the loop of the tick,
`StopTimer` and `SpliceStep` in that of `stop()`, and so on.  `Timeout` is a
delay that ends.  An `"empty"` animation, one without properties, runs at once
and out of the queue, but its complete function moves the queue on all the same
(9132, 9288).  Two histories name what the code does not promise.  `nested`: a
`stop()` or `finish()` was called before another one had returned, whose loop then
splices the wrong timer or throws; or a `finish()` by the function of an animation
that was over before it was made, which is then run a second time.  A `stop()` or
`finish()` from any other function of the page, that of a tick among them, is not
excepted.  `loose`: the elements whose queue may run two animations at a time,
because a stop forgot the delay whose timeout still comes, an empty animation moved
the queue on, or an animation's function stopped (or started again, out of an empty
queue) what its own dequeue then moves on once more.

### Events

The elements are one branch of the document.  `On`, `Unbind`, `SetData`,
`RemoveData` and `Clean` are done by the page and by any handler.  `Clean` is
`remove()` and only begins: `CleanElement` is one turn of the loop of
`cleanData()`, from the element to the innermost one.  `Trigger`
walks the branch, calls the listener as the browser would, and then the method of
the element, which makes the browser tell of the event again.  `AllBoundAreCalled`
compares what was bound when the event came with what was called, and
`IdsAreUnique` also says that no entry of the cache outlives what it was made for.

### Ajax, AjaxConvert and Jsonp

`Request` to `Send` are the pieces of `ajax()` between which the page has its
say; `Settle`, `Complete` and `CountDown` are `done()`; `Abort`, `Timeout` and
the transports' answers race.  `Jsonp` takes each action and adds what happens to
the functions of the page and the data types.  `AjaxConvert` is the walk of
`ajaxConvert()`, checked against "some chain of converters would do" for every
list of up to three types, every content type and every response.  A request
whose page aborts it in a handler of ajaxSend is opened again by `state = 1`
(line 7977); `reopened` names those, and the counter is exact without them, while
`ajaxStart` and `ajaxStop` alternate even then.  A
script may come when its request is over already, because that was aborted, or
because it was opened again, sent and runs a second time (`strayed`), and two
requests may share a name the page has given (`shared`): there the code does hand
out the wrong answer.

Left out: synchronous scripts from other servers, which do not exist; a given
name that already was a function of the page; answers without content or not
modified (204 and 304), which succeed without being converted; `dataFilter`; and
the option `throws`, with which a converter's exception is not caught.

## 3. The runs

Most runs check a few named conjunctions, each of the parts that together say one
thing; the parts have definitions and comments of their own in the module.

| run | instance | shows |
|---|---|---|
| `registry` | a file and a live media of one title, 2 slots, fair threads | `ListedOnce`; `DeleteComplete`; `UnlistedFits` (`UnlistedWasStopped`, `EndedIsUnlisted`); `DeletionsWork` (`RemovesOnlyItsTitle`, `InterruptedFallsSilent`, `MonitorIsReleased`); `ImplementsOnAir`, the refinement |
| `readers` | 2 live media, three kinds of reader | `LookupsFit` (`MissesOnlyOnRemoval`, `NothingIsReadTwice`, `RestIsReadable`) |
| `requests` | 1 connection, 2 media of one title, 2 sessions, a running clock | `SessionsFit` (`SessionsAreUnique`, `GivenSessionsAreKnown`); `AnswersFitTheRegistry`; `RequestsAreAnswered` |
| `service` | 3 threads, 1 client, 5 stacks, fair threads | `ServesWhenQuiet`; `KeepsTrack`; `RequestsEnd` |
| `client` | 2 plays of 2 media, one with sound | `HandshakeFits` (`OneRequestAtATime`, `ResponsesFitCommand`); `OwnResponsesFit`; `SuccessIsComplete` |
| `client_liveness` | 2 plays of 1 media, 1 stray response, fair threads | `RequestsInOrder`; `PlaysEnd`; `PlayMediaReturns` |
| `form` | 4 fields of the page and 8 formats, or 2 fields that ask the server | `ShownFits` (`MarksFitInvalid`, `InvalidIsVisible`); `ReportedFieldsTellTheTruth`; `AnswersAreAwaited` (`PendingIsCounted`, `SentIsAccepted`); `SentFits` (`SentIsAdded`, `AddedIsComplete`) |
| `slider` | 0 to 4 slides, a turn of 3 steps, fair clock | `OneSlideOneClock` (`OneIsSeen`, `OneClock`); `PressesSeenOrLeft`; `NeverStuck` (`LockIsReleased`, `ShowsAllInTurn`) |
| `deferred` | 3 deferreds, 2 functions, 5 deeds | `CallsFit` (`ProgressInOrder`, `DerivedFollow`); `AllAreCalled`; `IsPromise`, the refinement of `Promise` |
| `effects` | 1 element, 3 animations or delays, 2 stops | `TimersFit` (`ClockRuns`, `NoneIsLost`, `CompletedOnce`); `QueueFits` (`OneAtATime`, `QueueMovesOn`); `PromiseKept`; `ClockStops` |
| `events` | 2 elements, 3 types, 2 functions, 3 deeds | `DataFits` (`IdsAreUnique`, `ListenersFit`); `CallsFit` (`CalledOnce`, `OneIsOnce`, `StoppedIsStopped`); `AllBoundAreCalled` |
| `ajax` | 2 requests of 10 kinds, JSONP among them | `AnswersFit` (`OneAnswer`, `UnderWay`); `CountersFit` (`ActiveFits`, `StartsAndStops`); `JsonpFits` (`NamesFit`, `OwnAnswers`); `ConversionsFit`; `EndsInTime` |

Where no theorem states the `TypeOK` of a module it is the first part of one of
these.

Every run passes.  Several properties carry an exception, and the exception is
the point: the registry keeps its promises *until two updates overlap*
(`overlapped`, `disrupted`), since `addMedia` takes no monitor; a lookup misses
only *on a removal* and throws only *on a change*; `stop` is kept track of *as
long as requests do not overlap*; a play ends *unless its connection is closed
silently*, since no handler notices and no timer runs; `playMedia` returns
*unless its own connection is refused*, since the latch is counted down on
success only; and the scripts keep theirs *unless* `tied`, `nested`, `loose`,
`reopened`, `strayed`, `shared` or `thrown`, as said above.

### Where the code does not keep what is written about it

TLC finds each of these when the exception for it is taken out of the property
that names it; the actions that lead there are in the modules.

* A stop before `ref_thread` is assigned leaves the player thread running: the
  media streams for ever (`Media.java:705`).
* A SETUP of a media that has gone throws in the handler, whose `catch` ends the
  server (`RtspServerListener.java:353`; the action `SetupOfMissing`).
* After two overlapping StopServer requests no later `stop()` reaches the stack
  that is bound (`ServerRTSP.java:196`).
* A player opened during another's handshake is told to play the media of the
  other (`ClientRTSP.java:561`).
* The old worker may connect again while its stack is being stopped, and
  `stop()` then waits for a connection nobody closes
  (`RtspClientStackImpl.java:82`).
* A click while the slides move, or after one that was made while they moved, may
  stop a media that is not the one seen (`jquery.foundation.orbit.js:512, 579`).
* `jquery-1.9.1.js:7995` says "Called once"; a request that was reopened by
  line 7977 is done twice.
* `finish()` called by the complete function of an animation of the queue that is
  over at once runs this animation a second time: `doAnimation.finish` is still
  `doAnimation` (`jquery-1.9.1.js:9130`).
* An animation without properties, and a `stop()` by the complete function of an
  animation of the queue, make the queue run two at a time (9132, 9181).

### Bounds, and why they are enough

* Two media of one title let a deletion meet a second match, a shift of the list
  under its iterator, an add that overlaps it, and a timer that meets a
  namesake.  Three media (two listed, one being added while the list shifts) are
  beyond this instance; the theorems about `ListedOnce`, `DeleteComplete` and the
  refinement are for any number.  `Capacity` is the number of media, so no add is
  refused for it.
* One connection sends any sequence of requests while the registry changes under
  each lookup; the handlers of several connections run one at a time, so what
  a second one adds is only who enters the monitor, and the theorems cover any
  number.  An id period of two milliseconds makes equal seeds frequent, and
  `MaxSessions <= IdPeriod` says that ids have not run out.
* The service needs two threads to overlap and a third to come when they have
  gone wrong; the stack count only ends the run.
* Two plays are the old and the new one.  A third would queue behind the second
  (one task at a time), and each stack has one predecessor.
* The readers' registry has media of two titles, so that a reader looks for one
  and passes another.
* The form has the three fields whose rules or visibility depend on each other or
  have two parts, and the port the servlet parses in any case; title and image
  have one rule each, like it.  Their texts are one that passes, one that fails
  and the empty one, as far as the rules tell them apart.  Two fields that ask
  are enough for an answer to meet the marks of another field.  The theorems are
  for any form, list of formats and set of texts.
* Four slides are the first with neighbours that differ in both directions and
  one that is neither; the turn of the timer is 4 degrees instead of 362, so that
  there are steps before, at and after the strike.
* Three deferreds are two and the one `when` or `then` makes of them; five deeds
  settle two, add, derive and notify.  What is settled or fired by itself is not
  counted.
* Three animations are one that runs, one that waits and one that is not queued
  or comes from a callback; two stops are one inside the other.
* Two elements are the target and the one it bubbles to; three deeds bind two
  handlers and trigger one event, or trigger one in the handler of another.
* Two requests share the counter, a name, and an order of ends that differs from
  that of starts.  A request has a timeout exactly when it is asynchronous, and
  one that is neither asynchronous nor counted adds nothing to the two.

`CHECK_DEADLOCK FALSE` is set where the system may stop: `RtspServerListener`
(the process may exit), `ClientRTSP` (the players are done or wait for ever), the
form (the page is left for good), and the scripts with bounded deeds (a page that
has done all it may do is idle).

### Fairness

* `MediaServer`: weak fairness of every thread that has been started (the JVM
  runs them), and of a servlet's add or deletion that has begun; none for
  beginning one, which no one has to do.
* `RtspServerListener`: weak fairness of the clock and of the handler; strong
  fairness for each connection to get the monitor, which Java monitors do not
  promise but a waiting connection needs, and for `GenerateSession`, whose
  retries meet every millisecond of a running clock.  The clients and the
  registry need not do anything.
* `RtspService`: weak fairness of the container's threads.  Clients may stay
  connected for ever, and `RequestsEnd` names that exception.
* `ClientRTSP`: weak fairness of the task, of the worker, of connection attempts
  and of the server's answers.  A user need not cancel, and no connection need
  be closed.
* `Orbit`: weak fairness of loading, of the end of an animation and of each
  clock, which the browser runs; none of a click.
* `Effects`, `Jsonp`: weak fairness of the library's own steps, of the return of
  a function of the page, of the interval and of each timeout; none of anything
  the page or a server may do.

## 4. The proofs

All theorems hold for every value of the constants that satisfies the modules'
assumptions (`MediaAssumption`, `ReaderAssumption`, `ListenerAssumption`,
`NullAssumption`, `ServiceAssumption`, `ClientAssumption`, `FormAssumption`,
`FormatAssumption`, `OrbitAssumption`, `AjaxAssumption`, `JsonpAssumption`,
`DeferredAssumption`, `EventsAssumption`): any number of media, connections,
threads, clients, plays, slides, requests, deferreds, elements of a branch, types
of events and deeds, any form, texts and options.  Those of the client have one hypothesis more, named
below.

**MediaServerProofs.**  `IInv` is inductive: `TypeOK`; `ThreadsAgree` (program
counters, monitor and deletion agree); `RemovalIsWithin` (what a removal copies
and clears is within the array); `SlotsAreStored`; `PassedIsClean` (what the
iterator has passed holds none of the deletion's goal); and, until two updates
overlap, `SlotsAreDistinct` (a media has at most one slot in the whole backing
array, but for the one that is moved down, which is stronger than `ListedOnce`
because the slot above `size` still counts); `ListIsTight` (the list has no hole
but the one being filled, and nothing lies above it but what is about to be
cleared); `RemovalIsTight` (a removal ends at the last slot, and the slot it copies
into holds what it removes or what it has just moved down); `OwnMediaIsGoal`.  From it follow `TypeCorrect`,
`NeverListedTwice`, `DeletionIsComplete`, `UnlistedMediaWereStopped`,
`EndedThreadsAreUnlisted`, `MediaLeaveInOrder` (the two together),
`RemovalsAreOfTheTitle`, and `RegistryImplementsOnAir`: initial states map to initial states, and every step
to a step of `OnAir` or a stutter.

The same module proves what `MediaReaders` adds.  A reader's step leaves the registry alone and every other
step is one of `MediaServer`, so `IInv` carries over.  `ReaderInv` adds
`HistoryFits` (an iterator made before a removal is out of date by it),
`SeenIsBehind` (what has been read is in no slot ahead of the reader but the one
it was moved down from, once, since slots only move down and only new media are
stored), `IteratorIsAhead` (an iterator that was not made midway passes no check
while something it has read is ahead), `UnseenIsAhead` (without a removal
what has not been read is still ahead: an `add()` that overwrites a slot takes its
media off the list) and `ReaderIsWithin` (the reader of a list without a removal is
within it).  `ReadersAreServed` states `LookupsFit`.

**ServerProofs.**  Of the handlers, `Inv` adds to `TypeOK` that the handler always
works on a received request of the right method (`HandlerInv`), and what its
lookup result means (`FoundInv`): what it found was listed during the lookup, and
finding nothing means that nothing was there throughout or that something was
removed.  `TypeCorrect`, `UniqueSessions` (an id is added only when it is new, so
count and cardinality grow together), `KnownSessions`, `SessionsAreTrusted` (the
two together) and `TrueAnswers` follow.

Of the service, `ServiceTypeCorrect` needs a counting argument (`Budget`: the
stacks created and the requests that have yet to create one stay within the
bound).  `NeverLost` rests on `Restarting`: whenever no stack is bound, some
request is on its way to bind one; only the request that closes the port, or
that finds it free, can be the last.  `TrackIsKept` rests on `Orderly`, the state
of a request that no other overlaps, phase by phase.

**ClientRTSPProofs.**  `IInv` (at the end of `ClientRTSP`, where TLC can check it)
is inductive: `OneStackWorks` (every stack but that of the field `clientStack` is
quiet, and where the task stands says how that one is); `OneThingAtATime` (a
connection carries one request or its response, or its worker is about to send);
`WhatIsUnderWayFits` (`cmd_sent` is the method of what is under way, and every
session in it has been issued); `OwnHandshakeFits` and `MediaIsTarget` (once the
task has replaced the old stack, CSeq, session and the streams that are left say
how far the handshake of the play is, and its media is that of the player);
`ToldWhenOpen`.  `HandshakesFit`,
`ResponsesFit` and `SuccessesAreComplete` follow.  They assume `MaxStrays = 0`,
that servers send responses only to requests, as the run `client` does.  A
response nobody asked for can stand between a request and its response, and what
the handlers make of it is compared with the fields alone: with strays only
`RequestsInOrder` is claimed, and that is model-checked.

**AjaxProofs.**  Any number of requests may be made in the handlers of others, so
the stack of what is executed is unbounded.  `Shape` says that on it no request
is made or ends twice, that a request ends above its making, and that `beforeSend`
stands on the making that waits for it.  `RequestInv` says of one request how its
variables fit its frames on the stack: `Sent`, `Coming`, `Ending`, `Telling`,
`Counted`.  It is local, so that `SameKeeps` and `OthersKeep` dispose of all other
requests in every step.  `AnswersComeOnce` follows.  `CounterInv` compares
`jQuery.active` with cardinalities: with the requests done twice added it is at
least the number of those still to be counted down, exactly that unless a function
of the page has thrown, and never more than the requests that owe a decrement.
With `StartsAndStops`, which is inductive by itself, it gives `CounterIsRight`.
`NamesInv` says what a name is to a request that is not settled (`OwnName`: the
function of that name is its own, and the name is not on the list of the free
ones) and what a name means (`OwnFunction`); `AnswersInv` keeps what a function was
called with to the request that has it.  They give `JsonpAnswersAreOwn`.  Writing this
proof showed that `OwnAnswers` did not hold as it stood: a JSONP request that a
handler of `ajaxSend` or `ajaxStart` aborts is sent all the same, its name is free by then,
and its script calls the function of whoever has the name now.  The run had made
JSONP requests without global events only; it makes them with events now, and
`strayed` counts those scripts.
The theorems are about `Jsonp!Spec`; `NextIsAStep` says that each of its steps is
one of `Ajax` or leaves the variables of `Ajax` alone.

**DeferredProofs.**  Functions that are called settle, notify and add themselves,
so the stack is unbounded here as well, and a list is changed while a loop below
walks it.  `DInv` is the inductive invariant.  `Stack`: the loop of a list is on
the stack once.  `LoopsFit`: a list is firing exactly while its loop is on the
stack, unless something was thrown.  `PairsFit`: each deferred has not begun to
settle (`Fresh`), or is on top of the stack in one of the three steps by which it
sets its state, disables the opposite list and locks the one for the progress
(`TurnsAt`), or is done with them (`Steady`); so nobody ever runs code of his own
between these steps.  `OrderFits`: the functions of the user that are ahead of a
loop are those that were given and not called yet, in the order in which they
were given, but for one that is being added now (`Ordered`); what still waits
further down the stack to be added is for a disabled list (`AddsFit`), because
all that can come between the two calls of `always()` is the loop of the first
list, of a deferred that has settled that way.  `ListsAreInOrder` states it, `AllFunctionsAreCalled` and
the refinement `DeferredIsPromise` follow: of all steps only three show outside,
`CallSettle`, `CallUser` and `AddUser`, and each is the step of `Promise` it
should be.

**DerivedProofs.**  What then() and when() return, the notifications and the
bounds of the lists, on top of `DInv`. What is still to be done for a derived
deferred is spread over the lists of what it goes by and all pieces of the
library down the stack, and every call moves some of it. `View` gathers it: the
links that will pass something on or count it down (`links`), the actions and
checks that are about to be called, the filters that run, and which deferreds
went which way. `Fits` is said of such a view alone: what is still to be counted
is `remaining`, less what a rejection took away (`SizeFits`); only what a
deferred goes by can settle it, and only for a reason (`LinksFit`,
`ReasonsFit`); a filter is the only one to settle what it was made for, before
it runs and while it does (`FiltersFit`, `BodiesFit`); and, so that nothing is
forgotten, whatever does not follow yet what it goes by has a link, an action, a
check or a filter that will see to it (`CountsFit`, `WillReject`,
`WillResolve`). A deferred in `tied` may be settled by what a filter for its
progress returned, so `Fits` is said twice: of the view without these (`Untied`),
and of all, as after a throw, only that the sizes fit (`Torn`). Each action changes the view in one of a dozen ways, and one
lemma for each of them (`MoveKeeps`, `ForwardKeeps`, `FilterKeeps`,
`CountKeeps`, ...) shows that `Fits` survives it. When nothing is on the stack
and nothing was thrown there is nothing left to do, and `Fits` says what
`DerivedFollow` does. After a throw only `Shape` and `SizeFits` are claimed: a
list that stays `firing` keeps its links for ever. `NInv` keeps the progress: in
the list for it, and in what this has called, the values grow (`Tells`), the
loop on the stack tells the value in memory (`LoopsTell`), what is linked to a
list is derived, so that only the user notifies what he made (`DerivedTold`),
and a function that is still to be added has heard nothing yet (`AddsTell`).
`DeedsFit` bounds the values by the deeds.  Where a filter for the progress
returns, `NInv` and what is derived need each other, so `ViewFits` proves them
together. `CallsAlwaysFit` follows.

**EventsProofs.**  A handler can bind, remove, clean and trigger, so the stack is
unbounded and the data change under every loop below it.  `IInv` has a part for
the data and a part for the stack.  The data: an identifier that was given is of
one element that has an entry, or is on the list of the deleted, once, and is less
than the next new one (`IdsFit`; without the last, an identifier could be given
twice); an entry belongs to an element, has a handler or data of the page, and has
its `handle` exactly when it has handlers (`EntriesFit`; an entry that is empty
would never be destroyed); delegates are in front and a number is bound in one
place (`TableFits`); `ListensFit`.  One lemma for each operation (`AddedKeeps`,
`RemovedKeeps`, `CleanedKeeps`, ...) shows that it keeps the four; they rest on what
`Kept` leaves of a list, which are the handlers that are not gone, in the order
they had.  `DataAgrees` follows.  The stack: what may stand on what (`Stacked`,
`Defaults`: `triggered` is `"click"` exactly while the browser's second
event stands on the default action that made it; each event is told by one frame);
that frame has called nothing of what is bound at the elements it is still to come to
(`TellsFit`); what a `dispatch()` has still to call was not called for its event and is,
with what was called, all it began with (`RestsFit`), two of them hold the same
handlers under the same numbers (`RestsAgree`); what was bound
with `one()` and called is not bound any more, and nobody else is about to call it
unless events are nested (`OneInv`); what was stopped has left no handler to call
but those of the group that stopped it (`HaltedFit`).  `CallsAreFew` follows, and
`BoundAreCalled`, the action property, from `RestsFit` when nothing is left.

**PagesProofs.**  Of the form, `AskInv` is what is kept of the requests: only the last
text of a field is under way, a field with a request under way is pending,
`pendingRequest` is the cardinality of `pending`, and a field that is not pending
and valid was accepted.  It gives `RequestsAreCounted`; with the fact that a form
which leaves the page had nothing pending (`SubmitValid`) it gives
`OnlyAcceptedIsSent`.  `ShowInv` carries labels and marks through `ShowKeeps`, one
lemma for both ways of checking, and gives `ShownIsKept`.  `HiddenInv` says that
what is hidden follows from the format, whence `NothingHiddenIsInvalid`.
`SentInv` says that every rule passed when the form left, and that the answer of
the page tells whether the servlet failed: `SentFormIsAdded` and
`AddedMediaIsComplete`.  `FormTypes` collects the types.  `TruthInv` says of
a reported field that its label tells the truth about its text unless the user is
in it or its answer is awaited, also between the parts of a function that runs:
`ReportsTellTheTruth`.  `AllAnswersAreAwaited`,
`WhatIsShownFits` and `WhatIsSentFits` state the conjunctions that the run checks.

Of the slider, `OneSlideOneClock` needs to know how the slide in front follows
from the active one: before it is loaded a slider is untouched (`Untouched`),
afterwards its count is right (`SetUpOnce`), the lock is held exactly while the
active slide moves in (`LockFits`), and the active slide lies over the others while
it moves, and afterwards unless a refused `shift()` made it the slide before
(`ActiveInFront`).
`OneSlideAndOneClock` is the invariant; `LeftBehind` says which slides lie right below
the active one, and gives `ButtonsOfSeenOrLeft`, the action property
`PressesSeenOrLeft`.

**Only model-checked:** the liveness properties and everything about `ENABLED`,
which are beyond the prover; `ConversionsFit`, which says what a recursive walk
computes for every list of types, and would need induction over data;
`RequestsInOrder`, the action property of the client that also holds with strays;
and the safety of `Effects` (`TimersFit` and `QueueFits`), whose proofs have not
been written.

## 5. Not modelled, and the plan

Not modelled for good: message parsing and the netty pipeline classes (no state
that outlives a message), configuration and logging, upload parsing and HTML,
the desktop demonstration clients, the Maven repository and packaged
applications that are kept in the tree.  Of jQuery: selectors, the tree of the
document, styles, serialisation, the headers and URLs of requests, `statusCode`,
the cache of ifModified, the values of tweens, custom queues, mouse and key
details, the repairs for old browsers, and `remove`, `unique` and `stopOnFalse`
of callbacks, which its own lists do not use.  Of the validation plugin: groups,
checkable fields, `submitHandler`, cancel buttons, `resetForm` and wording.  Of
the slider: the options that are off in every page.

The order of the modules was: registry with its threads (most of the sharing
without a monitor is there), its readers, the handlers, the service, the client,
then the pages: form, slider, and the parts of jQuery they run on.
Next, in this order:

1. **Recorders** (`RecorderController`): the controller thread, `start`, `stop`
   and the drawing thread with its wait, notify and queues; two recorders and
   two frames each; that a stopped recorder stays stopped, that a frame is given
   back once and after it was drawn, that due frames are eventually drawn.
2. **Frame buffers** (`VideoBuffers`): `freeFrames`, `usedFrames` and
   `memoryUsed` with the recorders that free them; no buffer both free and in
   use; what is counted is what exists.
3. **Joinables**: the monitors of two objects nested in both orders; symmetry of
   the two connection lists; deadlock.
4. **Tear-down** (`Teardown`): datagrams lost or doubled, the waiting threads of
   an activity, and its life cycle; composed with `OnAir` for when it is sent.
5. **Client and server together**: the client of `ClientRTSP` over the handlers
   of `RtspServerListener`, instead of the abstract server it has now.
6. **Numeric parts**: the running mean of the start time, against a reference
   definition over bounded inputs.
7. **Proofs**: `TimersFit` and `QueueFits` of the effects; `RequestsInOrder` for any number of strays; then the
   safety of the modules above.
