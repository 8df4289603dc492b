------------------------------ MODULE Deferred ------------------------------
(***************************************************************************)
(* jQuery.Deferred and jQuery.when: three lists of callbacks for each      *)
(* deferred, which settle it and call what was added with done(), fail()   *)
(* and progress(); then(), which makes a deferred that follows another     *)
(* one; and when(), which makes one that waits for two.                    *)
(*                                                                         *)
(* JavaScript runs one call at a time, but a function that is called may   *)
(* itself resolve, reject, notify and add: `calls' is the stack of what is *)
(* being executed, the innermost first, and user code, at the bottom and   *)
(* in every function of the user, does what it likes.  A function that     *)
(* throws takes the whole stack with it, and nothing tidies up after it.   *)
(***************************************************************************)
EXTENDS Callbacks, FiniteSets

CONSTANTS
  Deferreds,   \* the deferreds there is room for
  Fn,          \* the functions of the user
  MaxDeeds     \* how much the user does that cannot be undone: deferreds,
               \*   functions, notifications and an exception

Actions == {"resolve", "reject", "notify"}
Settling == {"resolve", "reject"}
Opposite(a) == IF a = "resolve" THEN "reject" ELSE "resolve"

(* What a list holds: functions of the user; those that settle a deferred; *)
(* the actions of another deferred; the filters of then(); those of when().*)
User(f)       == [does |-> "user", f |-> f]
Settle(d, a)  == [does |-> "settle", d |-> d, a |-> a]
Disable(d, a) == [does |-> "disable", d |-> d, a |-> a]
Lock(d, a)    == [does |-> "lock", d |-> d, a |-> a]
Forward(d, a) == [does |-> "forward", d |-> d, a |-> a]
Filter(d, a, f) == [does |-> "filter", d |-> d, a |-> a, f |-> f]
Count(d)      == [does |-> "count", d |-> d]

(* Those that a deferred is made with, and those that are added to it.     *)
Firsts(M) == [does : {"settle", "disable", "lock"}, d : M, a : Actions]
Others(M) ==
  [does : {"user"}, f : Fn] \cup [does : {"forward"}, d : M, a : Actions]
  \cup [does : {"filter"}, d : M, a : Actions, f : Fn \cup {Off}]
  \cup [does : {"count"}, d : M]

(* Undefined is neither an object, nor a number, nor a list.               *)
ASSUME DeferredAssumption ==
  /\ Off \notin Deferreds \cup Fn \cup Nat
            \cup Seq(Firsts(Deferreds) \cup Others(Deferreds))
  /\ MaxDeeds \in Nat

VARIABLES
  owned,       \* the deferreds the user made, and may settle
  derived,     \* those of then() and when(), of which only the promise is seen
  state,       \* the variable of that name, by the action that set it
  cb,          \* cb[d][a]: the list that the action a fires
  remaining,   \* of a deferred that when() made
  calls,       \* the stack
  unused,      \* the functions that were not added anywhere yet
  notified,    \* how often notify() was called
  given, called,  \* the functions added to a list, and called by it
  follows,     \* the deferreds a derived one goes by
  tied,        \* the derived ones that a filter for the progress has given
               \*   a promise to go by as well
  thrown       \* a function has thrown

lists == <<state, cb, remaining>>
history == <<given, called, follows, tied, thrown>>
vars == <<owned, derived, lists, calls, unused, notified, history>>

Made == owned \cup derived
EachList(x) == [d \in Deferreds |-> [a \in Actions |-> x]]

Init ==
  /\ owned = {} /\ derived = {}
  /\ state = [d \in Deferreds |-> "no"]
  /\ cb = EachList(NewList(TRUE))
  /\ remaining = [d \in Deferreds |-> 0]
  /\ calls = <<>>
  /\ unused = Fn /\ notified = 0
  /\ given = EachList(<<>>) /\ called = EachList(<<>>)
  /\ follows = [d \in Deferreds |-> {}]
  /\ tied = {} /\ thrown = FALSE

(* Mutant of NewLists: one that is resolved may still be rejected.         *)
ListsApart(d) ==
  [a \in Actions |->
     IF a = "notify" THEN NewList(FALSE)
     ELSE Added(Added(NewList(TRUE), Settle(d, a)), Lock(d, "notify"))]

(* Deferred(): the lists of a new deferred.                                *)
NewLists(d) ==
  [a \in Actions |->
     IF a = "notify" THEN NewList(FALSE)
     ELSE Added(Added(Added(NewList(TRUE), Settle(d, a)),
                      Disable(d, Opposite(a))), Lock(d, "notify"))]

(* What is on the stack: the loop of fire(), the calls that a piece of the *)
(* library has still to make, a function of the user.                      *)
Loop(d, a, v) == [runs |-> "loop", d |-> d, a |-> a, v |-> v]
Library(todo) == [runs |-> "library", todo |-> todo]
Body(f, d, a) == [runs |-> "body", f |-> f, d |-> d, a |-> a]

Adds(d, a, f) == [call |-> "add", d |-> d, a |-> a, f |-> f]
Fires(d, a, v) == [call |-> "fire", d |-> d, a |-> a, v |-> v]
Checks(d) == [call |-> "check", d |-> d]

-----------------------------------------------------------------------------
(* The two calls everything is made of; `rest' is the stack below.         *)
Fire(d, a, v, rest) ==
  IF MayFire(cb[d][a])
  THEN /\ cb' = [cb EXCEPT ![d][a] = Fired(@, v)]
       /\ calls' = IF cb[d][a].firing THEN rest ELSE <<Loop(d, a, v)>> \o rest
  ELSE /\ calls' = rest
       /\ UNCHANGED cb

Add(d, a, f, rest) ==
  IF CallsAtOnce(cb[d][a])
  THEN /\ cb' = [cb EXCEPT ![d][a] = Started(Added(@, f), @.memory)]
       /\ calls' = <<Loop(d, a, cb[d][a].memory)>> \o rest
  ELSE /\ cb' = [cb EXCEPT ![d][a] = Added(@, f)]
       /\ calls' = rest

Top == Head(calls)
Below == Tail(calls)
Running(what) == calls # <<>> /\ Top.runs = what

(* One step of the loop of fire().                                         *)
Looping ==
  /\ Running("loop") /\ HasNext(cb[Top.d][Top.a])

Item == NextOf(cb[Top.d][Top.a])
Advance == [cb EXCEPT ![Top.d][Top.a] = Advanced(@)]

CallUser ==
  /\ Looping /\ Item.does = "user"
  /\ cb' = Advance
  /\ called' = [called EXCEPT ![Top.d][Top.a] =
                  Append(@, IF Top.a = "notify" THEN <<Item.f, Top.v>>
                                                ELSE Item.f)]
  /\ calls' = <<Body(Item.f, Off, Off)>> \o calls
  /\ UNCHANGED <<owned, derived, state, remaining, unused, notified, given,
                 follows, tied, thrown>>

CallSettle ==
  /\ Looping /\ Item.does \in {"settle", "disable", "lock"}
  /\ state' = IF Item.does = "settle" THEN [state EXCEPT ![Item.d] = Item.a]
              ELSE state
  /\ cb' = IF Item.does = "disable"
           THEN [Advance EXCEPT ![Item.d][Item.a] = Disabled(@)]
           ELSE IF Item.does = "lock"
           THEN [Advance EXCEPT ![Item.d][Item.a] = Locked(@)]
           ELSE Advance
  /\ UNCHANGED <<owned, derived, remaining, calls, unused, notified, history>>

(* An action of another deferred: it is fired when this step has returned. *)
CallForward ==
  /\ Looping
  /\ \/ Item.does = "forward"
     \/ Item.does = "filter" /\ Item.f = Off
  /\ cb' = Advance
  /\ calls' = <<Library(<<Fires(Item.d, Item.a, Top.v)>>)>> \o calls
  /\ UNCHANGED <<owned, derived, state, remaining, unused, notified, history>>

CallFilter ==
  /\ Looping /\ Item.does = "filter" /\ Item.f # Off
  /\ cb' = Advance
  /\ calls' = <<Body(Item.f, Item.d, Item.a)>> \o calls
  /\ UNCHANGED <<owned, derived, state, remaining, unused, notified, history>>

(* Mutant of CallCount: the last but one resolves.                         *)
CountTooSoon ==
  /\ Looping /\ Item.does = "count"
  /\ cb' = Advance
  /\ remaining' = [remaining EXCEPT ![Item.d] = @ - 1]
  /\ calls' = IF remaining[Item.d] = 2
              THEN <<Library(<<Fires(Item.d, "resolve", 0)>>)>> \o calls
              ELSE calls
  /\ UNCHANGED <<owned, derived, state, unused, notified, history>>

(* The function of when() for the values: the last one resolves.           *)
CallCount ==
  /\ Looping /\ Item.does = "count"
  /\ cb' = Advance
  /\ remaining' = [remaining EXCEPT ![Item.d] = @ - 1]
  /\ calls' = IF remaining[Item.d] = 1
              THEN <<Library(<<Fires(Item.d, "resolve", 0)>>)>> \o calls
              ELSE calls
  /\ UNCHANGED <<owned, derived, state, unused, notified, history>>

EndLoop ==
  /\ Running("loop") /\ ~HasNext(cb[Top.d][Top.a])
  /\ LET c == cb[Top.d][Top.a]
     IN  IF FiresAgain(c)
         THEN /\ cb' = [cb EXCEPT ![Top.d][Top.a] = Again(@)]
              /\ calls' = <<Loop(Top.d, Top.a, Head(c.waiting))>> \o Below
         ELSE /\ cb' = [cb EXCEPT ![Top.d][Top.a] = Ended(@)]
              /\ calls' = Below
  /\ UNCHANGED <<owned, derived, state, remaining, unused, notified, history>>

(* The next call of a piece of the library.                                *)
CallLibrary ==
  /\ Running("library")
  /\ LET todo == Top.todo
         rest == IF Len(todo) = 1 THEN Below
                 ELSE <<Library(Tail(todo))>> \o Below
         it == Head(todo)
     IN  \/ it.call = "add" /\ Add(it.d, it.a, it.f, rest)
         \/ it.call = "fire" /\ Fire(it.d, it.a, it.v, rest)
         \/ /\ it.call = "check"
            /\ IF remaining[it.d] = 0
               THEN Fire(it.d, "resolve", 0, rest)
               ELSE calls' = rest /\ UNCHANGED cb
  /\ UNCHANGED <<owned, derived, state, remaining, unused, notified, history>>

-----------------------------------------------------------------------------
(* User code, at the bottom of the stack or in a function that was called. *)
UserCode == calls = <<>> \/ Running("body")
Deeds == Cardinality(Made) + Cardinality(Fn \ unused) + notified
         + (IF thrown THEN 1 ELSE 0)
MayDo(n) == UserCode /\ Deeds + n <= MaxDeeds

MakeDeferred(d) ==
  /\ MayDo(1) /\ d \notin Made
  /\ owned' = owned \cup {d}
  /\ cb' = [cb EXCEPT ![d] = NewLists(d)]
  /\ UNCHANGED <<derived, state, remaining, calls, unused, notified, history>>

(* done(), fail() and progress(), and always() for the first two.          *)
AddUser(d, as, f) ==
  /\ MayDo(1) /\ d \in Made /\ f \in unused
  /\ unused' = unused \ {f}
  /\ given' = [given EXCEPT ![d] =
                 [a \in Actions |-> IF a \in as THEN Append(@[a], f) ELSE @[a]]]
  /\ calls' = <<Library(IF as = Settling
                        THEN <<Adds(d, "resolve", User(f)),
                               Adds(d, "reject", User(f))>>
                        ELSE <<Adds(d, CHOOSE a \in as : TRUE, User(f))>>)>>
              \o calls
  /\ UNCHANGED <<owned, derived, lists, notified, called, follows, tied,
                 thrown>>

(* resolve(), reject() and notify().                                       *)
Act(d, a) ==
  /\ UserCode /\ d \in owned
  /\ a = "notify" => MayDo(1)
  /\ notified' = IF a = "notify" THEN notified + 1 ELSE notified
  /\ Fire(d, a, IF a = "notify" THEN notified + 1 ELSE 0, calls)
  /\ UNCHANGED <<owned, derived, state, remaining, unused, history>>

(* then(), with a filter for one of the actions, or without filters.       *)
Then(d, n, a, f) ==
  /\ MayDo(IF f = Off THEN 1 ELSE 2) /\ d \in Made /\ n \notin Made
  /\ f \in unused \cup {Off}
  /\ unused' = unused \ {f}
  /\ derived' = derived \cup {n}
  /\ follows' = [follows EXCEPT ![n] = {d}]
  /\ cb' = [cb EXCEPT ![n] = NewLists(n)]
  /\ LET adds(b) == Adds(d, b, Filter(n, b, IF a = b THEN f ELSE Off))
     IN  calls' = <<Library(<<adds("resolve"), adds("reject"),
                              adds("notify")>>)>> \o calls
  /\ UNCHANGED <<owned, state, remaining, notified, given, called, tied,
                 thrown>>

(* Mutant of When: what is resolved is not counted, and yet counted down.  *)
WhenPending(d, e, n) ==
  /\ MayDo(1) /\ d \in Made /\ e \in Made \cup {Off} /\ n \notin Made
  /\ derived' = derived \cup {n}
  /\ follows' = [follows EXCEPT ![n] = {d, e} \ {Off}]
  /\ remaining' = [remaining EXCEPT ![n] =
                     IF e = Off \/ state[d] = "resolve" THEN 1 ELSE 2]
  /\ cb' = [cb EXCEPT ![n] = NewLists(n)]
  /\ LET adds(s) == <<Adds(s, "resolve", Count(n)),
                      Adds(s, "reject", Forward(n, "reject")),
                      Adds(s, "notify", Forward(n, "notify"))>>
     IN  calls' = <<Library(adds(d)
                            \o (IF e = Off THEN <<>> ELSE adds(e))
                            \o <<Checks(n)>>)>> \o calls
  /\ UNCHANGED <<owned, state, unused, notified, given, called, tied, thrown>>

(* when(), of two deferreds or of one and a value that is none.            *)
When(d, e, n) ==
  /\ MayDo(1) /\ d \in Made /\ e \in Made \cup {Off} /\ n \notin Made
  /\ derived' = derived \cup {n}
  /\ follows' = [follows EXCEPT ![n] = {d, e} \ {Off}]
  /\ remaining' = [remaining EXCEPT ![n] = IF e = Off THEN 1 ELSE 2]
  /\ cb' = [cb EXCEPT ![n] = NewLists(n)]
  /\ LET adds(s) == <<Adds(s, "resolve", Count(n)),
                      Adds(s, "reject", Forward(n, "reject")),
                      Adds(s, "notify", Forward(n, "notify"))>>
     IN  calls' = <<Library(adds(d)
                            \o (IF e = Off THEN <<>> ELSE adds(e))
                            \o <<Checks(n)>>)>> \o calls
  /\ UNCHANGED <<owned, state, unused, notified, given, called, tied, thrown>>

(* A function of the user returns; a filter returns a value, which is      *)
(* forwarded, or the promise of a deferred that does not wait for the new  *)
(* one, which goes by it from now on.  A filter for the progress is called *)
(* for every notification; what it returns comes on top of what the new    *)
(* one goes by.                                                            *)
Return ==
  /\ Running("body") /\ Top.d = Off
  /\ calls' = Below
  /\ UNCHANGED <<owned, derived, lists, unused, notified, history>>

ReturnValue ==
  /\ Running("body") /\ Top.d # Off
  /\ calls' = <<Library(<<Fires(Top.d, Top.a, 0)>>)>> \o Below
  /\ UNCHANGED <<owned, derived, lists, unused, notified, history>>

ReturnPromise(p) ==
  /\ Running("body") /\ Top.d # Off /\ p \in Made
  /\ p # Top.d /\ Top.d \notin follows[p]
  /\ IF Top.a = "notify"
     THEN tied' = tied \cup {Top.d} /\ UNCHANGED follows
     ELSE follows' = [follows EXCEPT ![Top.d] = {p}] /\ UNCHANGED tied
  /\ LET adds(a) == Adds(p, a, Forward(Top.d, a))
     IN  calls' = <<Library(<<adds("resolve"), adds("reject"),
                              adds("notify")>>)>> \o Below
  /\ UNCHANGED <<owned, derived, lists, unused, notified, given, called,
                 thrown>>

Throw ==
  /\ Running("body") /\ (thrown \/ MayDo(1))
  /\ calls' = <<>>
  /\ thrown' = TRUE
  /\ UNCHANGED <<owned, derived, lists, unused, notified, given, called,
                 follows, tied>>

LibraryStep ==
  \/ CallUser \/ CallSettle \/ CallForward \/ CallFilter \/ CallCount
  \/ EndLoop \/ CallLibrary

UserStep ==
  \/ \E d \in Deferreds : MakeDeferred(d)
  \/ \E d \in Deferreds, f \in Fn :
       \/ \E a \in Actions : AddUser(d, {a}, f)
       \/ AddUser(d, Settling, f)
  \/ \E d \in Deferreds, a \in Actions : Act(d, a)
  \/ \E d, n \in Deferreds, a \in Actions, f \in Fn \cup {Off} :
       Then(d, n, a, f)
  \/ \E d, n \in Deferreds, e \in Deferreds \cup {Off} : When(d, e, n)
  \/ Return \/ ReturnValue \/ Throw
  \/ \E p \in Deferreds : ReturnPromise(p)

Next == LibraryStep \/ UserStep

Spec == Init /\ [][Next]_vars

-----------------------------------------------------------------------------
(* The types, the indices of a loop within its list, and that only the     *)
(* list for the progress may be fired again.                               *)
TypeOK ==
  /\ owned \subseteq Deferreds /\ derived \subseteq Deferreds
  /\ state \in [Deferreds -> Settling \cup {"no"}]
  /\ unused \subseteq Fn /\ notified \in 0 .. MaxDeeds
  /\ remaining \in [Deferreds -> 0 .. 2] /\ tied \subseteq derived
  /\ \A d \in Deferreds, a \in Actions :
       LET c == cb[d][a]
       IN  /\ c.list # Off => /\ c.firingIndex <= c.firingLength
                              /\ c.firingLength <= Len(c.list) \/ ~c.firing
           /\ a # "notify" => c.waiting = Off

Idle == calls = <<>> /\ ~thrown

(* When the script has returned and nothing was thrown, every deferred     *)
(* that is settled has called all the functions it was given for it        *)
(* (jquery-1.9.1.js:1057-1087).                                            *)
AllAreCalled ==
  Idle => \A d \in Made, a \in Settling :
            state[d] = a => called[d][a] = given[d][a]

(* A function for the progress of a deferred is told of a notification     *)
(* once at most, and of the earlier one first, although notify() may be    *)
(* called by such a function while the others have still to be told.       *)
ProgressInOrder ==
  \A d \in owned :
    \A i, j \in DOMAIN called[d]["notify"] :
      LET x == called[d]["notify"][i]
          y == called[d]["notify"][j]
      IN  i < j /\ x[1] = y[1] => x[2] < y[2]

(* What then() and when() return is settled like what it goes by: all of   *)
(* it resolved, or one of it rejected.  The exception is a deferred to     *)
(* which a filter for the progress has returned a promise: it is settled   *)
(* by whichever is first (jquery-1.9.1.js:1184-1197).                      *)
DerivedFollow ==
  Idle => \A n \in derived \ tied :
            /\ state[n] = "resolve" <=>
                 \A d \in follows[n] : state[d] = "resolve"
            /\ state[n] = "reject" <=>
                 \E d \in follows[n] : state[d] = "reject"

(* However its lists are changed and fired from within each other, a list  *)
(* stays within its bounds, calls in the order of what it was told, and    *)
(* what is derived is settled like what it goes by, unless a filter for    *)
(* the progress has tied it to something else                              *)
(* (jquery-1.9.1.js:1029-1157, 1184-1197).                                 *)
CallsFit == TypeOK /\ ProgressInOrder /\ DerivedFollow

(* A deferred keeps what a promise promises, thrown functions or not.      *)
P == INSTANCE Promise WITH
       Promises <- Deferreds, Functions <- Fn, settled <- state,
       given <- [d \in Deferreds |-> [w \in Settling |-> given[d][w]]],
       called <- [d \in Deferreds |-> [w \in Settling |-> called[d][w]]]
IsPromise == P!Spec
=============================================================================
