------------------------------- MODULE Events -------------------------------
(***************************************************************************)
(* jQuery's events: the handlers of an element, kept in its private data;  *)
(* the listener that the browser calls, and that is there as long as the   *)
(* element has a handler for the event; trigger(), which walks from the    *)
(* element to its ancestors; dispatch(), which calls the handlers of one   *)
(* element; and the identifiers of the private data, which are used again  *)
(* when an element has lost its data.                                      *)
(*                                                                         *)
(* The elements 1 .. Depth are a branch of the document, 1 the innermost.  *)
(* A handler may change what is bound and trigger events itself: `calls'   *)
(* is the stack of what is being executed, the innermost first.            *)
(***************************************************************************)
EXTENDS Naturals, Sequences, SequencesExt, FiniteSets

CONSTANTS
  Depth,
  Types,       \* of events: "focusin" is made of "focus", "click" can be
               \*   called as a method of the element, "keyup" is neither
  Fn,          \* the functions that are bound
  Spaced,      \* those that are bound with a namespace
  MaxDeeds,    \* how many handlers are bound and events come
  WithPublic,  \* the elements that the page gives data of its own
  Off          \* undefined

Elements == 1 .. Depth
Special == {"focusin", "click"}   \* the types of jQuery.event.special

(* The private data of an element.                                         *)
Handler == [n : 1 .. MaxDeeds, type : Types, fn : Fn, sel : BOOLEAN,
            one : BOOLEAN]
Entries == [events : [Types -> Seq(Handler)], handle : BOOLEAN,
            public : BOOLEAN]

(* Undefined is not the data of an element.                                *)
ASSUME EventsAssumption ==
  /\ Depth \in Nat \ {0} /\ MaxDeeds \in Nat
  /\ WithPublic \subseteq Elements
  /\ Off \notin Entries

VARIABLES
  data,        \* the private data, the expandos and the listeners
  triggered,   \* jQuery.event.triggered
  calls,       \* the stack
  bound,       \* how many handlers were bound
  events,      \* how many events there were
  times,       \* how often a handler was called for an event
  halted,      \* where a handler has stopped an event
  spent,       \* how often what was bound with one() was called
  nested       \* an event was triggered while one of its type was dispatched

vars == <<data, triggered, calls, bound, events, times, halted, spent, nested>>

NoEvents == [t \in Types |-> <<>>]
NoEntry == [events |-> NoEvents, handle |-> FALSE, public |-> FALSE]

NoTimes == [v \in 1 .. MaxDeeds |-> [n \in 1 .. MaxDeeds |-> 0]]
NotHalted == [v \in 1 .. MaxDeeds |-> Off]

Init ==
  /\ data = [id |-> [e \in Elements |-> 0],        \* elem[jQuery.expando]
             cache |-> [i \in Elements |-> Off],   \* jQuery.cache
             deleted |-> <<>>,                     \* core_deletedIds
             guid |-> 1,
             listens |-> [e \in Elements |-> {}],
             attaches |-> 0]
  /\ triggered = Off
  /\ calls = <<>>
  /\ bound = 0 /\ events = 0
  /\ times = NoTimes
  /\ halted = NotHalted /\ spent = [n \in 1 .. MaxDeeds |-> 0]
  /\ nested = FALSE

-----------------------------------------------------------------------------
(* The private data: d is a value of `data'.                               *)
HasData(d, e) == d.id[e] # 0 /\ d.cache[d.id[e]] # Off
Handlers(d, e, t) ==
  IF HasData(d, e) THEN d.cache[d.id[e]].events[t] ELSE <<>>

(* internalData(): an element without an identifier gets one that was used *)
(* before, or a new one.                                                   *)
WithData(d, e) ==
  IF d.id[e] # 0 THEN d
  ELSE LET again == d.deleted # <<>>
           i == IF again THEN Last(d.deleted) ELSE d.guid
       IN  [d EXCEPT !.id[e] = i,
                     !.cache[i] = IF @ = Off THEN NoEntry ELSE @,
                     !.deleted = IF again THEN Front(@) ELSE @,
                     !.guid = IF again THEN @ ELSE @ + 1]

(* The last lines of cleanData().                                          *)
Destroyed(d, e, i) ==
  [d EXCEPT !.cache[i] = Off, !.id[e] = 0, !.deleted = Append(@, i)]

(* internalRemoveData(): an entry in which nothing is left is destroyed.   *)
DestroyedIfEmpty(d, e) ==
  IF HasData(d, e) /\ d.cache[d.id[e]] = NoEntry
  THEN Destroyed(d, e, d.id[e]) ELSE d

(* The listener of the browser, or, for an event that is made of another   *)
(* one, the count of the elements that want it.                            *)
Listening(d, e, t) ==
  IF t = "focusin" THEN [d EXCEPT !.attaches = @ + 1]
  ELSE [d EXCEPT !.listens[e] = @ \cup {t}]
Deaf(d, e, ts) ==
  [d EXCEPT !.listens[e] = @ \ ts,
            !.attaches = IF "focusin" \in ts THEN @ - 1 ELSE @]

(* handlers.delegateCount, which goes up and down with every delegate.     *)
Delegates(list) == Cardinality({k \in DOMAIN list : list[k].sel})

(* Mutant of Added: the handlers are kept as they were bound.              *)
AddedLast(d, e, h) ==
  LET has == WithData(d, e)
      list == Handlers(has, e, h.type)
      hears == IF list = <<>> THEN Listening(has, e, h.type) ELSE has
  IN  [hears EXCEPT !.cache[has.id[e]] =
         [@ EXCEPT !.events[h.type] = Append(list, h), !.handle = TRUE]]

(* jQuery.event.add(): delegates in front.                                 *)
Added(d, e, h) ==
  LET has == WithData(d, e)
      list == Handlers(has, e, h.type)
      listed == IF h.sel THEN InsertAt(list, Delegates(list) + 1, h)
                         ELSE Append(list, h)
      hears == IF list = <<>> THEN Listening(has, e, h.type) ELSE has
  IN  [hears EXCEPT !.cache[has.id[e]] =
         [@ EXCEPT !.events[h.type] = listed, !.handle = TRUE]]

(* What is left of a list: the k-th is the one with k - 1 of them before.  *)
Kept(list, gone) ==
  LET places == {i \in DOMAIN list : list[i] \notin gone}
      before(i) == Cardinality({j \in places : j < i})
  IN  [k \in 1 .. Cardinality(places) |->
         list[CHOOSE i \in places : before(i) = k - 1]]

Left(d, e, ts, gone) ==
  [t \in Types |-> IF t \in ts THEN Kept(Handlers(d, e, t), gone)
                               ELSE Handlers(d, e, t)]
WithLeft(d, e, left) ==
  [d EXCEPT !.cache[d.id[e]] =
     [@ EXCEPT !.events = left, !.handle = \E t \in Types : left[t] # <<>>]]

(* Mutant of Removed: the listener of the browser is forgotten.            *)
RemovedOnly(d, e, ts, gone) ==
  IF \A t \in ts : Handlers(d, e, t) = <<>> THEN d
  ELSE DestroyedIfEmpty(WithLeft(d, e, Left(d, e, ts, gone)), e)

(* jQuery.event.remove(), for some types: `gone' are the handlers to       *)
(* remove.                                                                 *)
Removed(d, e, ts, gone) ==
  LET left == Left(d, e, ts, gone)
      over == {t \in ts : Handlers(d, e, t) # <<>> /\ left[t] = <<>>}
  IN  IF \A t \in ts : Handlers(d, e, t) = <<>> THEN d
      ELSE DestroyedIfEmpty(Deaf(WithLeft(d, e, left), e, over), e)

AllOf(d, e, ts) == UNION {ToSet(Handlers(d, e, t)) : t \in ts}

(* What cleanData() takes from an element that has data: the listeners of  *)
(* most types, and the handlers of the others.                             *)
Stripped(d, e) ==
  LET plain == {t \in Types \ Special : Handlers(d, e, t) # <<>>}
      special == Special \cap Types
  IN  Removed(Deaf(d, e, plain), e, special, AllOf(d, e, special))

(* Mutant of Cleaned: what has been destroyed is destroyed again.          *)
CleanedAgain(d, e) ==
  IF HasData(d, e) THEN Destroyed(Stripped(d, e), e, d.id[e]) ELSE d

(* cleanData(), for one element: jQuery.event.remove() may have destroyed  *)
(* the entry already.                                                      *)
Cleaned(d, e) ==
  LET s == Stripped(d, e)
  IN  IF ~HasData(d, e) THEN d
      ELSE IF s.cache[d.id[e]] # Off THEN Destroyed(s, e, d.id[e]) ELSE s

-----------------------------------------------------------------------------
(* The stack: a native event that is at the element `at', trigger(), what  *)
(* it does last, dispatch() with the handlers it has still to call, a      *)
(* handler, and cleanData().  `v' tells the event.                         *)
Native(v, t, e) ==
  [runs |-> "native", v |-> v, type |-> t, target |-> e, at |-> e,
   stopped |-> FALSE]
Triggering(v, t, e, spaced) ==
  [runs |-> "trigger", v |-> v, type |-> t, target |-> e, at |-> e,
   spaced |-> spaced, stopped |-> FALSE, prevented |-> FALSE]
Default == [runs |-> "default"]
Body(h) == [runs |-> "body", h |-> h]
Cleaning(e) == [runs |-> "clean", at |-> e]

Top == Head(calls)
Below == Tail(calls)
Running(what) == calls # <<>> /\ Top.runs = what
UserCode == calls = <<>> \/ Running("body")

(* jQuery.event.handlers(): those of the elements between the target and   *)
(* this one that a selector matches, which is the innermost, and then its  *)
(* own.  A copy: what is bound and removed from now on does not matter.    *)
HandlerQueue(e, t, target) ==
  LET list == Handlers(data, e, t)
  IN  IF target = 1 /\ e # 1 THEN list
      ELSE SubSeq(list, Delegates(list) + 1, Len(list))

Dispatching(f, e) ==
  [runs |-> "dispatch", v |-> f.v, type |-> f.type, target |-> f.target,
   at |-> e, rest |-> HandlerQueue(e, f.type, f.target), group |-> Off,
   spaced |-> f.runs = "trigger" /\ f.spaced,
   stopped |-> FALSE, immediate |-> FALSE, prevented |-> FALSE,
   had |-> {h.n : h \in ToSet(HandlerQueue(e, f.type, f.target))},
   since |-> bound]

(* What is below goes on; what was noted of the events is forgotten when   *)
(* they are over.                                                          *)
Continue(stack) ==
  /\ calls' = stack
  /\ times' = IF stack = <<>> THEN NoTimes ELSE times
  /\ halted' = IF stack = <<>> THEN NotHalted ELSE halted

(* Mutant of CallListener: the second event of a trigger() is not known.   *)
CallListenerAgain ==
  /\ Running("native")
  /\ LET e == Top.at
         up == [Top EXCEPT !.at = @ + 1]
     IN  Continue(IF e \notin Elements \/ Top.stopped THEN Below
                  ELSE IF Top.type \in data.listens[e]
                  THEN <<Dispatching(Top, e), up>> \o Below
                  ELSE <<up>> \o Below)
  /\ UNCHANGED <<data, triggered, bound, events, spent, nested>>

(* The handle of an element, called by the browser.                        *)
CallListener ==
  /\ Running("native")
  /\ LET e == Top.at
         up == [Top EXCEPT !.at = @ + 1]
     IN  Continue(IF e \notin Elements \/ Top.stopped THEN Below
                  ELSE IF Top.type \in data.listens[e] /\ triggered # Top.type
                  THEN <<Dispatching(Top, e), up>> \o Below
                  ELSE <<up>> \o Below)
  /\ UNCHANGED <<data, triggered, bound, events, spent, nested>>

(* A step of trigger() on its path, or its default action, for which it    *)
(* calls the method of the element that makes the same event again.        *)
WalkPath ==
  /\ Running("trigger") /\ Top.at \in Elements /\ ~Top.stopped
  /\ LET up == [Top EXCEPT !.at = @ + 1]
     IN  calls' = IF Handlers(data, Top.at, Top.type) # <<>>
                     /\ triggered # Top.type
                  THEN <<Dispatching(Top, Top.at), up>> \o Below
                  ELSE <<up>> \o Below
  /\ UNCHANGED <<data, triggered, bound, events, times, halted, spent, nested>>

EndTrigger ==
  /\ Running("trigger")
  /\ Top.at \notin Elements \/ Top.stopped
  /\ IF Top.type = "click" /\ ~Top.prevented
     THEN /\ triggered' = "click"
          /\ Continue(<<Native(Top.v, "click", Top.target), Default>> \o Below)
     ELSE Continue(Below) /\ UNCHANGED triggered
  /\ UNCHANGED <<data, bound, events, spent, nested>>

EndDefault ==
  /\ Running("default")
  /\ triggered' = Off
  /\ Continue(Below)
  /\ UNCHANGED <<data, bound, events, spent, nested>>

(* Mutant of HasNext: what was removed meanwhile is looked up.             *)
HasNextBound ==
  /\ Top.rest # <<>> /\ ~Top.immediate
  /\ Top.stopped => Head(Top.rest).sel = Top.group
  /\ Contains(Handlers(data, Top.at, Top.type), Head(Top.rest))

(* dispatch(): the next handler, unless the propagation was stopped at an  *)
(* inner element, or at once.  One that was bound with one() is removed    *)
(* before it is called, with all that off() takes for the same.            *)
HasNext ==
  /\ Top.rest # <<>> /\ ~Top.immediate
  /\ Top.stopped => Head(Top.rest).sel = Top.group

(* Mutant of CallHandler: one() is taken for on().                         *)
CallHandlerOn ==
  /\ Running("dispatch") /\ HasNext
  /\ LET h == Head(Top.rest)
         next == [Top EXCEPT !.rest = Tail(@), !.group = h.sel]
     IN  IF Top.spaced /\ h.fn \notin Spaced
         THEN calls' = <<next>> \o Below /\ UNCHANGED <<times, spent>>
         ELSE /\ calls' = <<Body(h), next>> \o Below
              /\ times' = [times EXCEPT ![Top.v][h.n] = @ + 1]
              /\ spent' = IF h.one THEN [spent EXCEPT ![h.n] = @ + 1] ELSE spent
  /\ UNCHANGED <<data, triggered, bound, events, halted, nested>>

CallHandler ==
  /\ Running("dispatch") /\ HasNext
  /\ LET h == Head(Top.rest)
         next == [Top EXCEPT !.rest = Tail(@), !.group = h.sel]
         same == {x \in ToSet(Handlers(data, Top.at, h.type)) :
                    x.fn = h.fn /\ (h.sel => x.sel)}
     IN  IF Top.spaced /\ h.fn \notin Spaced
         THEN /\ calls' = <<next>> \o Below
              /\ UNCHANGED <<data, times, spent>>
         ELSE /\ calls' = <<Body(h), next>> \o Below
              /\ times' = [times EXCEPT ![Top.v][h.n] = @ + 1]
              /\ spent' = IF h.one THEN [spent EXCEPT ![h.n] = @ + 1] ELSE spent
              /\ data' = IF h.one THEN Removed(data, Top.at, {h.type}, same)
                         ELSE data
  /\ UNCHANGED <<triggered, bound, events, halted, nested>>

(* Mutant of EndDispatch: that it was stopped is not told to the event.    *)
EndDispatchUntold ==
  /\ Running("dispatch") /\ ~HasNext
  /\ LET f == calls[2]
         told == IF f.runs = "native" THEN f
                 ELSE [f EXCEPT !.prevented = @ \/ Top.prevented]
     IN  calls' = <<told>> \o Tail(Below)
  /\ UNCHANGED <<data, triggered, bound, events, times, halted, spent, nested>>

(* The event learns what the handlers have done with it.                   *)
EndDispatch ==
  /\ Running("dispatch") /\ ~HasNext
  /\ LET f == calls[2]
         told == IF f.runs = "native" THEN [f EXCEPT !.stopped = Top.stopped]
                 ELSE [f EXCEPT !.stopped = Top.stopped,
                                !.prevented = @ \/ Top.prevented]
     IN  calls' = <<told>> \o Tail(Below)
  /\ UNCHANGED <<data, triggered, bound, events, times, halted, spent, nested>>

-----------------------------------------------------------------------------
(* What the page does, at the bottom of the stack or in a handler.         *)
On(e, t, f, sel, one) ==
  /\ UserCode /\ bound + events < MaxDeeds
  /\ sel => e # 1
  /\ bound' = bound + 1
  /\ data' = Added(data, e, [n |-> bound + 1, type |-> t, fn |-> f,
                             sel |-> sel, one |-> one])
  /\ UNCHANGED <<triggered, calls, events, times, halted, spent, nested>>

(* off(), of some types, of a function or all, of a namespace or all.      *)
Unbind(e, ts, fs) ==
  /\ UserCode
  /\ \E t \in ts : Handlers(data, e, t) # <<>>
  /\ data' = Removed(data, e, ts, {h \in AllOf(data, e, ts) : h.fn \in fs})
  /\ UNCHANGED <<triggered, calls, bound, events, times, halted, spent, nested>>

(* remove(), of an element that is put in again: cleanData() goes through  *)
(* it and those in it.                                                     *)
Clean(e) ==
  /\ UserCode
  /\ calls' = <<Cleaning(e)>> \o calls
  /\ UNCHANGED <<data, triggered, bound, events, times, halted, spent, nested>>

CleanElement ==
  /\ Running("clean")
  /\ data' = Cleaned(data, Top.at)
  /\ calls' = IF Top.at = 1 THEN Below ELSE <<Cleaning(Top.at - 1)>> \o Below
  /\ UNCHANGED <<triggered, bound, events, times, halted, spent, nested>>

SetData(e) ==
  /\ UserCode
  /\ data' = LET d == WithData(data, e) IN [d EXCEPT !.cache[d.id[e]].public = TRUE]
  /\ UNCHANGED <<triggered, calls, bound, events, times, halted, spent, nested>>

RemoveData(e) ==
  /\ UserCode /\ HasData(data, e)
  /\ data' = DestroyedIfEmpty([data EXCEPT !.cache[data.id[e]].public = FALSE], e)
  /\ UNCHANGED <<triggered, calls, bound, events, times, halted, spent, nested>>

Trigger(e, t, spaced) ==
  /\ UserCode /\ bound + events < MaxDeeds
  /\ events' = events + 1
  /\ calls' = <<Triggering(events + 1, t, e, spaced)>> \o calls
  /\ nested' = (nested \/ \E i \in DOMAIN calls :
                             calls[i].runs = "dispatch" /\ calls[i].type = t)
  /\ UNCHANGED <<data, triggered, bound, times, halted, spent>>

(* An event of the browser; for the focus there is one listener on the     *)
(* document, which triggers what the elements wait for.                    *)
UserEvent(e, t) ==
  /\ calls = <<>> /\ bound + events < MaxDeeds
  /\ events' = events + 1
  /\ calls' = IF t # "focusin" THEN <<Native(events + 1, t, e)>>
              ELSE IF data.attaches > 0
              THEN <<Triggering(events + 1, t, e, FALSE)>> ELSE <<>>
  /\ UNCHANGED <<data, triggered, bound, times, halted, spent, nested>>

(* A handler returns, and has stopped the propagation, at once or not, or  *)
(* prevented the default action, or returns false, which does both.        *)
Place(i) == <<calls[i + 1].at, calls[i].h.sel>>

Return(how) ==
  /\ Running("body")
  /\ calls' = <<[calls[2] EXCEPT
                  !.stopped = @ \/ how \in {"stop", "stop at once", "false"},
                  !.immediate = @ \/ how = "stop at once",
                  !.prevented = @ \/ how \in {"prevent", "false"}]>>
              \o Tail(Below)
  /\ halted' = IF how \in {"stop", "stop at once", "false"}
               THEN [halted EXCEPT ![calls[2].v] = Place(1)] ELSE halted
  /\ UNCHANGED <<data, triggered, bound, events, times, spent, nested>>

LibraryStep ==
  \/ CallListener \/ WalkPath \/ EndTrigger \/ EndDefault
  \/ CallHandler \/ EndDispatch \/ CleanElement

PageStep ==
  \/ \E e \in Elements, t \in Types :
       \/ \E f \in Fn, sel, one \in BOOLEAN : On(e, t, f, sel, one)
       \/ \E f \in Fn : Unbind(e, {t}, {f})
       \/ Unbind(e, {t}, Fn)
       \/ \E spaced \in BOOLEAN : Trigger(e, t, spaced)
       \/ UserEvent(e, t)
  \/ \E e \in Elements : Unbind(e, Types, Spaced) \/ Clean(e)
  \/ \E e \in WithPublic : SetData(e) \/ RemoveData(e)
  \/ \E how \in {"stop", "stop at once", "prevent", "false", "nothing"} :
       Return(how)

Next == LibraryStep \/ PageStep

Spec == Init /\ [][Next]_vars

-----------------------------------------------------------------------------
(* The types, and the order in which the handlers of an element are kept:  *)
(* all that are for an inner element before its own.                       *)
TypeOK ==
  /\ data.id \in [Elements -> 0 .. Depth]
  /\ data.attaches \in 0 .. Depth
  /\ triggered \in {Off, "click"}
  /\ \A i \in DOMAIN data.cache : data.cache[i] # Off =>
       \A t \in Types, j, k \in 1 .. MaxDeeds :
         LET list == data.cache[i].events[t]
         IN  j < k /\ k <= Len(list) /\ list[k].sel => list[j].sel

(* Two elements never have the same data: an identifier is of one element, *)
(* or it waits to be used again, once; and no entry outlives what it was   *)
(* made for.                                                               *)
IdsAreUnique ==
  /\ \A e, f \in Elements : data.id[e] = data.id[f] /\ e # f => data.id[e] = 0
  /\ IsInjective(data.deleted)
  /\ \A e \in Elements : ~Contains(data.deleted, data.id[e])
  /\ \A i \in Elements : data.cache[i] # Off =>
       \/ data.cache[i].public
       \/ \E t \in Types : data.cache[i].events[t] # <<>>

(* The browser calls an element if and only if there is a handler to call. *)
ListenersFit ==
  /\ \A e \in Elements :
       data.listens[e] = {t \in Types \ {"focusin"} :
                            Handlers(data, e, t) # <<>>}
  /\ data.attaches = Cardinality({e \in Elements :
       "focusin" \in Types /\ Handlers(data, e, "focusin") # <<>>})

(* A handler is called once for an event, although trigger() makes the     *)
(* browser tell of it again.                                               *)
CalledOnce ==
  \A v \in 1 .. MaxDeeds, n \in 1 .. MaxDeeds : times[v][n] <= 1

(* What was bound with one() is called once, unless a handler triggers the *)
(* event that it was called for.                                           *)
OneIsOnce == ~nested => \A n \in 1 .. MaxDeeds : spent[n] <= 1

(* All that was bound when the event came to an element is called, and     *)
(* nothing that was bound since, unless the event was stopped.             *)
AllBoundAreCalled ==
  [][(EndDispatch /\ ~Top.stopped /\ ~Top.spaced) =>
       \A n \in 1 .. MaxDeeds :
         /\ n \in Top.had => times[Top.v][n] = 1
         /\ n > Top.since => times[Top.v][n] = 0]_vars

(* A handler that stops the propagation is the last one, but for those of  *)
(* the same element that were bound in the same way.                       *)
StoppedIsStopped ==
  \A i \in DOMAIN calls : calls[i].runs = "body" =>
    halted[calls[i + 1].v] \in {Off, Place(i)}

(* The private data of the elements, their handlers and what the browser   *)
(* listens to agree, in whatever order handlers are bound and removed and  *)
(* elements cleaned (jquery-1.9.1.js:1551-1730, 2718-2899, 6564-6615).     *)
DataFits == TypeOK /\ IdsAreUnique /\ ListenersFit

(* No handler is called too often: not twice for an event, not again after *)
(* one(), and not after the event was stopped (jquery-1.9.1.js:2718-3137). *)
CallsFit == CalledOnce /\ OneIsOnce /\ StoppedIsStopped
=============================================================================
