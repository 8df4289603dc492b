--------------------------- MODULE DeferredProofs ---------------------------
(***************************************************************************)
(* Theorems about Deferred, for every set of deferreds and functions and   *)
(* every number of deeds: the inductive invariant DInv and its parts, then *)
(* the facts about the stack, the lists and what is ahead of a loop, then  *)
(* one lemma for each action, and at the end what follows of it.           *)
(***************************************************************************)
EXTENDS Deferred, TLAPS

(* The calls that a piece of the library may have to make, what may be on  *)
(* the stack, and the lists, when the deferreds of M have been made.       *)
Jobs(M) ==
  [call : {"add"}, d : M, a : Actions, f : Others(M)]
  \cup [call : {"fire"}, d : M, a : Actions, v : Nat]
  \cup [call : {"check"}, d : M]
Frames(M) ==
  [runs : {"loop"}, d : M, a : Actions, v : Nat]
  \cup [runs : {"library"}, todo : Seq(Jobs(M)) \ {<<>>}]
  \cup [runs : {"body"}, f : Fn, d : {Off}, a : {Off}]
  \cup [runs : {"body"}, f : Fn, d : M, a : Actions]
Lists(M) ==
  [list : Seq(Firsts(M) \cup Others(M)) \cup {Off},
   memory : Nat \cup {Off}, waiting : Seq(Nat) \cup {Off},
   fired : BOOLEAN, firing : BOOLEAN,
   firingStart : {0}, firingIndex : Nat, firingLength : Nat]

Types ==
  /\ owned \subseteq Deferreds /\ derived \subseteq Deferreds
  /\ state \in [Deferreds -> Settling \cup {"no"}]
  /\ unused \subseteq Fn /\ thrown \in BOOLEAN /\ notified \in Nat
  /\ given \in [Deferreds -> [Actions -> Seq(Fn)]]
  /\ called \in [Deferreds -> [Actions -> Seq(Fn \cup Fn \X Nat)]]
  /\ cb \in [Deferreds -> [Actions -> Lists(Made)]]

-----------------------------------------------------------------------------
(* The stack.                                                              *)

(* A piece of the library adds one function of the user, if any, to one    *)
(* list, or to both that settle.                                           *)
IsUserAdd(x) == x.call = "add" /\ x.f.does = "user"
TodoFits(todo) ==
  \/ \A m \in DOMAIN todo : ~IsUserAdd(todo[m])
  \/ \E d \in Deferreds, f \in Fn :
       \/ todo = <<Adds(d, "resolve", User(f)), Adds(d, "reject", User(f))>>
       \/ \E a \in Actions : todo = <<Adds(d, a, User(f))>>

(* The loop of a list is there once.                                       *)
Stack(M, s) ==
  /\ s \in Seq(Frames(M))
  /\ \A i, j \in DOMAIN s :
       s[i].runs = "loop" /\ s[j].runs = "loop"
       /\ s[i].d = s[j].d /\ s[i].a = s[j].a => i = j
  /\ \A i \in DOMAIN s : s[i].runs = "library" => TodoFits(s[i].todo)

IsLoop(x, d, a) == x.runs = "loop" /\ x.d = d /\ x.a = a
HasAdd(x, d, a) ==
  /\ x.runs = "library"
  /\ \E m \in DOMAIN x.todo : IsUserAdd(x.todo[m])
                              /\ x.todo[m].d = d /\ x.todo[m].a = a
Loops(s, d, a) == \E i \in DOMAIN s : IsLoop(s[i], d, a)
Pending(s, d, a) == \E i \in DOMAIN s : HasAdd(s[i], d, a)

(* The functions that are being added now.                                 *)
Now(s, d, a) ==
  {f \in Fn : /\ s # <<>> /\ Head(s).runs = "library"
              /\ \E m \in DOMAIN Head(s).todo :
                   Head(s).todo[m] = Adds(d, a, User(f))}

-----------------------------------------------------------------------------
(* The lists.                                                              *)
IndexFits(c) ==
  /\ c.firing => c.fired
  /\ c.firingIndex <= c.firingLength
  /\ c.list # Off /\ c.firing => c.firingLength = Len(c.list)

(* A list that settles is fresh; or in the first three steps of its loop;  *)
(* or done with them, and empty between two loops; or disabled.            *)
Starts(M, c, d, a) ==
  /\ c.list # Off /\ c.list \in Seq(Firsts(M) \cup Others(M))
  /\ Len(c.list) >= 3
  /\ c.list[1] = Settle(d, a) /\ c.list[2] = Disable(d, Opposite(a))
  /\ c.list[3] = Lock(d, "notify")
  /\ \A k \in 4 .. Len(c.list) : c.list[k] \in Others(M)
  /\ c.waiting = Off
Fresh(M, c, d, a) ==
  Starts(M, c, d, a) /\ ~c.fired /\ ~c.firing /\ c.memory = Off
Turning(M, c, d, a, n) ==
  Starts(M, c, d, a) /\ c.firing /\ c.memory # Off /\ c.firingIndex = n
Done(M, c) ==
  /\ c.list # Off /\ c.fired /\ c.memory # Off /\ c.waiting = Off
  /\ IF c.firing
     THEN \A k \in DOMAIN c.list : k > c.firingIndex => c.list[k] \in Others(M)
     ELSE c.list = <<>>
Disused(c) == c.list = Off /\ c.waiting = Off /\ ~c.firing

(* The two lists that settle a deferred, by its state: nothing has come,   *)
(* or one of them is done with and the other disabled; and in between.     *)
Steady(M, d, st, cs) ==
  \/ st = "no" /\ \A a \in Settling : Fresh(M, cs[a], d, a)
  \/ \E a \in Settling : st = a /\ Done(M, cs[a]) /\ Disused(cs[Opposite(a)])
TurnsAt(M, d, st, cs, a) ==
  \/ /\ st = "no" /\ Turning(M, cs[a], d, a, 0)
     /\ Fresh(M, cs[Opposite(a)], d, Opposite(a))
  \/ /\ st = a /\ Turning(M, cs[a], d, a, 1)
     /\ Fresh(M, cs[Opposite(a)], d, Opposite(a))
  \/ st = a /\ Turning(M, cs[a], d, a, 2) /\ Disused(cs[Opposite(a)])
Turns(M, d, st, cs, s) ==
  \E a \in Settling :
    s # <<>> /\ IsLoop(Head(s), d, a) /\ TurnsAt(M, d, st, cs, a)

NotifyFits(M, c) == c.list \in Seq(Others(M)) \cup {Off}

(* The functions of the user that are still ahead of the loop are those    *)
(* that were given and not called yet, in this order, but for one that is  *)
(* being added now.                                                        *)
Reached(c) == IF c.firing THEN c.firingIndex ELSE 0
Ahead(c, k) == k \in DOMAIN c.list /\ k > Reached(c) /\ c.list[k].does = "user"

Ordered(c, g, h, now) ==
  /\ Len(h) <= Len(g)
  /\ \A i \in 1 .. Len(h) : h[i] = g[i]
  /\ \A k \in DOMAIN c.list :
       Ahead(c, k) => \E i \in Len(h) + 1 .. Len(g) : c.list[k].f = g[i]
  /\ \A i \in Len(h) + 1 .. Len(g) :
       \/ \E k \in DOMAIN c.list : Ahead(c, k) /\ c.list[k].f = g[i]
       \/ i = Len(g) /\ g[i] \in now
  /\ \A k, l \in DOMAIN c.list, i, j \in Len(h) + 1 .. Len(g) :
       Ahead(c, k) /\ Ahead(c, l) /\ k < l
       /\ c.list[k].f = g[i] /\ c.list[l].f = g[j] => i < j
  /\ \A f \in now :
       /\ Len(h) < Len(g) /\ f = g[Len(g)]
       /\ \A k \in DOMAIN c.list : Ahead(c, k) => c.list[k].f # f

(* A function is given to a list once.                                     *)
Once(g, un) ==
  /\ \A i \in DOMAIN g : g[i] \notin un
  /\ \A i, j \in DOMAIN g : g[i] = g[j] => i = j

-----------------------------------------------------------------------------
(* The invariant.                                                          *)
UnmadeFits ==
  \A d \in Deferreds \ Made :
    /\ state[d] = "no" /\ cb[d] = [a \in Actions |-> NewList(TRUE)]
    /\ \A a \in Actions : given[d][a] = <<>> /\ called[d][a] = <<>>

LoopsFit ==
  \A d \in Deferreds, a \in Actions :
    /\ IndexFits(cb[d][a])
    /\ Loops(calls, d, a) => cb[d][a].firing
    /\ ~thrown /\ cb[d][a].firing => Loops(calls, d, a)

AddsFit ==
  calls # <<>> => \A d \in Deferreds, a \in Settling :
                    Pending(Tail(calls), d, a) => cb[d][a].list = Off

PairsFit ==
  \A d \in Made :
    /\ \/ Steady(Made, d, state[d], cb[d])
       \/ Turns(Made, d, state[d], cb[d], calls)
    /\ NotifyFits(Made, cb[d]["notify"])

OrderFits ==
  \A d \in Deferreds, a \in Settling :
    /\ Once(given[d][a], unused)
    /\ d \in Made /\ cb[d][a].list # Off =>
         Ordered(cb[d][a], given[d][a], called[d][a], Now(calls, d, a))

DInv == /\ Types /\ Stack(Made, calls)
        /\ UnmadeFits /\ LoopsFit /\ AddsFit /\ PairsFit /\ OrderFits

-----------------------------------------------------------------------------
(* The facts about the data.                                               *)
LEMMA OffFacts ==
  /\ Off \notin Deferreds /\ Off \notin Fn /\ Off \notin Nat
  /\ Off \notin Seq(Firsts(Deferreds) \cup Others(Deferreds))
BY DeferredAssumption DEF DeferredAssumption

LEMMA ActionFacts ==
  /\ Settling \subseteq Actions /\ "notify" \in Actions /\ "notify" \notin Settling
  /\ \A a \in Settling : /\ Opposite(a) \in Settling /\ Opposite(a) # a
                         /\ Opposite(Opposite(a)) = a
                         /\ \A b \in Settling : b = a \/ b = Opposite(a)
  /\ \A a \in Actions : a \in Settling \/ a = "notify"
  /\ "no" \notin Settling
BY DEF Settling, Actions, Opposite

LEMMA ItemsGrow ==
  ASSUME NEW M, NEW N, M \subseteq N
  PROVE  Others(M) \subseteq Others(N) /\ Firsts(M) \subseteq Firsts(N)
<1>1. Firsts(M) \subseteq Firsts(N)
  BY DEF Firsts
<1>2. Others(M) \subseteq Others(N)
  <2>1. [does : {"forward"}, d : M, a : Actions]
          \subseteq [does : {"forward"}, d : N, a : Actions]
    OBVIOUS
  <2>2. [does : {"filter"}, d : M, a : Actions, f : Fn \cup {Off}]
          \subseteq [does : {"filter"}, d : N, a : Actions, f : Fn \cup {Off}]
    OBVIOUS
  <2>3. [does : {"count"}, d : M] \subseteq [does : {"count"}, d : N]
    OBVIOUS
  <2> QED  BY <2>1, <2>2, <2>3 DEF Others
<1> QED
  BY <1>1, <1>2

LEMMA SeqGrow ==
  ASSUME NEW S, NEW T, S \subseteq T, NEW s \in Seq(S)
  PROVE  s \in Seq(T)
OBVIOUS

LEMMA JobsGrow ==
  ASSUME NEW M, NEW N, M \subseteq N
  PROVE  Jobs(M) \subseteq Jobs(N)
<1>1. [call : {"add"}, d : M, a : Actions, f : Others(M)]
        \subseteq [call : {"add"}, d : N, a : Actions, f : Others(N)]
  BY ItemsGrow
<1>2. [call : {"fire"}, d : M, a : Actions, v : Nat]
        \subseteq [call : {"fire"}, d : N, a : Actions, v : Nat]
  OBVIOUS
<1>3. [call : {"check"}, d : M] \subseteq [call : {"check"}, d : N]
  OBVIOUS
<1> QED
  BY <1>1, <1>2, <1>3 DEF Jobs

LEMMA FramesGrow ==
  ASSUME NEW M, NEW N, M \subseteq N
  PROVE  Frames(M) \subseteq Frames(N)
<1>1. [runs : {"loop"}, d : M, a : Actions, v : Nat]
        \subseteq [runs : {"loop"}, d : N, a : Actions, v : Nat]
  OBVIOUS
<1>2. [runs : {"library"}, todo : Seq(Jobs(M)) \ {<<>>}]
        \subseteq [runs : {"library"}, todo : Seq(Jobs(N)) \ {<<>>}]
  <2>1. Seq(Jobs(M)) \ {<<>>} \subseteq Seq(Jobs(N)) \ {<<>>}
    BY JobsGrow, SeqGrow
  <2> QED  BY <2>1
<1>3. [runs : {"body"}, f : Fn, d : M, a : Actions]
        \subseteq [runs : {"body"}, f : Fn, d : N, a : Actions]
  OBVIOUS
<1> QED
  BY <1>1, <1>2, <1>3 DEF Frames

LEMMA ListsGrow ==
  ASSUME NEW M, NEW N, M \subseteq N
  PROVE  Lists(M) \subseteq Lists(N)
<1>1. Seq(Firsts(M) \cup Others(M)) \subseteq Seq(Firsts(N) \cup Others(N))
  BY ItemsGrow, SeqGrow
<1> QED
  BY <1>1 DEF Lists

(* A stack of more deferreds.                                              *)
LEMMA StackGrows ==
  ASSUME NEW M, NEW N, M \subseteq N, NEW s, Stack(M, s)
  PROVE  Stack(N, s)
BY FramesGrow, SeqGrow DEF Stack

-----------------------------------------------------------------------------
(* The kinds of frames.                                                    *)
LEMMA FrameKinds ==
  ASSUME NEW M, NEW x \in Frames(M)
  PROVE  /\ x.runs \in {"loop", "library", "body"}
         /\ x.runs = "loop" => x.d \in M /\ x.a \in Actions /\ x.v \in Nat
         /\ x.runs = "library" => x.todo \in Seq(Jobs(M)) /\ x.todo # <<>>
         /\ x.runs = "body" => /\ x.f \in Fn /\ x.d \in M \cup {Off}
                               /\ x.d # Off => x.d \in M /\ x.a \in Actions
BY DEF Frames

LEMMA NewFrames ==
  ASSUME NEW M
  PROVE  /\ \A d \in M, a \in Actions, v \in Nat : Loop(d, a, v) \in Frames(M)
         /\ \A todo \in Seq(Jobs(M)) : todo # <<>> => Library(todo) \in Frames(M)
         /\ \A f \in Fn : Body(f, Off, Off) \in Frames(M)
         /\ \A f \in Fn, d \in M, a \in Actions : Body(f, d, a) \in Frames(M)
BY DEF Frames, Loop, Library, Body

(* A stack with one more frame on top, place by place.                     *)
LEMMA PushPlaces ==
  ASSUME NEW S, NEW s \in Seq(S), NEW f \in S
  PROVE  /\ <<f>> \o s \in Seq(S)
         /\ <<f>> \o s # <<>> /\ Head(<<f>> \o s) = f /\ Tail(<<f>> \o s) = s
         /\ DOMAIN (<<f>> \o s) = 1 .. Len(s) + 1
         /\ (<<f>> \o s)[1] = f
         /\ \A i \in 1 .. Len(s) : (<<f>> \o s)[i + 1] = s[i]
         /\ \A i \in 2 .. Len(s) + 1 :
              (<<f>> \o s)[i] = s[i - 1] /\ i - 1 \in 1 .. Len(s)
OBVIOUS

LEMMA PopPlaces ==
  ASSUME NEW S, NEW s \in Seq(S), s # <<>>
  PROVE  Tail(s) \in Seq(S) /\ Head(s) \in S /\ s = <<Head(s)>> \o Tail(s)
OBVIOUS

(* What holds of some frame of a stack holds of the new one or another.    *)
LEMMA PushSome ==
  ASSUME NEW S, NEW s \in Seq(S), NEW f \in S, NEW t, t = <<f>> \o s
  PROVE  /\ \A d, a : Loops(t, d, a) <=> IsLoop(f, d, a) \/ Loops(s, d, a)
         /\ \A d, a : Pending(t, d, a) <=> HasAdd(f, d, a) \/ Pending(s, d, a)
<1>1. /\ DOMAIN t = 1 .. Len(s) + 1 /\ t[1] = f
      /\ \A i \in 1 .. Len(s) : t[i + 1] = s[i] /\ i + 1 \in 1 .. Len(s) + 1
      /\ \A i \in 2 .. Len(s) + 1 : t[i] = s[i - 1] /\ i - 1 \in 1 .. Len(s)
  BY PushPlaces
<1>2. DOMAIN s = 1 .. Len(s) /\ Len(s) \in Nat
  OBVIOUS
<1>3. /\ 1 \in DOMAIN t
      /\ \A i \in DOMAIN t : i = 1 \/ i \in 2 .. Len(s) + 1
  BY <1>1, <1>2
<1>4. ASSUME NEW d, NEW a
      PROVE  Loops(t, d, a) <=> IsLoop(f, d, a) \/ Loops(s, d, a)
  BY <1>1, <1>2, <1>3 DEF Loops
<1>5. ASSUME NEW d, NEW a
      PROVE  Pending(t, d, a) <=> HasAdd(f, d, a) \/ Pending(s, d, a)
  BY <1>1, <1>2, <1>3 DEF Pending
<1> QED
  BY <1>4, <1>5

(* What may be put on the stack.                                           *)
LEMMA Push ==
  ASSUME NEW M, NEW s, Stack(M, s), NEW f \in Frames(M),
         f.runs = "loop" => ~Loops(s, f.d, f.a),
         f.runs = "library" => TodoFits(f.todo)
  PROVE  /\ Stack(M, <<f>> \o s) /\ <<f>> \o s # <<>>
         /\ Head(<<f>> \o s) = f /\ Tail(<<f>> \o s) = s
         /\ \A d, a : Loops(<<f>> \o s, d, a)
                        <=> IsLoop(f, d, a) \/ Loops(s, d, a)
         /\ \A d, a : Pending(<<f>> \o s, d, a)
                        <=> HasAdd(f, d, a) \/ Pending(s, d, a)
<1> DEFINE t == <<f>> \o s
<1>0. s \in Seq(Frames(M))
  BY DEF Stack
<1>1. /\ t \in Seq(Frames(M)) /\ t # <<>> /\ Head(t) = f /\ Tail(t) = s
      /\ DOMAIN t = 1 .. Len(s) + 1 /\ t[1] = f
      /\ \A i \in 2 .. Len(s) + 1 : t[i] = s[i - 1] /\ i - 1 \in 1 .. Len(s)
  BY <1>0, PushPlaces
<1>2. DOMAIN s = 1 .. Len(s) /\ Len(s) \in Nat
  BY <1>0
<1>3. \A i \in DOMAIN t : i = 1 \/ i \in 2 .. Len(s) + 1
  BY <1>1, <1>2
<1>4. \A d, a : Loops(t, d, a) <=> IsLoop(f, d, a) \/ Loops(s, d, a)
  BY <1>0, PushSome
<1>5. \A d, a : Pending(t, d, a) <=> HasAdd(f, d, a) \/ Pending(s, d, a)
  BY <1>0, PushSome
<1> HIDE DEF t
<1>6. \A k \in DOMAIN s : f.runs = "loop" /\ s[k].runs = "loop" =>
                            ~(f.d = s[k].d /\ f.a = s[k].a)
  BY DEF Loops, IsLoop
<1>7. ASSUME NEW i \in DOMAIN t, NEW j \in DOMAIN t,
             t[i].runs = "loop", t[j].runs = "loop",
             t[i].d = t[j].d, t[i].a = t[j].a
      PROVE  i = j
  <2>1. CASE i = 1 /\ j # 1
    <3>1. t[j] = s[j - 1] /\ j - 1 \in DOMAIN s
      BY <2>1, <1>1, <1>2, <1>3
    <3> QED  BY <3>1, <2>1, <1>1, <1>6, <1>7
  <2>2. CASE i # 1 /\ j = 1
    <3>1. t[i] = s[i - 1] /\ i - 1 \in DOMAIN s
      BY <2>2, <1>1, <1>2, <1>3
    <3> QED  BY <3>1, <2>2, <1>1, <1>6, <1>7
  <2>3. CASE i # 1 /\ j # 1
    <3>1. /\ t[i] = s[i - 1] /\ i - 1 \in DOMAIN s
          /\ t[j] = s[j - 1] /\ j - 1 \in DOMAIN s
      BY <2>3, <1>1, <1>2, <1>3
    <3>2. i - 1 = j - 1
      BY <3>1, <1>7 DEF Stack
    <3>3. i \in Nat /\ j \in Nat
      BY <1>1, <1>2
    <3> QED  BY ONLY <3>2, <3>3
  <2> QED  BY <2>1, <2>2, <2>3
<1>8. ASSUME NEW i \in DOMAIN t, t[i].runs = "library"
      PROVE  TodoFits(t[i].todo)
  <2>1. CASE i = 1
    BY <2>1, <1>1, <1>8
  <2>2. CASE i # 1
    <3>1. t[i] = s[i - 1] /\ i - 1 \in DOMAIN s
      BY <2>2, <1>1, <1>2, <1>3
    <3> QED  BY <3>1, <1>8 DEF Stack
  <2> QED  BY <2>1, <2>2
<1>9. Stack(M, t)
  BY <1>1, <1>7, <1>8 DEF Stack
<1> QED
  BY <1>1, <1>4, <1>5, <1>9 DEF t

(* What is left when the top is taken off.                                 *)
LEMMA Pop ==
  ASSUME NEW M, NEW s, Stack(M, s), s # <<>>
  PROVE  /\ Stack(M, Tail(s)) /\ Head(s) \in Frames(M)
         /\ Head(s).runs = "library" => TodoFits(Head(s).todo)
         /\ Head(s).runs = "loop" => ~Loops(Tail(s), Head(s).d, Head(s).a)
         /\ \A d, a : Loops(s, d, a)
                        <=> IsLoop(Head(s), d, a) \/ Loops(Tail(s), d, a)
         /\ \A d, a : Pending(s, d, a)
                        <=> HasAdd(Head(s), d, a) \/ Pending(Tail(s), d, a)
<1> DEFINE t == Tail(s)
           f == Head(s)
<1>0. s \in Seq(Frames(M))
  BY DEF Stack
<1>1. t \in Seq(Frames(M)) /\ f \in Frames(M) /\ s = <<f>> \o t
  BY <1>0, PopPlaces
<1>2. /\ DOMAIN s = 1 .. Len(t) + 1 /\ s[1] = f
      /\ \A i \in 1 .. Len(t) : s[i + 1] = t[i]
  BY <1>1, PushPlaces
<1>3. DOMAIN t = 1 .. Len(t) /\ Len(t) \in Nat
  BY <1>1
<1>4. /\ \A d, a : Loops(s, d, a) <=> IsLoop(f, d, a) \/ Loops(t, d, a)
      /\ \A d, a : Pending(s, d, a) <=> HasAdd(f, d, a) \/ Pending(t, d, a)
  BY <1>1, PushSome
<1> HIDE DEF t, f
<1>5. \A i \in DOMAIN t : i + 1 \in DOMAIN s /\ s[i + 1] = t[i] /\ i + 1 # 1
  BY <1>2, <1>3
<1>6. 1 \in DOMAIN s
  BY <1>2, <1>3
<1>7. f.runs = "library" => TodoFits(f.todo)
  BY <1>2, <1>6 DEF Stack
<1>8. ASSUME f.runs = "loop", Loops(t, f.d, f.a)
      PROVE  FALSE
  <2>1. PICK i \in DOMAIN t : t[i].runs = "loop" /\ t[i].d = f.d /\ t[i].a = f.a
    BY <1>8 DEF Loops, IsLoop
  <2>2. i + 1 = 1
    BY <2>1, <1>2, <1>5, <1>6, <1>8 DEF Stack
  <2> QED  BY <2>1, <2>2, <1>5
<1>9. ASSUME NEW i \in DOMAIN t, NEW j \in DOMAIN t,
             t[i].runs = "loop", t[j].runs = "loop",
             t[i].d = t[j].d, t[i].a = t[j].a
      PROVE  i = j
  <2>1. i + 1 = j + 1
    BY <1>5, <1>9 DEF Stack
  <2>2. i \in Nat /\ j \in Nat
    BY <1>3
  <2> QED  BY ONLY <2>1, <2>2
<1>10. ASSUME NEW i \in DOMAIN t, t[i].runs = "library"
       PROVE  TodoFits(t[i].todo)
  BY <1>5, <1>10 DEF Stack
<1>11. Stack(M, t)
  BY <1>1, <1>9, <1>10 DEF Stack
<1> QED
  BY <1>1, <1>4, <1>7, <1>8, <1>11 DEF t, f

(* The stack that is empty.                                                *)
LEMMA EmptyStack ==
  ASSUME NEW M
  PROVE  /\ Stack(M, <<>>)
         /\ \A d, a : ~Loops(<<>>, d, a) /\ ~Pending(<<>>, d, a)
         /\ \A d, a : Now(<<>>, d, a) = {}
BY DEF Stack, Loops, Pending, Now

-----------------------------------------------------------------------------
(* The lists.                                                              *)

(* The records that have the fields of a list.                             *)
Records(L, V, W, S) ==
  [list : L, memory : V, waiting : W, fired : BOOLEAN, firing : BOOLEAN,
   firingStart : S, firingIndex : Nat, firingLength : Nat]

LEMMA StartedRecord ==
  ASSUME NEW L, NEW V, NEW W, NEW c \in Records(L, V, W, Nat), NEW v \in V,
         Len(c.list) \in Nat
  PROVE  Started(c, v) \in Records(L, V, W, {0})
BY DEF Records, Started

LEMMA ListsAreRecords ==
  ASSUME NEW M
  PROVE  Lists(M) = Records(Seq(Firsts(M) \cup Others(M)) \cup {Off},
                            Nat \cup {Off}, Seq(Nat) \cup {Off}, {0})
BY DEF Lists, Records

LEMMA RecordsGrow ==
  ASSUME NEW L, NEW V, NEW W, NEW c \in Records(L, V, W, {0})
  PROVE  c \in Records(L, V, W, Nat)
BY DEF Records

(* What the methods make of a list.                                        *)
LEMMA StartedFacts ==
  ASSUME NEW M, NEW c \in Lists(M), c.list # Off, NEW v \in Nat
  PROVE  /\ Started(c, v) \in Lists(M)
         /\ Started(c, v).list = c.list /\ Started(c, v).waiting = c.waiting
         /\ Started(c, v).memory = v /\ Started(c, v).fired = TRUE
         /\ Started(c, v).firing = TRUE /\ Started(c, v).firingIndex = 0
         /\ Started(c, v).firingLength = Len(c.list)
         /\ IndexFits(Started(c, v))
<1>1. /\ c.list \in Seq(Firsts(M) \cup Others(M)) /\ c.waiting \in Seq(Nat) \cup {Off}
      /\ c.firingStart = 0
  BY DEF Lists
<1>2. Len(c.list) \in Nat
  BY <1>1
<1>3. /\ Started(c, v).list = c.list /\ Started(c, v).waiting = c.waiting
      /\ Started(c, v).memory = v /\ Started(c, v).fired = TRUE
      /\ Started(c, v).firing = TRUE /\ Started(c, v).firingIndex = 0
      /\ Started(c, v).firingLength = Len(c.list)
  BY <1>1 DEF Lists, Started
<1>4. Started(c, v) \in Lists(M)
  BY <1>2, ListsAreRecords, RecordsGrow, StartedRecord
<1> QED
  BY <1>2, <1>3, <1>4 DEF IndexFits

LEMMA FiredFacts ==
  ASSUME NEW M, NEW c \in Lists(M), IndexFits(c), MayFire(c), NEW v \in Nat
  PROVE  /\ Fired(c, v) \in Lists(M) /\ IndexFits(Fired(c, v))
         /\ Fired(c, v).list = c.list /\ Fired(c, v).firing = TRUE
         /\ ~c.firing => Fired(c, v) = Started(c, v)
<1>1. CASE ~c.firing
  BY <1>1, StartedFacts DEF Fired, MayFire
<1>2. CASE c.firing
  <2>1. c.waiting \in Seq(Nat)
    BY <1>2 DEF IndexFits, MayFire, Lists
  <2>2. Fired(c, v) =
        [list |-> c.list, memory |-> c.memory, waiting |-> Append(c.waiting, v),
         fired |-> c.fired, firing |-> c.firing, firingStart |-> c.firingStart,
         firingIndex |-> c.firingIndex, firingLength |-> c.firingLength]
    BY <1>2 DEF Lists, Fired
  <2>3. c.firing = TRUE
    BY <1>2 DEF Lists
  <2> QED  BY <1>2, <2>1, <2>2, <2>3 DEF Lists, IndexFits
<1> QED
  BY <1>1, <1>2 DEF Lists

LEMMA AddedFacts ==
  ASSUME NEW M, M \subseteq Deferreds, NEW c \in Lists(M), IndexFits(c),
         c.list # Off, NEW x \in Firsts(M) \cup Others(M)
  PROVE  /\ ~CallsAtOnce(c) =>
              /\ Added(c, x) \in Lists(M) /\ IndexFits(Added(c, x))
              /\ Added(c, x).firing = c.firing /\ Added(c, x).fired = c.fired
              /\ Added(c, x).firingIndex = c.firingIndex
              /\ Added(c, x).memory = c.memory
              /\ Added(c, x).waiting = c.waiting
         /\ CallsAtOnce(c) =>
              LET e == Started(Added(c, x), c.memory)
              IN  /\ e \in Lists(M) /\ IndexFits(e)
                  /\ e.firing = TRUE /\ e.fired = TRUE
                  /\ e.firingIndex = Len(c.list) /\ e.memory = c.memory
                  /\ e.waiting = c.waiting /\ e.list = Append(c.list, x)
         /\ Added(c, x).list = Append(c.list, x) /\ Append(c.list, x) # Off
         /\ Append(c.list, x) \in Seq(Firsts(M) \cup Others(M))
<1>1. /\ c.list \in Seq(Firsts(M) \cup Others(M)) /\ c.firingStart = 0
      /\ c.firing \in BOOLEAN /\ c.firingIndex \in Nat /\ c.firingLength \in Nat
  BY DEF Lists
<1>2. Append(c.list, x) \in Seq(Firsts(M) \cup Others(M))
      /\ Len(Append(c.list, x)) = Len(c.list) + 1 /\ Len(c.list) \in Nat
  BY <1>1
<1>3. Append(c.list, x) # Off
  BY <1>2, OffFacts, ItemsGrow, SeqGrow
<1>4. Added(c, x) =
        [list |-> Append(c.list, x), memory |-> c.memory, waiting |-> c.waiting,
         fired |-> c.fired, firing |-> c.firing,
         firingStart |-> IF CallsAtOnce(c) THEN Len(c.list) ELSE 0,
         firingIndex |-> c.firingIndex,
         firingLength |-> IF c.firing THEN Len(c.list) + 1
                                      ELSE c.firingLength]
  BY <1>1 DEF Lists, Added
<1>5. ASSUME ~CallsAtOnce(c)
      PROVE  Added(c, x) \in Lists(M) /\ IndexFits(Added(c, x))
  <2>1. Added(c, x) \in Lists(M)
    BY <1>1, <1>2, <1>4, <1>5 DEF Lists
  <2>2. c.firing => c.firingLength = Len(c.list)
    BY DEF IndexFits
  <2> QED  BY <1>1, <1>2, <1>4, <2>1, <2>2 DEF IndexFits
<1>6. ASSUME CallsAtOnce(c)
      PROVE  LET e == Started(Added(c, x), c.memory)
             IN  /\ e \in Lists(M) /\ IndexFits(e)
                 /\ e.firing = TRUE /\ e.fired = TRUE
                 /\ e.firingIndex = Len(c.list) /\ e.memory = c.memory
                 /\ e.waiting = c.waiting /\ e.list = Append(c.list, x)
  <2>1. c.memory \in Nat /\ c.waiting \in Seq(Nat) \cup {Off}
    BY <1>6 DEF CallsAtOnce, Lists
  <2> DEFINE b == [list |-> Append(c.list, x), memory |-> c.memory,
                   waiting |-> c.waiting, fired |-> c.fired,
                   firing |-> c.firing, firingStart |-> Len(c.list),
                   firingIndex |-> c.firingIndex,
                   firingLength |-> c.firingLength]
              e == Started(b, c.memory)
  <2>2. Added(c, x) = b
    BY <1>4, <1>6 DEF CallsAtOnce
  <2>3. /\ e.list = Append(c.list, x) /\ e.waiting = c.waiting
        /\ e.memory = c.memory /\ e.fired = TRUE
        /\ e.firing = TRUE /\ e.firingIndex = Len(c.list)
        /\ e.firingLength = Len(c.list) + 1
    BY <1>2 DEF Started
  <2>4. e \in Lists(M)
    <3> DEFINE L == Seq(Firsts(M) \cup Others(M)) \cup {Off}
               V == Nat \cup {Off}
               W == Seq(Nat) \cup {Off}
    <3>1. c.fired \in BOOLEAN /\ c.memory \in V
      BY DEF Lists
    <3>2. b \in Records(L, V, W, Nat)
      BY <1>1, <1>2, <2>1, <3>1 DEF Records
    <3>3. Len(b.list) \in Nat
      BY <1>2
    <3>4. Lists(M) = Records(L, V, W, {0})
      BY ListsAreRecords
    <3> HIDE DEF b, L, V, W
    <3> QED  BY <3>1, <3>2, <3>3, <3>4, StartedRecord
  <2> HIDE DEF e
  <2>5. IndexFits(e)
    BY <1>2, <2>3 DEF IndexFits
  <2> QED  BY <2>2, <2>3, <2>4, <2>5 DEF e
<1>7. ASSUME ~CallsAtOnce(c)
      PROVE  /\ Added(c, x).firing = c.firing /\ Added(c, x).fired = c.fired
             /\ Added(c, x).firingIndex = c.firingIndex
             /\ Added(c, x).memory = c.memory
             /\ Added(c, x).waiting = c.waiting
  BY <1>4
<1>8. Added(c, x).list = Append(c.list, x)
  BY <1>4
<1> QED
  BY <1>2, <1>3, <1>5, <1>6, <1>7, <1>8

(* What a list is when a function was added that is not called at once.    *)
IsAdded(M, c, x, n) ==
  /\ n \in Lists(M) /\ IndexFits(n)
  /\ n.firing = c.firing /\ n.fired = c.fired
  /\ n.firingIndex = c.firingIndex
  /\ n.memory = c.memory /\ n.waiting = c.waiting
  /\ n.list = Append(c.list, x) /\ n.list # Off
  /\ n.list \in Seq(Firsts(M) \cup Others(M))

LEMMA AddedLater ==
  ASSUME NEW M, M \subseteq Deferreds, NEW c \in Lists(M), IndexFits(c),
         c.list # Off, NEW x \in Firsts(M) \cup Others(M), ~CallsAtOnce(c),
         NEW n, n = Added(c, x)
  PROVE  IsAdded(M, c, x, n)
BY AddedFacts, ZenonT(30) DEF IsAdded

LEMMA AddedNow ==
  ASSUME NEW M, M \subseteq Deferreds, NEW c \in Lists(M), IndexFits(c),
         c.list # Off, NEW x \in Firsts(M) \cup Others(M), CallsAtOnce(c),
         NEW n, n = Started(Added(c, x), c.memory)
  PROVE  /\ n \in Lists(M) /\ IndexFits(n)
         /\ n.firing = TRUE /\ n.fired = TRUE
         /\ n.firingIndex = Len(c.list)
         /\ n.memory = c.memory /\ n.waiting = c.waiting
         /\ n.list = Append(c.list, x) /\ n.list # Off
         /\ n.list \in Seq(Firsts(M) \cup Others(M))
<1> DEFINE e == Started(Added(c, x), c.memory)
<1>1. /\ e \in Lists(M) /\ IndexFits(e)
      /\ e.firing = TRUE /\ e.fired = TRUE
      /\ e.firingIndex = Len(c.list) /\ e.memory = c.memory
      /\ e.waiting = c.waiting /\ e.list = Append(c.list, x)
  BY AddedFacts
<1>2. Append(c.list, x) # Off /\ Append(c.list, x) \in Seq(Firsts(M) \cup Others(M))
  BY AddedFacts
<1> QED
  BY <1>1, <1>2

LEMMA AdvancedFacts ==
  ASSUME NEW M, NEW c \in Lists(M), IndexFits(c), c.firing, HasNext(c)
  PROVE  /\ Advanced(c) \in Lists(M) /\ IndexFits(Advanced(c))
         /\ Advanced(c).list = c.list /\ Advanced(c).firing = c.firing
         /\ Advanced(c).fired = c.fired /\ Advanced(c).memory = c.memory
         /\ Advanced(c).waiting = c.waiting
         /\ Advanced(c).firingIndex = c.firingIndex + 1
         /\ c.list \in Seq(Firsts(M) \cup Others(M))
         /\ c.firingIndex + 1 \in DOMAIN c.list
<1>1. /\ c.list \in Seq(Firsts(M) \cup Others(M)) /\ c.firingIndex \in Nat
      /\ c.firingLength = Len(c.list) /\ c.firingIndex < Len(c.list)
  BY DEF Lists, IndexFits, HasNext
<1>2. /\ Advanced(c).list = c.list /\ Advanced(c).firing = c.firing
      /\ Advanced(c).fired = c.fired /\ Advanced(c).memory = c.memory
      /\ Advanced(c).waiting = c.waiting
      /\ Advanced(c).firingLength = c.firingLength
      /\ Advanced(c).firingIndex = c.firingIndex + 1
  BY DEF Lists, Advanced
<1>3. Advanced(c) \in Lists(M)
  BY DEF Lists, Advanced
<1> QED
  BY <1>1, <1>2, <1>3 DEF IndexFits

(* What a list is when its loop has taken a step.                          *)
IsAdvanced(M, c, x) ==
  /\ x \in Lists(M) /\ IndexFits(x)
  /\ x.list = c.list /\ x.firing = c.firing
  /\ x.fired = c.fired /\ x.memory = c.memory
  /\ x.waiting = c.waiting
  /\ x.firingIndex = c.firingIndex + 1

LEMMA Advances ==
  ASSUME NEW M, NEW c \in Lists(M), IndexFits(c), c.firing, HasNext(c)
  PROVE  IsAdvanced(M, c, Advanced(c))
BY AdvancedFacts DEF IsAdvanced

LEMMA DisabledFacts ==
  ASSUME NEW M, NEW c \in Lists(M), IndexFits(c)
  PROVE  /\ Disabled(c) \in Lists(M) /\ IndexFits(Disabled(c))
         /\ Disabled(c).list = Off /\ Disabled(c).waiting = Off
         /\ Disabled(c).firing = c.firing
<1>1. /\ Disabled(c).list = Off /\ Disabled(c).waiting = Off
      /\ Disabled(c).firing = c.firing /\ Disabled(c).fired = c.fired
      /\ Disabled(c).firingIndex = c.firingIndex
      /\ Disabled(c).firingLength = c.firingLength
  BY DEF Lists, Disabled
<1>2. Disabled(c) \in Lists(M)
  BY DEF Lists, Disabled
<1> QED
  BY <1>1, <1>2 DEF IndexFits

LEMMA LockedFacts ==
  ASSUME NEW M, NEW c \in Lists(M), IndexFits(c)
  PROVE  /\ Locked(c) \in Lists(M) /\ IndexFits(Locked(c))
         /\ Locked(c).list \in {c.list, Off} /\ Locked(c).firing = c.firing
<1>1. CASE c.memory = Off
  BY <1>1, DisabledFacts DEF Locked
<1>2. CASE c.memory # Off
  <2>1. Locked(c) =
        [list |-> c.list, memory |-> c.memory, waiting |-> Off,
         fired |-> c.fired, firing |-> c.firing, firingStart |-> c.firingStart,
         firingIndex |-> c.firingIndex, firingLength |-> c.firingLength]
    BY <1>2 DEF Lists, Locked
  <2> QED  BY <2>1 DEF Lists, IndexFits
<1> QED
  BY <1>1, <1>2

LEMMA AgainFacts ==
  ASSUME NEW M, NEW c \in Lists(M), IndexFits(c), FiresAgain(c)
  PROVE  /\ Again(c) \in Lists(M) /\ IndexFits(Again(c))
         /\ Again(c).list = c.list /\ Again(c).firing = TRUE
         /\ Head(c.waiting) \in Nat
<1>0. c.waiting \in Seq(Nat) \cup {Off}
  BY DEF Lists
<1>1. /\ c.waiting \in Seq(Nat) /\ c.waiting # <<>> /\ c.list # Off
  BY <1>0 DEF FiresAgain
<1>2. Tail(c.waiting) \in Seq(Nat) /\ Head(c.waiting) \in Nat
  BY <1>1
<1> DEFINE e == [c EXCEPT !.waiting = Tail(@)]
<1>4. e \in Lists(M) /\ e.list = c.list
  BY <1>2 DEF Lists
<1>5. Again(c) = Started(e, Head(c.waiting))
  BY DEF Again
<1> HIDE DEF e
<1>6. e.list # Off /\ c.list # Off
  BY <1>1, <1>4
<1>7. PICK h \in Nat : h = Head(c.waiting)
  BY <1>2
<1>8. /\ Started(e, h) \in Lists(M) /\ IndexFits(Started(e, h))
      /\ Started(e, h).list = e.list /\ Started(e, h).firing = TRUE
  BY <1>4, <1>6, StartedFacts
<1> QED
  BY <1>2, <1>4, <1>5, <1>7, <1>8

LEMMA EndedFacts ==
  ASSUME NEW M, NEW c \in Lists(M), IndexFits(c)
  PROVE  /\ Ended(c) \in Lists(M) /\ IndexFits(Ended(c))
         /\ Ended(c).firing = FALSE
         /\ Ended(c).list \in {c.list, Off, <<>>}
         /\ c.list # Off /\ c.waiting = Off /\ c.memory # Off =>
              /\ Ended(c).list = <<>> /\ Ended(c).fired = c.fired
              /\ Ended(c).memory = c.memory /\ Ended(c).waiting = c.waiting
<1> DEFINE quiet == [c EXCEPT !.firing = FALSE]
           empty == [quiet EXCEPT !.list = <<>>]
<1>1. /\ quiet.list = c.list /\ quiet.firing = FALSE /\ quiet.fired = c.fired
      /\ quiet.memory = c.memory /\ quiet.waiting = c.waiting
      /\ quiet.firingIndex = c.firingIndex
      /\ quiet.firingLength = c.firingLength
  BY DEF Lists
<1>2. quiet \in Lists(M)
  BY DEF Lists
<1>3. IndexFits(quiet)
  BY <1>1 DEF IndexFits
<1>4. Ended(c) = IF c.list = Off \/ c.waiting # Off THEN quiet
                 ELSE IF c.memory # Off THEN empty
                 ELSE Disabled(quiet)
  BY DEF Ended
<1> HIDE DEF quiet
<1>5. /\ empty.list = <<>> /\ empty.firing = quiet.firing
      /\ empty.fired = quiet.fired
      /\ empty.memory = quiet.memory /\ empty.waiting = quiet.waiting
      /\ empty.firingIndex = quiet.firingIndex
      /\ empty.firingLength = quiet.firingLength
  BY <1>2 DEF Lists
<1>6. empty \in Lists(M)
  <2>1. <<>> \in Seq(Firsts(M) \cup Others(M))
    OBVIOUS
  <2> QED  BY <2>1, <1>2 DEF Lists
<1> HIDE DEF empty
<1>7. IndexFits(empty)
  BY <1>1, <1>3, <1>5 DEF IndexFits
<1>8. /\ Disabled(quiet) \in Lists(M) /\ IndexFits(Disabled(quiet))
      /\ Disabled(quiet).list = Off /\ Disabled(quiet).firing = quiet.firing
  BY <1>2, <1>3, DisabledFacts
<1> QED
  BY <1>1, <1>2, <1>3, <1>4, <1>5, <1>6, <1>7, <1>8

LEMMA NewListFacts ==
  ASSUME NEW M, NEW once \in BOOLEAN
  PROVE  /\ NewList(once) \in Lists(M) /\ IndexFits(NewList(once))
         /\ NewList(once).list = <<>> /\ NewList(once).firing = FALSE
         /\ NewList(once).fired = FALSE /\ NewList(once).memory = Off
         /\ NewList(TRUE).waiting = Off
<1>1. <<>> \in Seq(Firsts(M) \cup Others(M)) /\ <<>> \in Seq(Nat)
  OBVIOUS
<1> QED
  BY <1>1 DEF NewList, Lists, IndexFits

-----------------------------------------------------------------------------
(* What is being added now.                                                *)
LEMMA NowFacts ==
  ASSUME NEW M, NEW s, Stack(M, s)
  PROVE  /\ s = <<>> \/ Head(s).runs # "library" =>
              \A d, a : Now(s, d, a) = {}
         /\ s # <<>> /\ Head(s).runs = "library"
              /\ (\A m \in DOMAIN Head(s).todo : ~IsUserAdd(Head(s).todo[m])) =>
              \A d, a : Now(s, d, a) = {} /\ ~HasAdd(Head(s), d, a)
         /\ \A d, a : Now(s, d, a) # {} => Pending(s, d, a)
<1>1. ASSUME s # <<>>
      PROVE  1 \in DOMAIN s /\ s[1] = Head(s)
  <2>1. s \in Seq(Frames(M))
    BY DEF Stack
  <2> QED  BY <2>1, <1>1
<1>2. \A d, a, f : IsUserAdd(Adds(d, a, User(f)))
                   /\ Adds(d, a, User(f)).d = d /\ Adds(d, a, User(f)).a = a
  BY DEF IsUserAdd, Adds, User
<1>3. ASSUME NEW d, NEW a, Now(s, d, a) # {}
      PROVE  /\ s # <<>> /\ Head(s).runs = "library" /\ HasAdd(Head(s), d, a)
             /\ \E m \in DOMAIN Head(s).todo : IsUserAdd(Head(s).todo[m])
  <2>1. PICK f \in Fn : /\ s # <<>> /\ Head(s).runs = "library"
                        /\ \E m \in DOMAIN Head(s).todo :
                             Head(s).todo[m] = Adds(d, a, User(f))
    BY <1>3 DEF Now
  <2>2. PICK m \in DOMAIN Head(s).todo : Head(s).todo[m] = Adds(d, a, User(f))
    BY <2>1
  <2> QED  BY <2>1, <2>2, <1>2 DEF HasAdd
<1>4. ASSUME NEW d, NEW a, Now(s, d, a) # {}
      PROVE  Pending(s, d, a)
  BY <1>1, <1>3, <1>4 DEF Pending
<1> QED
  BY <1>3, <1>4 DEF HasAdd

(* A list of calls without its first.                                      *)
LEMMA TodoTail ==
  ASSUME NEW S, NEW todo \in Seq(S), todo # <<>>
  PROVE  /\ 1 \in DOMAIN todo /\ Head(todo) = todo[1] /\ Head(todo) \in S
         /\ Len(todo) # 1 =>
              /\ Tail(todo) \in Seq(S) /\ Tail(todo) # <<>>
              /\ \A m \in DOMAIN Tail(todo) :
                   m + 1 \in DOMAIN todo /\ Tail(todo)[m] = todo[m + 1]
<1>1. 1 \in DOMAIN todo /\ Head(todo) = todo[1] /\ Head(todo) \in S
  OBVIOUS
<1>2. ASSUME Len(todo) # 1
      PROVE  /\ Tail(todo) \in Seq(S) /\ Tail(todo) # <<>>
             /\ DOMAIN Tail(todo) = 1 .. Len(todo) - 1
             /\ \A m \in 1 .. Len(todo) - 1 : Tail(todo)[m] = todo[m + 1]
  <2>1. Len(todo) \in Nat /\ Len(todo) # 0
    OBVIOUS
  <2>2. /\ Tail(todo) \in Seq(S) /\ Len(Tail(todo)) = Len(todo) - 1
        /\ DOMAIN Tail(todo) = 1 .. Len(todo) - 1
    OBVIOUS
  <2>3. \A m \in 1 .. Len(todo) - 1 : Tail(todo)[m] = todo[m + 1]
    OBVIOUS
  <2>4. Len(Tail(todo)) # 0
    BY <1>2, <2>1, <2>2
  <2>5. Tail(todo) # <<>>
    <3>1. Len(<<>>) = 0
      OBVIOUS
    <3> QED  BY ONLY <2>4, <3>1
  <2> QED  BY <2>2, <2>3, <2>5
<1>3. DOMAIN todo = 1 .. Len(todo) /\ Len(todo) \in Nat
  OBVIOUS
<1>4. \A m \in 1 .. Len(todo) - 1 : m + 1 \in 1 .. Len(todo)
  BY <1>3
<1> QED
  BY <1>1, <1>2, <1>3, <1>4

LEMMA JobKinds ==
  ASSUME NEW M, NEW x \in Jobs(M)
  PROVE  /\ x.call \in {"add", "fire", "check"} /\ x.d \in M
         /\ x.call = "add" => x.a \in Actions /\ x.f \in Others(M)
         /\ x.call = "fire" => x.a \in Actions /\ x.v \in Nat
BY DEF Jobs

LEMMA NewJobs ==
  ASSUME NEW M
  PROVE  /\ \A d \in M, a \in Actions, x \in Others(M) : Adds(d, a, x) \in Jobs(M)
         /\ \A d \in M, a \in Actions, v \in Nat : Fires(d, a, v) \in Jobs(M)
         /\ \A d \in M : Checks(d) \in Jobs(M)
BY DEF Jobs, Adds, Fires, Checks

LEMMA ItemKinds ==
  ASSUME NEW M
  PROVE  /\ \A f \in Fn : User(f) \in Others(M)
         /\ \A d \in M, a \in Actions : Forward(d, a) \in Others(M)
         /\ \A d \in M, a \in Actions, f \in Fn \cup {Off} :
              Filter(d, a, f) \in Others(M)
         /\ \A d \in M : Count(d) \in Others(M)
         /\ \A d \in M, a \in Actions :
              /\ Settle(d, a) \in Firsts(M) /\ Disable(d, a) \in Firsts(M)
              /\ Lock(d, a) \in Firsts(M)
<1>1. \A f \in Fn : User(f) \in Others(M)
  BY DEF Others, User
<1>2. \A d \in M, a \in Actions : Forward(d, a) \in Others(M)
  BY DEF Others, Forward
<1>3. \A d \in M, a \in Actions, f \in Fn \cup {Off} :
              Filter(d, a, f) \in Others(M)
  BY DEF Others, Filter
<1>4. \A d \in M : Count(d) \in Others(M)
  BY DEF Others, Count
<1>5. \A d \in M, a \in Actions :
              /\ Settle(d, a) \in Firsts(M) /\ Disable(d, a) \in Firsts(M)
              /\ Lock(d, a) \in Firsts(M)
  BY DEF Firsts, Settle, Disable, Lock
<1> QED
  BY <1>1, <1>2, <1>3, <1>4, <1>5

LEMMA OtherKinds ==
  ASSUME NEW M, NEW x \in Others(M)
  PROVE  /\ x.does \in {"user", "forward", "filter", "count"}
         /\ x.does = "user" => x.f \in Fn
         /\ x.does \in {"forward", "filter"} => x.d \in M /\ x.a \in Actions
         /\ x.does = "filter" => x.f \in Fn \cup {Off}
         /\ x.does = "count" => x.d \in M
BY DEF Others

LEMMA FirstKinds ==
  ASSUME NEW M, NEW x \in Firsts(M)
  PROVE  x.does \in {"settle", "disable", "lock"}
BY DEF Firsts

-----------------------------------------------------------------------------
(* The order of the calls: g has been given, h called, and now are the     *)
(* functions that are being added.                                         *)

(* Where the loop is and what is in the list is all that matters.          *)
LEMMA OrderedSame ==
  ASSUME NEW c, NEW e, NEW g, NEW h, NEW now, Ordered(c, g, h, now),
         e.list = c.list, Reached(e) = Reached(c)
  PROVE  Ordered(e, g, h, now)
BY DEF Ordered, Ahead

(* A function that is being added is in the list from then on.             *)
LEMMA OrderedAppend ==
  ASSUME NEW S, NEW c, NEW e, NEW g \in Seq(Fn), NEW h \in Seq(Fn \cup Fn \X Nat),
         NEW now, NEW x \in S,
         Ordered(c, g, h, now),
         c.list \in Seq(S), e.list = Append(c.list, x),
         Reached(c) \in Nat, Reached(c) <= Len(c.list), Reached(e) = Reached(c),
         x.does = "user" => now = {x.f},
         x.does # "user" => now = {}
  PROVE  Ordered(e, g, h, {})
<1> DEFINE n == Len(c.list)
<1>1. /\ n \in Nat /\ DOMAIN c.list = 1 .. n /\ DOMAIN e.list = 1 .. n + 1
      /\ \A k \in 1 .. n : e.list[k] = c.list[k]
      /\ e.list[n + 1] = x /\ Len(g) \in Nat /\ Len(h) \in Nat
  OBVIOUS
<1> HIDE DEF n
<1>2. \A k \in 1 .. n : k \in DOMAIN e.list /\ (Ahead(e, k) <=> Ahead(c, k))
  BY <1>1 DEF Ahead
<1>3. n + 1 \in DOMAIN e.list /\ (Ahead(e, n + 1) <=> x.does = "user")
  BY <1>1 DEF Ahead, n
<1>4. \A k \in DOMAIN e.list : k \in 1 .. n \/ k = n + 1
  BY <1>1
<1>5. x.does = "user" => /\ Len(h) < Len(g) /\ x.f = g[Len(g)]
                         /\ \A k \in 1 .. n : Ahead(c, k) => c.list[k].f # x.f
  BY <1>1 DEF Ordered
<1>6. Len(h) <= Len(g) /\ \A i \in 1 .. Len(h) : h[i] = g[i]
  BY DEF Ordered
<1>7. ASSUME NEW k \in DOMAIN e.list, Ahead(e, k)
      PROVE  \E i \in Len(h) + 1 .. Len(g) : e.list[k].f = g[i]
  <2>1. CASE k \in 1 .. n
    BY <2>1, <1>1, <1>2, <1>7 DEF Ordered
  <2>2. CASE k = n + 1
    <3>1. Len(g) \in Len(h) + 1 .. Len(g)
      BY <2>2, <1>1, <1>3, <1>5, <1>7
    <3> QED  BY <2>2, <3>1, <1>1, <1>3, <1>5, <1>7
  <2> QED  BY <2>1, <2>2, <1>4
<1>8. ASSUME NEW i \in Len(h) + 1 .. Len(g)
      PROVE  \E k \in DOMAIN e.list : Ahead(e, k) /\ e.list[k].f = g[i]
  <2>1. CASE \E k \in DOMAIN c.list : Ahead(c, k) /\ c.list[k].f = g[i]
    BY <2>1, <1>1, <1>2
  <2>2. CASE i = Len(g) /\ g[i] \in now
    <3>1. x.does = "user"
      BY <2>2
    <3> QED  BY <2>2, <3>1, <1>1, <1>3, <1>5
  <2> QED  BY <2>1, <2>2 DEF Ordered
<1>9. ASSUME NEW k \in DOMAIN e.list, NEW l \in DOMAIN e.list,
             NEW i \in Len(h) + 1 .. Len(g), NEW j \in Len(h) + 1 .. Len(g),
             Ahead(e, k), Ahead(e, l), k < l,
             e.list[k].f = g[i], e.list[l].f = g[j]
      PROVE  i < j
  <2>1. k \in 1 .. n
    BY <1>1, <1>9
  <2>2. Ahead(c, k) /\ c.list[k].f = g[i] /\ k \in DOMAIN c.list
    BY <2>1, <1>1, <1>2, <1>9
  <2>3. CASE l \in 1 .. n
    <3>1. Ahead(c, l) /\ c.list[l].f = g[j] /\ l \in DOMAIN c.list
      BY <2>3, <1>1, <1>2, <1>9
    <3> QED  BY <2>2, <3>1, <1>9 DEF Ordered
  <2>4. CASE l = n + 1
    <3>1. /\ x.does = "user" /\ g[j] = x.f /\ g[i] # x.f
          /\ x.f = g[Len(g)]
      BY <2>1, <2>2, <2>4, <1>1, <1>3, <1>5, <1>9
    <3>2. ~\E m \in DOMAIN c.list : Ahead(c, m) /\ c.list[m].f = g[j]
      BY <3>1, <1>1, <1>5
    <3>3. j = Len(g)
      BY <3>2 DEF Ordered
    <3>4. i # Len(g)
      BY <3>1
    <3> QED  BY <3>3, <3>4, <1>1
  <2> QED  BY <2>3, <2>4, <1>4
<1> QED
  BY <1>6, <1>7, <1>8, <1>9 DEF Ordered

(* Nothing that is ahead of the loop and no user's function is passed.     *)
LEMMA OrderedAdvance ==
  ASSUME NEW S, NEW c, NEW e, NEW g \in Seq(Fn), NEW h \in Seq(Fn \cup Fn \X Nat),
         Ordered(c, g, h, {}), c.list \in Seq(S), e.list = c.list,
         Reached(c) \in Nat, Reached(e) = Reached(c) + 1,
         Reached(c) + 1 \in DOMAIN c.list,
         c.list[Reached(c) + 1].does # "user"
  PROVE  Ordered(e, g, h, {})
<1>1. DOMAIN c.list \subseteq Nat
  OBVIOUS
<1>2. \A k \in DOMAIN c.list : Ahead(e, k) <=> Ahead(c, k)
  <2> TAKE k \in DOMAIN c.list
  <2>1. k \in Nat
    BY <1>1
  <2>2. k > Reached(e) => k > Reached(c)
    BY <2>1
  <2>3. k > Reached(c) => k > Reached(e) \/ k = Reached(c) + 1
    BY <2>1
  <2> QED  BY <2>2, <2>3 DEF Ahead
<1> QED
  BY <1>2 DEF Ordered

(* The next function of the user is the one that is to be called.          *)
LEMMA OrderedCall ==
  ASSUME NEW S, NEW c, NEW e, NEW g \in Seq(Fn), NEW h \in Seq(Fn \cup Fn \X Nat),
         NEW un,
         Once(g, un), Ordered(c, g, h, {}), c.list \in Seq(S), e.list = c.list,
         Reached(c) \in Nat, Reached(e) = Reached(c) + 1,
         Reached(c) + 1 \in DOMAIN c.list,
         c.list[Reached(c) + 1].does = "user"
  PROVE  /\ Len(h) < Len(g) /\ c.list[Reached(c) + 1].f = g[Len(h) + 1]
         /\ Ordered(e, g, Append(h, g[Len(h) + 1]), {})
<1> DEFINE k0 == Reached(c) + 1
           n == Len(h) + 1
           t == Append(h, g[n])
<1>1. /\ DOMAIN c.list \subseteq Nat /\ Len(g) \in Nat /\ Len(h) \in Nat
      /\ DOMAIN g = 1 .. Len(g) /\ n \in Nat /\ n = Len(h) + 1
      /\ Len(t) = n /\ \A i \in 1 .. Len(h) : t[i] = h[i]
      /\ t[n] = g[n]
  OBVIOUS
<1>2. k0 \in Nat /\ k0 = Reached(c) + 1 /\ k0 \in DOMAIN c.list /\ Ahead(c, k0)
  BY <1>1 DEF Ahead
<1>3. PICK m \in n .. Len(g) : c.list[k0].f = g[m]
  BY <1>2 DEF Ordered
<1> HIDE DEF t
<1>4. n \in n .. Len(g) /\ m \in Nat /\ n <= m /\ n \in DOMAIN g /\ m \in DOMAIN g
  BY <1>1, <1>3
<1>5. PICK l \in DOMAIN c.list : Ahead(c, l) /\ c.list[l].f = g[n]
  BY <1>4 DEF Ordered
<1>6. l \in Nat /\ l >= k0
  BY <1>1, <1>2, <1>5 DEF Ahead
<1>7. l = k0
  <2>1. CASE l > k0
    <3>1. m < n
      BY <2>1, <1>2, <1>3, <1>4, <1>5, ZenonT(30) DEF Ordered
    <3> QED  BY <3>1, <1>1, <1>4
  <2> QED  BY <2>1, <1>2, <1>6
<1>8. c.list[k0].f = g[n] /\ Len(h) < Len(g)
  BY <1>1, <1>4, <1>5, <1>7
<1>9. \A k \in DOMAIN c.list : Ahead(c, k) <=> Ahead(e, k) \/ k = k0
  <2> TAKE k \in DOMAIN c.list
  <2>1. k \in Nat
    BY <1>1
  <2>2. k > Reached(e) => k > Reached(c)
    BY <2>1
  <2>3. k > Reached(c) => k > Reached(e) \/ k = k0
    BY <2>1
  <2> QED  BY <2>2, <2>3, <1>2 DEF Ahead
<1>10. ~Ahead(e, k0)
  BY <1>2 DEF Ahead
<1>11. \A i \in 1 .. Len(t) : t[i] = g[i]
  <2>1. \A i \in 1 .. Len(h) : h[i] = g[i]
    BY DEF Ordered
  <2>2. \A i \in 1 .. n : i \in 1 .. Len(h) \/ i = n
    BY <1>1
  <2> HIDE DEF n
  <2>3. t[n] = g[n] /\ \A i \in 1 .. Len(h) : t[i] = g[i]
    BY <2>1, <1>1
  <2> QED  BY <2>2, <2>3, <1>1
<1> HIDE DEF k0, n
<1>12. \A i : i \in Len(t) + 1 .. Len(g) => i \in n .. Len(g) /\ i # n
  BY <1>1
<1>13. \A i : i \in n .. Len(g) => i \in Len(t) + 1 .. Len(g) \/ i = n
  BY <1>1
<1>14. Len(t) <= Len(g)
  BY <1>1, <1>8
<1>15. ASSUME NEW k \in DOMAIN e.list, Ahead(e, k)
       PROVE  \E i \in Len(t) + 1 .. Len(g) : e.list[k].f = g[i]
  <2>1. k # k0 /\ Ahead(c, k) /\ k \in DOMAIN c.list
    BY <1>9, <1>10, <1>15
  <2>2. PICK i \in n .. Len(g) : c.list[k].f = g[i]
    BY <2>1 DEF Ordered, n
  <2>3. i # n
    <3>1. k > k0
      BY <1>1, <1>2, <2>1 DEF Ahead
    <3>2. n < i
      BY <3>1, <2>1, <2>2, <1>2, <1>4, <1>8 DEF Ordered, n
    <3> QED  BY <3>2, <1>1
  <2> QED  BY <2>2, <2>3, <1>13
<1>16. ASSUME NEW i \in Len(t) + 1 .. Len(g)
       PROVE  \E k \in DOMAIN e.list : Ahead(e, k) /\ e.list[k].f = g[i]
  <2>1. i \in n .. Len(g) /\ i # n
    BY <1>12
  <2>2. PICK k \in DOMAIN c.list : Ahead(c, k) /\ c.list[k].f = g[i]
    BY <2>1 DEF Ordered, n
  <2>3. i \in DOMAIN g /\ n \in DOMAIN g
    BY <2>1, <1>1, <1>4
  <2>4. k # k0
    BY <2>1, <2>2, <2>3, <1>8 DEF Once
  <2> QED  BY <2>2, <2>4, <1>9
<1>17. ASSUME NEW k \in DOMAIN e.list, NEW l2 \in DOMAIN e.list,
              NEW i \in Len(t) + 1 .. Len(g), NEW j \in Len(t) + 1 .. Len(g),
              Ahead(e, k), Ahead(e, l2), k < l2,
              e.list[k].f = g[i], e.list[l2].f = g[j]
       PROVE  i < j
  <2>1. i \in n .. Len(g) /\ j \in n .. Len(g)
    BY <1>12
  <2>2. Ahead(c, k) /\ Ahead(c, l2) /\ k \in DOMAIN c.list /\ l2 \in DOMAIN c.list
    BY <1>9, <1>17
  <2> QED  BY <2>1, <2>2, <1>17 DEF Ordered, n
<1>18. Ordered(e, g, t, {})
  BY <1>11, <1>14, <1>15, <1>16, <1>17 DEF Ordered
<1> QED
  BY <1>8, <1>18 DEF t, n, k0

(* What has been called is what was given when nothing is ahead.           *)
LEMMA OrderedNothingAhead ==
  ASSUME NEW c, NEW g \in Seq(Fn), NEW h \in Seq(Fn \cup Fn \X Nat),
         Ordered(c, g, h, {}), \A k \in DOMAIN c.list : ~Ahead(c, k)
  PROVE  h = g
<1>1. Len(g) \in Nat /\ Len(h) \in Nat /\ Len(h) <= Len(g)
  BY DEF Ordered
<1>2. ~\E i \in Len(h) + 1 .. Len(g) : TRUE
  BY DEF Ordered
<1>3. Len(h) = Len(g)
  <2>1. Len(g) \notin Len(h) + 1 .. Len(g)
    BY <1>2
  <2> QED  BY <2>1, <1>1
<1>4. \A i \in 1 .. Len(g) : h[i] = g[i]
  BY <1>3 DEF Ordered
<1> QED
  BY <1>3, <1>4

(* An empty list has the order of what has been called entirely.           *)
LEMMA OrderedEmpty ==
  ASSUME NEW e, e.list = <<>>, NEW g \in Seq(Fn)
  PROVE  Ordered(e, g, g, {})
<1>1. DOMAIN e.list = {}
  OBVIOUS
<1>2. Len(g) \in Nat /\ \A i : i \notin Len(g) + 1 .. Len(g)
  OBVIOUS
<1> QED
  BY <1>1, <1>2 DEF Ordered

(* One that is given is ahead of nothing and after all that is to be called. *)
LEMMA OrderedGive ==
  ASSUME NEW c, NEW g \in Seq(Fn), NEW h \in Seq(Fn \cup Fn \X Nat), NEW un,
         Once(g, un), Ordered(c, g, h, {}), NEW f \in Fn, f \in un
  PROVE  Ordered(c, Append(g, f), h, {f}) /\ Once(Append(g, f), un \ {f})
<1> DEFINE t == Append(g, f)
<1>1. /\ Len(g) \in Nat /\ Len(h) \in Nat /\ Len(t) = Len(g) + 1
      /\ DOMAIN g = 1 .. Len(g) /\ DOMAIN t = 1 .. Len(g) + 1
      /\ \A i \in 1 .. Len(g) : t[i] = g[i]
      /\ t[Len(g) + 1] = f
  OBVIOUS
<1> HIDE DEF t
<1>2. Len(h) <= Len(g)
  BY DEF Ordered
<1>3. /\ \A i : i \in Len(h) + 1 .. Len(g) =>
               i \in Len(h) + 1 .. Len(t) /\ t[i] = g[i] /\ i \in DOMAIN g
      /\ \A i : i \in Len(h) + 1 .. Len(t) =>
               i \in Len(h) + 1 .. Len(g) \/ i = Len(t)
  BY <1>1, <1>2
<1>4. \A i \in DOMAIN g : g[i] # f
  BY DEF Once
<1>5. \A k \in DOMAIN c.list : Ahead(c, k) =>
        \E i \in Len(h) + 1 .. Len(g) : c.list[k].f = g[i] /\ g[i] = t[i]
  BY <1>3 DEF Ordered
<1>6. \A k \in DOMAIN c.list : Ahead(c, k) => c.list[k].f # f
  BY <1>3, <1>4, <1>5
<1>7. t[Len(t)] = f /\ Len(t) \in Nat /\ Len(h) < Len(t)
  BY <1>1, <1>2
<1>8. \A i \in 1 .. Len(h) : h[i] = t[i]
  <2>1. \A i \in 1 .. Len(h) : i \in 1 .. Len(g)
    BY <1>1, <1>2
  <2>2. \A i \in 1 .. Len(h) : h[i] = g[i]
    BY DEF Ordered
  <2> QED  BY <2>1, <2>2, <1>1
<1>9. ASSUME NEW i \in Len(h) + 1 .. Len(t)
      PROVE  \/ \E k \in DOMAIN c.list : Ahead(c, k) /\ c.list[k].f = t[i]
             \/ i = Len(t) /\ t[i] \in {f}
  <2>1. CASE i = Len(t)
    BY <2>1, <1>7
  <2>2. CASE i \in Len(h) + 1 .. Len(g)
    BY <2>2, <1>3 DEF Ordered
  <2> QED  BY <2>1, <2>2, <1>3
<1>10. ASSUME NEW k \in DOMAIN c.list, NEW l \in DOMAIN c.list,
              NEW i \in Len(h) + 1 .. Len(t), NEW j \in Len(h) + 1 .. Len(t),
              Ahead(c, k), Ahead(c, l), k < l,
              c.list[k].f = t[i], c.list[l].f = t[j]
       PROVE  i < j
  <2>1. i # Len(t) /\ j # Len(t)
    BY <1>6, <1>7, <1>10
  <2>2. /\ i \in Len(h) + 1 .. Len(g) /\ t[i] = g[i]
        /\ j \in Len(h) + 1 .. Len(g) /\ t[j] = g[j]
    BY <2>1, <1>3
  <2> QED  BY <2>2, <1>10 DEF Ordered
<1>11. \A k \in DOMAIN c.list : Ahead(c, k) =>
        \E i \in Len(h) + 1 .. Len(t) : c.list[k].f = t[i]
  BY <1>3, <1>5
<1>12. Len(h) <= Len(t)
  BY <1>1, <1>2
<1>13. Ordered(c, t, h, {f})
  <2>1. \A x \in {f} : /\ Len(h) < Len(t) /\ x = t[Len(t)]
                       /\ \A k \in DOMAIN c.list : Ahead(c, k) => c.list[k].f # x
    BY <1>6, <1>7
  <2> QED  BY <2>1, <1>8, <1>9, <1>10, <1>11, <1>12 DEF Ordered
<1>14. Once(t, un \ {f})
  <2>1. \A i \in DOMAIN t : i \in DOMAIN g \/ i = Len(g) + 1
    BY <1>1
  <2>2. \A i \in DOMAIN g : t[i] = g[i] /\ g[i] \notin un
    BY <1>1 DEF Once
  <2>3. \A i, j \in DOMAIN g : g[i] = g[j] => i = j
    BY DEF Once
  <2> QED  BY <2>1, <2>2, <2>3, <1>1, <1>4 DEF Once
<1> QED
  BY <1>13, <1>14 DEF t

-----------------------------------------------------------------------------
(* The two lists that settle a deferred.                                   *)

(* What holds of them when some deferreds are made does when more are.     *)
LEMMA PairsGrow ==
  ASSUME NEW M, NEW N, M \subseteq N
  PROVE  /\ \A d, st, cs : Steady(M, d, st, cs) => Steady(N, d, st, cs)
         /\ \A d, st, cs, s : Turns(M, d, st, cs, s) => Turns(N, d, st, cs, s)
         /\ \A c : NotifyFits(M, c) => NotifyFits(N, c)
<1>1. /\ Others(M) \subseteq Others(N)
      /\ Seq(Others(M)) \subseteq Seq(Others(N))
      /\ Seq(Firsts(M) \cup Others(M)) \subseteq Seq(Firsts(N) \cup Others(N))
  BY ItemsGrow, SeqGrow
<1>2. \A c, d, a : Starts(M, c, d, a) => Starts(N, c, d, a)
  BY <1>1 DEF Starts
<1>3. \A c, d, a : Fresh(M, c, d, a) => Fresh(N, c, d, a)
  BY <1>2 DEF Fresh
<1>4. \A c, d, a, n : Turning(M, c, d, a, n) => Turning(N, c, d, a, n)
  BY <1>2 DEF Turning
<1>5. \A c : Done(M, c) => Done(N, c)
  BY <1>1 DEF Done
<1>6. \A d, st, cs : Steady(M, d, st, cs) => Steady(N, d, st, cs)
  BY <1>3, <1>5 DEF Steady
<1>7. \A d, st, cs, a : TurnsAt(M, d, st, cs, a) => TurnsAt(N, d, st, cs, a)
  BY <1>3, <1>4 DEF TurnsAt
<1>8. \A d, st, cs, s : Turns(M, d, st, cs, s) => Turns(N, d, st, cs, s)
  BY <1>7 DEF Turns
<1>9. \A c : NotifyFits(M, c) => NotifyFits(N, c)
  BY <1>1 DEF NotifyFits
<1> QED
  BY <1>6, <1>8, <1>9

(* It is the two lists that matter.                                        *)
LEMMA PairSame ==
  ASSUME NEW M, NEW d, NEW st, NEW cs, NEW ds,
         \A a \in Settling : ds[a] = cs[a]
  PROVE  /\ Steady(M, d, st, cs) => Steady(M, d, st, ds)
         /\ \A a \in Settling : TurnsAt(M, d, st, cs, a) => TurnsAt(M, d, st, ds, a)
         /\ \A s : Turns(M, d, st, cs, s) => Turns(M, d, st, ds, s)
<1>1. \A a \in Settling : Opposite(a) \in Settling
  BY ActionFacts
<1>2. Steady(M, d, st, cs) => Steady(M, d, st, ds)
  BY <1>1 DEF Steady
<1>3. \A a \in Settling : TurnsAt(M, d, st, cs, a) => TurnsAt(M, d, st, ds, a)
  BY <1>1 DEF TurnsAt
<1> QED
  BY <1>2, <1>3 DEF Turns

(* A new list or the one of another place.                                 *)
LEMMA SetCell ==
  ASSUME NEW L, NEW cs \in [Deferreds -> [Actions -> L]],
         NEW d \in Deferreds, NEW a \in Actions, NEW x \in L, NEW ds,
         ds = [cs EXCEPT ![d][a] = x]
  PROVE  /\ ds \in [Deferreds -> [Actions -> L]] /\ ds[d][a] = x
         /\ \A e \in Deferreds, b \in Actions :
              e # d \/ b # a => ds[e][b] = cs[e][b]
         /\ \A e \in Deferreds : e # d => ds[e] = cs[e]
OBVIOUS

(* A deferred that is steady: what a list that is enabled can be.          *)
LEMMA SteadyKinds ==
  ASSUME NEW M, NEW d, NEW st, NEW cs, Steady(M, d, st, cs),
         NEW a \in Settling
  PROVE  \/ /\ st = "no" /\ Fresh(M, cs[a], d, a)
            /\ Fresh(M, cs[Opposite(a)], d, Opposite(a))
         \/ st = a /\ Done(M, cs[a]) /\ Disused(cs[Opposite(a)])
         \/ st = Opposite(a) /\ Done(M, cs[Opposite(a)]) /\ Disused(cs[a])
<1>1. CASE st = "no" /\ \A b \in Settling : Fresh(M, cs[b], d, b)
  BY <1>1, ActionFacts
<1>2. CASE \E b \in Settling : st = b /\ Done(M, cs[b]) /\ Disused(cs[Opposite(b)])
  <2>1. PICK b \in Settling : st = b /\ Done(M, cs[b]) /\ Disused(cs[Opposite(b)])
    BY <1>2
  <2>2. b = a \/ (b = Opposite(a) /\ Opposite(b) = a)
    BY ActionFacts
  <2> QED  BY <2>1, <2>2
<1> QED
  BY <1>1, <1>2 DEF Steady

-----------------------------------------------------------------------------
(* The steps.                                                              *)

(* One list is replaced, and what has been called of it.                   *)
LEMMA Cell ==
  ASSUME Types, UnmadeFits, LoopsFit, PairsFit, OrderFits,
         UNCHANGED <<owned, derived, state, given, unused, thrown>>,
         notified' \in Nat,
         NEW d \in Made, NEW a \in Actions,
         NEW x \in Lists(Made), IndexFits(x), cb' = [cb EXCEPT ![d][a] = x],
         called' \in [Deferreds -> [Actions -> Seq(Fn \cup Fn \X Nat)]],
         \A e \in Deferreds, b \in Actions :
           e # d \/ b # a => called'[e][b] = called[e][b],
         Stack(Made, calls'), AddsFit',
         \A e \in Deferreds, b \in Actions :
           e # d \/ b # a => (Loops(calls', e, b) <=> Loops(calls, e, b)),
         Loops(calls', d, a) => x.firing,
         ~thrown /\ x.firing => Loops(calls', d, a),
         \A e \in Made : e # d => Steady(Made, e, state[e], cb[e]),
         \/ Steady(Made, d, state[d], cb'[d])
         \/ Turns(Made, d, state[d], cb'[d], calls'),
         a = "notify" => NotifyFits(Made, x),
         a \in Settling /\ x.list # Off =>
           Ordered(x, given[d][a], called'[d][a], Now(calls', d, a)),
         \A e \in Made, b \in Settling :
           (e # d \/ b # a) /\ cb[e][b].list # Off =>
             Now(calls', e, b) = Now(calls, e, b)
  PROVE  DInv'
<1>1. Made' = Made /\ Made \subseteq Deferreds /\ d \in Deferreds
  BY DEF Made, Types
<1>2. cb \in [Deferreds -> [Actions -> Lists(Made)]]
  BY DEF Types
<1>3. /\ cb' \in [Deferreds -> [Actions -> Lists(Made)]] /\ cb'[d][a] = x
      /\ \A e \in Deferreds, b \in Actions :
           e # d \/ b # a => cb'[e][b] = cb[e][b]
      /\ \A e \in Deferreds : e # d => cb'[e] = cb[e]
  BY <1>1, <1>2, SetCell
<1>4. Types'
  BY <1>1, <1>3 DEF Types
<1>5. UnmadeFits'
  <2> SUFFICES ASSUME NEW e \in Deferreds \ Made
               PROVE  /\ state[e] = "no" /\ cb'[e] = [b \in Actions |-> NewList(TRUE)]
                      /\ \A b \in Actions : given[e][b] = <<>> /\ called'[e][b] = <<>>
    BY <1>1 DEF UnmadeFits
  <2>1. e # d /\ e \in Deferreds /\ cb'[e] = cb[e]
    BY <1>3
  <2>2. \A b \in Actions : called'[e][b] = called[e][b]
    BY <2>1
  <2>3. /\ state[e] = "no" /\ cb[e] = [b \in Actions |-> NewList(TRUE)]
        /\ \A b \in Actions : given[e][b] = <<>> /\ called[e][b] = <<>>
    BY DEF UnmadeFits
  <2> QED  BY <2>1, <2>2, <2>3
<1>6. LoopsFit'
  <2> SUFFICES ASSUME NEW e \in Deferreds, NEW b \in Actions
               PROVE  /\ IndexFits(cb'[e][b])
                      /\ Loops(calls', e, b) => cb'[e][b].firing
                      /\ ~thrown /\ cb'[e][b].firing => Loops(calls', e, b)
    BY DEF LoopsFit
  <2>1. CASE e = d /\ b = a
    BY <2>1, <1>3
  <2>2. CASE e # d \/ b # a
    BY <2>2, <1>3 DEF LoopsFit
  <2> QED  BY <2>1, <2>2
<1>7. PairsFit'
  <2> SUFFICES ASSUME NEW e \in Made
               PROVE  /\ \/ Steady(Made, e, state[e], cb'[e])
                         \/ Turns(Made, e, state[e], cb'[e], calls')
                      /\ NotifyFits(Made, cb'[e]["notify"])
    BY <1>1 DEF PairsFit
  <2>1. CASE e = d
    <3>1. NotifyFits(Made, cb'[d]["notify"])
      <4>1. CASE a = "notify"
        BY <4>1, <1>3
      <4>2. CASE a # "notify"
        BY <4>2, <1>1, <1>3, ActionFacts DEF PairsFit
      <4> QED  BY <4>1, <4>2
    <3> QED  BY <2>1, <3>1
  <2>2. CASE e # d
    BY <2>2, <1>1, <1>3 DEF PairsFit
  <2> QED  BY <2>1, <2>2
<1>8. OrderFits'
  <2> SUFFICES ASSUME NEW e \in Deferreds, NEW b \in Settling
               PROVE  /\ Once(given[e][b], unused)
                      /\ e \in Made /\ cb'[e][b].list # Off =>
                           Ordered(cb'[e][b], given[e][b], called'[e][b],
                                   Now(calls', e, b))
    BY <1>1 DEF OrderFits
  <2>0. b \in Actions
    BY ActionFacts
  <2>1. CASE e = d /\ b = a
    BY <2>1, <1>3 DEF OrderFits
  <2>2. CASE e # d \/ b # a
    BY <2>0, <2>2, <1>3 DEF OrderFits
  <2> QED  BY <2>1, <2>2
<1> QED
  BY <1>1, <1>4, <1>5, <1>6, <1>7, <1>8 DEF DInv

(* The stack changes, and no list does.                                    *)
LEMMA Still ==
  ASSUME Types, UnmadeFits, LoopsFit, PairsFit, OrderFits,
         UNCHANGED <<owned, derived, state, cb, called, given, unused>>,
         notified' \in Nat, thrown' \in BOOLEAN, thrown => thrown',
         Stack(Made, calls'), AddsFit',
         \A e \in Deferreds, b \in Actions :
           \/ Loops(calls', e, b) <=> Loops(calls, e, b)
           \/ thrown' /\ ~Loops(calls', e, b),
         \A e \in Made : Steady(Made, e, state[e], cb[e]),
         \A e \in Made, b \in Settling :
           cb[e][b].list # Off => Now(calls', e, b) = Now(calls, e, b)
  PROVE  DInv'
<1>1. Made' = Made
  BY DEF Made
<1>4. Types'
  BY <1>1 DEF Types
<1>5. UnmadeFits'
  BY <1>1 DEF UnmadeFits
<1>6. LoopsFit'
  BY DEF LoopsFit
<1>7. PairsFit'
  BY <1>1 DEF PairsFit
<1>8. OrderFits'
  BY <1>1 DEF OrderFits
<1> QED
  BY <1>1, <1>4, <1>5, <1>6, <1>7, <1>8 DEF DInv

(* When the top of the stack is no loop, every deferred is steady.         *)
LEMMA AllSteady ==
  ASSUME PairsFit, calls = <<>> \/ Head(calls).runs # "loop"
  PROVE  \A e \in Made : Steady(Made, e, state[e], cb[e])
BY DEF PairsFit, Turns, IsLoop

(* When it is a loop, every other deferred is.                             *)
LEMMA OthersSteady ==
  ASSUME PairsFit, NEW d, calls # <<>> => Head(calls).d = d
  PROVE  \A e \in Made : e # d => Steady(Made, e, state[e], cb[e])
BY DEF PairsFit, Turns, IsLoop

(* Nothing is being added to the lists that are enabled but what waits     *)
(* below.                                                                  *)
Calm(s) ==
  \A e \in Deferreds, b \in Settling :
    Pending(s, e, b) => cb[e][b].list = Off

LEMMA CalmNow ==
  ASSUME NEW s, Stack(Made, s), Calm(s)
  PROVE  \A e \in Deferreds, b \in Settling :
           cb[e][b].list # Off => Now(s, e, b) = {}
BY NowFacts DEF Calm

LEMMA CalmTail ==
  ASSUME NEW s, Stack(Made, s), Calm(s), s # <<>>
  PROVE  Calm(Tail(s))
BY Pop DEF Calm

LEMMA CalmStack ==
  ASSUME Stack(Made, calls), AddsFit
  PROVE  /\ calls # <<>> => Calm(Tail(calls)) /\ Stack(Made, Tail(calls))
         /\ calls = <<>> \/ Head(calls).runs # "library" => Calm(calls)
<1>1. calls # <<>> => Calm(Tail(calls)) /\ Stack(Made, Tail(calls))
  BY Pop DEF AddsFit, Calm
<1>2. CASE calls = <<>>
  BY <1>1, <1>2, EmptyStack DEF Calm
<1>3. CASE calls # <<>>
  BY <1>1, <1>3, Pop DEF Calm, HasAdd
<1> QED
  BY <1>1, <1>2, <1>3

(* A list is fired, by user code or by the library.                        *)
LEMMA FireStep ==
  ASSUME Types, UnmadeFits, LoopsFit, PairsFit, OrderFits,
         calls = <<>> \/ Head(calls).runs # "loop",
         NEW d \in Made, NEW a \in Actions, NEW v \in Nat,
         NEW rest, Stack(Made, rest), Calm(rest),
         \A e \in Deferreds, b \in Actions :
           Loops(rest, e, b) <=> Loops(calls, e, b),
         \A e \in Made, b \in Settling :
           cb[e][b].list # Off => Now(calls, e, b) = {},
         Fire(d, a, v, rest), notified' \in Nat,
         UNCHANGED <<owned, derived, state, given, called, unused, thrown>>
  PROVE  DInv'
<1> DEFINE c == cb[d][a]
<1>1. d \in Deferreds /\ Made \subseteq Deferreds /\ Made' = Made
  BY DEF Types, Made
<1>2. c \in Lists(Made) /\ IndexFits(c)
  BY <1>1 DEF Types, LoopsFit
<1>3. \A e \in Made : Steady(Made, e, state[e], cb[e])
  BY AllSteady
<1>4. \A e \in Made, b \in Settling : cb[e][b].list # Off => Now(rest, e, b) = {}
  BY <1>1, CalmNow
<1>5. CASE ~MayFire(c)
  <2>1. calls' = rest /\ UNCHANGED cb
    BY <1>5 DEF Fire
  <2>2. AddsFit'
    <3>1. rest # <<>> => Calm(Tail(rest))
      BY CalmTail
    <3> QED  BY <2>1, <3>1 DEF AddsFit, Calm
  <2>3. \A e \in Deferreds, b \in Actions :
           Loops(calls', e, b) <=> Loops(calls, e, b)
    BY <2>1
  <2>4. \A e \in Made, b \in Settling :
           cb[e][b].list # Off => Now(calls', e, b) = Now(calls, e, b)
    BY <1>4, <2>1
  <2> QED  BY <1>1, <1>3, <2>1, <2>2, <2>3, <2>4, Still DEF Types
<1>6. CASE MayFire(c)
  <2> DEFINE x == Fired(c, v)
  <2>1. /\ x \in Lists(Made) /\ IndexFits(x) /\ x.list = c.list /\ x.firing = TRUE
        /\ ~c.firing => x = Started(c, v)
    BY <1>2, <1>6, FiredFacts
  <2>2. /\ cb' = [cb EXCEPT ![d][a] = x]
        /\ calls' = IF c.firing THEN rest ELSE <<Loop(d, a, v)>> \o rest
    BY <1>6 DEF Fire
  <2>3. /\ cb'[d][a] = x
        /\ \A e \in Deferreds, b \in Actions :
             e # d \/ b # a => cb'[e][b] = cb[e][b]
    <3>1. cb \in [Deferreds -> [Actions -> Lists(Made)]]
      BY DEF Types
    <3> QED  BY <1>1, <2>1, <2>2, <3>1, SetCell
  <2> DEFINE f == Loop(d, a, v)
  <2>4. /\ f \in Frames(Made) /\ f.runs = "loop" /\ f.d = d /\ f.a = a
        /\ \A e, b : ~HasAdd(f, e, b)
        /\ \A e, b : IsLoop(f, e, b) <=> e = d /\ b = a
    BY NewFrames DEF Loop, HasAdd, IsLoop
  <2> HIDE DEF x, f
  <2>5. CASE c.firing
    <3>1. calls' = rest
      BY <2>2, <2>5
    <3>2. a \notin Settling
      <4> SUFFICES ASSUME a \in Settling PROVE FALSE
        OBVIOUS
      <4>1. Steady(Made, d, state[d], cb[d])
        BY <1>3
      <4>2. Fresh(Made, c, d, a) \/ Done(Made, c) \/ Disused(c)
        BY <4>1, SteadyKinds
      <4> QED  BY <4>2, <1>6, <2>5 DEF Fresh, Done, Disused, MayFire
    <3>3. AddsFit'
      <4>1. rest # <<>> => Calm(Tail(rest))
        BY CalmTail
      <4>2. \A e \in Deferreds, b \in Settling : cb'[e][b] = cb[e][b]
        BY <2>3, <3>2, ActionFacts
      <4> QED  BY <3>1, <4>1, <4>2 DEF AddsFit, Calm
    <3>4. \A e \in Deferreds, b \in Actions :
            Loops(calls', e, b) <=> Loops(calls, e, b)
      BY <3>1
    <3>5. ~thrown /\ x.firing => Loops(calls', d, a)
      BY <1>1, <2>5, <3>4 DEF LoopsFit
    <3>6. Steady(Made, d, state[d], cb'[d])
      <4>1. \A b \in Settling : cb'[d][b] = cb[d][b]
        BY <1>1, <2>3, <3>2, ActionFacts
      <4> QED  BY <1>3, <4>1, PairSame
    <3>7. NotifyFits(Made, x)
      <4>1. NotifyFits(Made, cb[d]["notify"]) /\ a = "notify"
        BY <3>2, ActionFacts DEF PairsFit
      <4> QED  BY <4>1, <2>1 DEF NotifyFits
    <3>8. \A e \in Made, b \in Settling :
            (e # d \/ b # a) /\ cb[e][b].list # Off =>
              Now(calls', e, b) = Now(calls, e, b)
      BY <1>4, <3>1
    <3>9. called \in [Deferreds -> [Actions -> Seq(Fn \cup Fn \X Nat)]]
      BY DEF Types
    <3> QED  BY <1>3, <2>1, <2>2, <3>1, <3>2, <3>3, <3>4, <3>5, <3>6, <3>7,
                <3>8, <3>9, Cell, ZenonT(30)
  <2>6. CASE ~c.firing
    <3>1. calls' = <<f>> \o rest /\ x = Started(c, v) /\ c.list # Off
      BY <1>6, <2>1, <2>2, <2>6 DEF f, MayFire
    <3>2. ~Loops(rest, d, a)
      BY <1>1, <2>6 DEF LoopsFit
    <3>3. /\ Stack(Made, calls') /\ calls' # <<>> /\ Head(calls') = f
          /\ Tail(calls') = rest
          /\ \A e, b : Loops(calls', e, b) <=> IsLoop(f, e, b) \/ Loops(rest, e, b)
      BY <2>4, <3>1, <3>2, Push
    <3>4. \A e \in Deferreds, b \in Settling : cb[e][b].list = Off => cb'[e][b].list = Off
      BY <2>1, <2>3, ActionFacts
    <3>5. AddsFit'
      BY <3>3, <3>4 DEF AddsFit, Calm
    <3>6. \A e \in Deferreds, b \in Actions :
            e # d \/ b # a => (Loops(calls', e, b) <=> Loops(calls, e, b))
      BY <2>4, <3>3
    <3>7. Loops(calls', d, a)
      BY <2>4, <3>3
    <3>8. \A e, b : Now(calls', e, b) = {}
      BY <2>4, <3>3, NowFacts
    <3>9. /\ x.firingIndex = 0 /\ x.memory = v /\ x.waiting = c.waiting
      BY <1>2, <3>1, StartedFacts, ZenonT(30)
    <3>10. \/ Steady(Made, d, state[d], cb'[d])
           \/ Turns(Made, d, state[d], cb'[d], calls')
      <4>1. CASE a \notin Settling
        <5>1. \A b \in Settling : cb'[d][b] = cb[d][b]
          BY <1>1, <2>3, <4>1, ActionFacts
        <5> QED  BY <1>3, <5>1, PairSame
      <4>2. CASE a \in Settling
        <5>1. \/ /\ state[d] = "no" /\ Fresh(Made, c, d, a)
                 /\ Fresh(Made, cb[d][Opposite(a)], d, Opposite(a))
              \/ Done(Made, c) \/ Disused(c)
          BY <1>3, <4>2, SteadyKinds
        <5>2. /\ state[d] = "no" /\ Fresh(Made, c, d, a)
              /\ Fresh(Made, cb[d][Opposite(a)], d, Opposite(a))
          BY <5>1, <1>6 DEF Done, Disused, MayFire
        <5>3. cb'[d][Opposite(a)] = cb[d][Opposite(a)]
          BY <1>1, <2>3, <4>2, ActionFacts
        <5>4. Starts(Made, x, d, a)
          BY <5>2, <2>1, <3>9 DEF Fresh, Starts
        <5>5. v # Off
          BY OffFacts
        <5>6. TurnsAt(Made, d, state[d], cb'[d], a)
          BY <5>2, <5>3, <5>4, <5>5, <2>1, <2>3, <3>9 DEF TurnsAt, Turning
        <5> QED  BY <4>2, <5>6, <2>4, <3>3 DEF Turns
      <4> QED  BY <4>1, <4>2
    <3>11. a = "notify" => NotifyFits(Made, x)
      BY <2>1 DEF PairsFit, NotifyFits
    <3>12. a \in Settling => Ordered(x, given[d][a], called[d][a], {})
      <4> SUFFICES ASSUME a \in Settling
                   PROVE  Ordered(x, given[d][a], called[d][a], {})
        OBVIOUS
      <4>1. Ordered(c, given[d][a], called[d][a], {})
        BY <1>1, <3>1 DEF OrderFits
      <4>2. Reached(x) = Reached(c)
        BY <2>1, <2>6, <3>9 DEF Reached
      <4> QED  BY <4>1, <4>2, <2>1, OrderedSame
    <3>13. called \in [Deferreds -> [Actions -> Seq(Fn \cup Fn \X Nat)]]
      BY DEF Types
    <3>14. \A e \in Made, b \in Settling :
            (e # d \/ b # a) /\ cb[e][b].list # Off =>
              Now(calls', e, b) = Now(calls, e, b)
      BY <3>8
    <3>15. a \in Settling /\ x.list # Off =>
             Ordered(x, given[d][a], called[d][a], Now(calls', d, a))
      BY <3>8, <3>12
    <3> QED  BY <1>3, <2>1, <2>2, <3>3, <3>5, <3>6, <3>7, <3>10, <3>11, <3>13,
                <3>14, <3>15, Cell
  <2> QED  BY <2>5, <2>6
<1> QED
  BY <1>5, <1>6

(* A function is added to a list, which calls it now, later or never.      *)
LEMMA AddStep ==
  ASSUME Types, UnmadeFits, LoopsFit, PairsFit, OrderFits,
         calls = <<>> \/ Head(calls).runs # "loop",
         NEW d \in Made, NEW a \in Actions, NEW x \in Others(Made),
         NEW rest, Stack(Made, rest),
         rest # <<>> => Calm(Tail(rest)),
         CallsAtOnce(cb[d][a]) => Calm(rest),
         \A e \in Deferreds, b \in Actions :
           Loops(rest, e, b) <=> Loops(calls, e, b),
         a \in Settling /\ cb[d][a].list # Off =>
           /\ x.does = "user" => Now(calls, d, a) = {x.f}
           /\ x.does # "user" => Now(calls, d, a) = {}
           /\ Now(rest, d, a) = {},
         \A e \in Made, b \in Settling :
           (e # d \/ b # a) /\ cb[e][b].list # Off =>
             Now(rest, e, b) = Now(calls, e, b),
         Add(d, a, x, rest), notified' \in Nat,
         UNCHANGED <<owned, derived, state, given, called, unused, thrown>>
  PROVE  DInv'
<1> DEFINE c == cb[d][a]
<1>1. d \in Deferreds /\ Made \subseteq Deferreds /\ Made' = Made
  BY DEF Types, Made
<1>2. c \in Lists(Made) /\ IndexFits(c)
  BY <1>1 DEF Types, LoopsFit
<1>3. \A e \in Made : Steady(Made, e, state[e], cb[e])
  BY AllSteady
<1>4. called \in [Deferreds -> [Actions -> Seq(Fn \cup Fn \X Nat)]]
  BY DEF Types
<1>5. cb \in [Deferreds -> [Actions -> Lists(Made)]]
  BY DEF Types
<1>0. x \in Firsts(Made) \cup Others(Made)
  OBVIOUS
<1>6. CASE c.list = Off
  <2>1. ~CallsAtOnce(c) /\ Added(c, x) = c
    BY <1>6 DEF CallsAtOnce, Added
  <2>2. calls' = rest /\ cb' = [cb EXCEPT ![d][a] = c]
    BY <2>1 DEF Add
  <2>3. \A e \in Deferreds, b \in Actions : cb'[e][b] = cb[e][b]
    BY <1>1, <1>5, <2>2
  <2>4. AddsFit'
    BY <2>2, <2>3, ActionFacts DEF AddsFit, Calm
  <2>5. Steady(Made, d, state[d], cb'[d])
    BY <1>1, <1>3, <2>3, ActionFacts, PairSame
  <2>6. a = "notify" => NotifyFits(Made, c)
    BY DEF PairsFit
  <2>7. \A e \in Deferreds, b \in Actions :
          Loops(calls', e, b) <=> Loops(calls, e, b)
    BY <2>2
  <2>8. /\ Loops(calls', d, a) => c.firing
        /\ ~thrown /\ c.firing => Loops(calls', d, a)
    BY <1>1, <2>7 DEF LoopsFit
  <2>9. \A e \in Made, b \in Settling :
           (e # d \/ b # a) /\ cb[e][b].list # Off =>
             Now(calls', e, b) = Now(calls, e, b)
    BY <2>2
  <2> QED  BY <1>2, <1>3, <1>4, <1>6, <2>2, <2>4, <2>5, <2>6, <2>7, <2>8, <2>9, Cell
<1>7. CASE c.list # Off /\ ~CallsAtOnce(c)
  <2> DEFINE n == Added(c, x)
  <2>1. /\ n \in Lists(Made) /\ IndexFits(n)
        /\ n.firing = c.firing /\ n.fired = c.fired
        /\ n.firingIndex = c.firingIndex
        /\ n.memory = c.memory /\ n.waiting = c.waiting
        /\ n.list = Append(c.list, x) /\ n.list # Off
        /\ n.list \in Seq(Firsts(Made) \cup Others(Made))
    <3> HIDE DEF c
    <3>1. IsAdded(Made, c, x, n)
      BY <1>0, <1>1, <1>2, <1>7, AddedLater
    <3> QED  BY <3>1 DEF IsAdded
  <2>2. calls' = rest /\ cb' = [cb EXCEPT ![d][a] = n]
    BY <1>7 DEF Add
  <2> HIDE DEF n
  <2>3. /\ cb'[d][a] = n
        /\ \A e \in Deferreds, b \in Actions :
             e # d \/ b # a => cb'[e][b] = cb[e][b]
    BY <1>1, <1>5, <2>1, <2>2, SetCell
  <2>4. AddsFit'
    <3>1. \A e \in Deferreds, b \in Settling : cb[e][b].list = Off => cb'[e][b].list = Off
      BY <1>7, <2>3, ActionFacts
    <3> QED  BY <2>2, <3>1 DEF AddsFit, Calm
  <2>5. c.list \in Seq(Firsts(Made) \cup Others(Made))
    BY <1>2, <1>7 DEF Lists
  <2>6. Steady(Made, d, state[d], cb'[d])
    <3>1. CASE a \notin Settling
      <4>1. \A b \in Settling : cb'[d][b] = cb[d][b]
        BY <1>1, <2>3, <3>1, ActionFacts
      <4> QED  BY <1>3, <4>1, PairSame
    <3>2. CASE a \in Settling
      <4>0. cb'[d][Opposite(a)] = cb[d][Opposite(a)] /\ Opposite(a) \in Settling
            /\ \A b \in Settling : b = a \/ b = Opposite(a)
        BY <1>1, <2>3, <3>2, ActionFacts
      <4>1. \/ /\ state[d] = "no" /\ Fresh(Made, c, d, a)
               /\ Fresh(Made, cb[d][Opposite(a)], d, Opposite(a))
            \/ state[d] = a /\ Done(Made, c) /\ Disused(cb[d][Opposite(a)])
        BY <1>3, <1>7, <3>2, SteadyKinds DEF Disused
      <4>2. ASSUME Fresh(Made, c, d, a)
            PROVE  Fresh(Made, n, d, a)
        <5>1. Starts(Made, c, d, a)
          BY <4>2 DEF Fresh
        <5>2. /\ Len(n.list) = Len(c.list) + 1 /\ Len(c.list) \in Nat
              /\ \A k \in 1 .. Len(c.list) : n.list[k] = c.list[k]
              /\ n.list[Len(c.list) + 1] = x
          BY <2>1, <2>5
        <5>3. Len(c.list) >= 3
          BY <5>1 DEF Starts
        <5>4. 1 \in 1 .. Len(c.list) /\ 2 \in 1 .. Len(c.list) /\ 3 \in 1 .. Len(c.list)
          BY <5>2, <5>3
        <5>5. \A k \in 4 .. Len(n.list) : n.list[k] \in Others(Made)
          <6> TAKE k \in 4 .. Len(n.list)
          <6>1. \/ k \in 4 .. Len(c.list) /\ k \in 1 .. Len(c.list)
                \/ k = Len(c.list) + 1
            BY <5>2
          <6> QED  BY <6>1, <5>1, <5>2 DEF Starts
        <5>6. Len(n.list) >= 3
          BY <5>2, <5>3
        <5>7. Starts(Made, n, d, a)
          BY <5>1, <5>2, <5>4, <5>5, <5>6, <2>1 DEF Starts
        <5> QED  BY <5>7, <4>2, <2>1 DEF Fresh
      <4>3. ASSUME Done(Made, c)
            PROVE  Done(Made, n)
        <5>1. c.firing
          BY <4>3, <1>7 DEF Done, CallsAtOnce
        <5>2. /\ DOMAIN n.list = 1 .. Len(c.list) + 1 /\ Len(c.list) \in Nat
              /\ DOMAIN c.list = 1 .. Len(c.list)
              /\ \A k \in 1 .. Len(c.list) : n.list[k] = c.list[k]
              /\ n.list[Len(c.list) + 1] = x
          BY <2>1, <2>5, SMTT(40)
        <5>3. \A k \in DOMAIN n.list : k > n.firingIndex => n.list[k] \in Others(Made)
          <6> TAKE k \in DOMAIN n.list
          <6>1. k \in 1 .. Len(c.list) \/ k = Len(c.list) + 1
            BY <5>2
          <6> QED  BY <6>1, <4>3, <5>1, <5>2, <2>1 DEF Done
        <5> QED  BY <4>3, <5>1, <5>3, <2>1 DEF Done
      <4> QED  BY <3>2, <4>0, <4>1, <4>2, <4>3, <2>3 DEF Steady
    <3> QED  BY <3>1, <3>2
  <2>7. a = "notify" => NotifyFits(Made, n)
    <3> SUFFICES ASSUME a = "notify" PROVE NotifyFits(Made, n)
      OBVIOUS
    <3>1. c.list \in Seq(Others(Made))
      BY <1>7 DEF PairsFit, NotifyFits
    <3>2. Append(c.list, x) \in Seq(Others(Made))
      BY <3>1
    <3> QED  BY <3>2, <2>1 DEF NotifyFits
  <2>8. \A e \in Deferreds, b \in Actions :
          Loops(calls', e, b) <=> Loops(calls, e, b)
    BY <2>2
  <2>9. /\ Loops(calls', d, a) => n.firing
        /\ ~thrown /\ n.firing => Loops(calls', d, a)
    BY <1>1, <2>1, <2>8 DEF LoopsFit
  <2>10. \A e \in Made, b \in Settling :
           (e # d \/ b # a) /\ cb[e][b].list # Off =>
             Now(calls', e, b) = Now(calls, e, b)
    BY <2>2
  <2>11. a \in Settling => Ordered(n, given[d][a], called[d][a], Now(calls', d, a))
    <3> SUFFICES ASSUME a \in Settling
                 PROVE  Ordered(n, given[d][a], called[d][a], Now(calls', d, a))
      OBVIOUS
    <3>1. Ordered(c, given[d][a], called[d][a], Now(calls, d, a))
      BY <1>1, <1>7 DEF OrderFits
    <3>2. /\ given[d][a] \in Seq(Fn) /\ called[d][a] \in Seq(Fn \cup Fn \X Nat)
      BY <1>1 DEF Types
    <3>3. Reached(n) = Reached(c)
      BY <2>1 DEF Reached
    <3>4. Reached(c) \in Nat /\ Reached(c) <= Len(c.list)
      <4>1. c.firingIndex \in Nat /\ Len(c.list) \in Nat
        BY <1>2, <2>5 DEF Lists
      <4> QED  BY <4>1, <1>2, <1>7 DEF Reached, IndexFits
    <3>5. Now(calls', d, a) = {}
      BY <1>7, <2>2
    <3>6. /\ x.does = "user" => Now(calls, d, a) = {x.f}
          /\ x.does # "user" => Now(calls, d, a) = {}
      BY <1>7
    <3> DEFINE S == Firsts(Made) \cup Others(Made)
    <3>7. c.list \in Seq(S) /\ x \in S /\ n.list = Append(c.list, x)
      BY <1>0, <2>1, <2>5
    <3> HIDE DEF c, S
    <3>8. Ordered(n, given[d][a], called[d][a], {})
      BY <3>1, <3>2, <3>3, <3>4, <3>6, <3>7, OrderedAppend
    <3> QED  BY <3>5, <3>8
  <2> QED  BY <1>3, <1>4, <2>1, <2>2, <2>4, <2>6, <2>7, <2>8, <2>9, <2>10, <2>11, Cell
<1>8. CASE CallsAtOnce(c)
  <2> DEFINE n == Started(Added(c, x), c.memory)
             f == Loop(d, a, c.memory)
  <2>0. c.list # Off /\ ~c.firing /\ c.memory # Off
    BY <1>8 DEF CallsAtOnce
  <2>1. /\ n \in Lists(Made) /\ IndexFits(n)
        /\ n.firing = TRUE /\ n.fired = TRUE
        /\ n.firingIndex = Len(c.list)
        /\ n.memory = c.memory /\ n.waiting = c.waiting
        /\ n.list = Append(c.list, x) /\ n.list # Off
        /\ n.list \in Seq(Firsts(Made) \cup Others(Made))
    <3> HIDE DEF c
    <3> QED  BY <1>0, <1>1, <1>2, <1>8, <2>0, AddedNow
  <2>2. calls' = <<f>> \o rest /\ cb' = [cb EXCEPT ![d][a] = n]
    BY <1>8 DEF Add
  <2>3. c.memory \in Nat
    BY <1>2, <2>0 DEF Lists
  <2>4. /\ f \in Frames(Made) /\ f.runs = "loop" /\ f.d = d /\ f.a = a
        /\ \A e, b : ~HasAdd(f, e, b)
        /\ \A e, b : IsLoop(f, e, b) <=> e = d /\ b = a
    BY <2>3, NewFrames DEF Loop, HasAdd, IsLoop
  <2> HIDE DEF n, f
  <2>5. /\ cb'[d][a] = n
        /\ \A e \in Deferreds, b \in Actions :
             e # d \/ b # a => cb'[e][b] = cb[e][b]
    BY <1>1, <1>5, <2>1, <2>2, SetCell
  <2>6. c.list \in Seq(Firsts(Made) \cup Others(Made))
    BY <1>2, <2>0 DEF Lists
  <2>7. ~Loops(rest, d, a)
    BY <1>1, <2>0 DEF LoopsFit
  <2>8. /\ Stack(Made, calls') /\ calls' # <<>> /\ Head(calls') = f
        /\ Tail(calls') = rest
        /\ \A e, b : Loops(calls', e, b) <=> IsLoop(f, e, b) \/ Loops(rest, e, b)
    BY <2>2, <2>4, <2>7, Push
  <2>9. AddsFit'
    <3>1. \A e \in Deferreds, b \in Settling : cb[e][b].list = Off => cb'[e][b].list = Off
      BY <2>0, <2>5, ActionFacts
    <3> QED  BY <1>8, <2>8, <3>1 DEF AddsFit, Calm
  <2>10. \A e \in Deferreds, b \in Actions :
            e # d \/ b # a => (Loops(calls', e, b) <=> Loops(calls, e, b))
    BY <2>4, <2>8
  <2>11. Loops(calls', d, a)
    BY <2>4, <2>8
  <2>12. \A e, b : Now(calls', e, b) = {}
    BY <2>4, <2>8, NowFacts
  <2>13. \A e \in Made, b \in Settling :
           (e # d \/ b # a) /\ cb[e][b].list # Off =>
             Now(calls', e, b) = Now(calls, e, b)
    <3>1. \A e \in Made, b \in Settling : cb[e][b].list # Off => Now(rest, e, b) = {}
      BY <1>1, <1>8, CalmNow
    <3> QED  BY <3>1, <2>12
  <2>14. a = "notify" => NotifyFits(Made, n)
    <3> SUFFICES ASSUME a = "notify" PROVE NotifyFits(Made, n)
      OBVIOUS
    <3>1. c.list \in Seq(Others(Made))
      BY <2>0 DEF PairsFit, NotifyFits
    <3>2. Append(c.list, x) \in Seq(Others(Made))
      BY <3>1
    <3> QED  BY <3>2, <2>1 DEF NotifyFits
  <2>15. a \in Settling => /\ state[d] = a /\ Done(Made, c) /\ c.list = <<>>
                           /\ Disused(cb[d][Opposite(a)])
    BY <1>3, <2>0, SteadyKinds DEF Fresh, Disused, Done
  <2>16. Steady(Made, d, state[d], cb'[d])
    <3>1. CASE a \notin Settling
      <4>1. \A b \in Settling : cb'[d][b] = cb[d][b]
        BY <1>1, <2>5, <3>1, ActionFacts
      <4> QED  BY <1>3, <4>1, PairSame
    <3>2. CASE a \in Settling
      <4>1. cb'[d][Opposite(a)] = cb[d][Opposite(a)]
        BY <1>1, <2>5, <3>2, ActionFacts
      <4>2. n.list = <<x>>
        <5>1. Append(<<>>, x) = <<x>>
          OBVIOUS
        <5> QED  BY <5>1, <2>1, <2>15, <3>2
      <4>3. \A k \in DOMAIN n.list : n.list[k] \in Others(Made)
        BY <4>2
      <4>4. Done(Made, n)
        BY <2>1, <2>15, <3>2, <4>3 DEF Done
      <4> QED  BY <2>5, <2>15, <3>2, <4>1, <4>4 DEF Steady
    <3> QED  BY <3>1, <3>2
  <2>17. a \in Settling => Ordered(n, given[d][a], called[d][a], Now(calls', d, a))
    <3> SUFFICES ASSUME a \in Settling
                 PROVE  Ordered(n, given[d][a], called[d][a], {})
      BY <2>12
    <3>1. Ordered(c, given[d][a], called[d][a], Now(calls, d, a))
      BY <1>1, <2>0 DEF OrderFits
    <3>2. /\ given[d][a] \in Seq(Fn) /\ called[d][a] \in Seq(Fn \cup Fn \X Nat)
      BY <1>1 DEF Types
    <3>3. Len(c.list) = 0
      BY <2>15
    <3>4. Reached(n) = 0 /\ Reached(c) = 0
      BY <2>0, <2>1, <3>3 DEF Reached
    <3>5. Reached(c) \in Nat /\ Reached(c) <= Len(c.list)
      BY <3>3, <3>4
    <3>6. /\ x.does = "user" => Now(calls, d, a) = {x.f}
          /\ x.does # "user" => Now(calls, d, a) = {}
      BY <2>0
    <3> QED  BY <1>0, <2>1, <2>6, <3>1, <3>2, <3>4, <3>5, <3>6, OrderedAppend, ZenonT(30)
  <2> QED  BY <1>3, <1>4, <2>1, <2>2, <2>8, <2>9, <2>10, <2>11, <2>13, <2>14,
              <2>16, <2>17, Cell
<1> QED
  BY <1>6, <1>7, <1>8 DEF CallsAtOnce

-----------------------------------------------------------------------------
(* The calls of the library.                                               *)
LEMMA AddsDiffer ==
  ASSUME NEW d, NEW a, NEW f, NEW e, NEW b, NEW g
  PROVE  /\ Adds(d, a, User(f)) = Adds(e, b, User(g)) <=> d = e /\ a = b /\ f = g
         /\ IsUserAdd(Adds(d, a, User(f))) /\ Adds(d, a, User(f)).call = "add"
         /\ Adds(d, a, User(f)).d = d /\ Adds(d, a, User(f)).a = a
         /\ Adds(d, a, User(f)).f = User(f)
         /\ User(f).does = "user" /\ User(f).f = f
<1>1. /\ IsUserAdd(Adds(d, a, User(f))) /\ Adds(d, a, User(f)).call = "add"
      /\ Adds(d, a, User(f)).d = d /\ Adds(d, a, User(f)).a = a
      /\ Adds(d, a, User(f)).f = User(f)
      /\ User(f).does = "user" /\ User(f).f = f
  BY DEF IsUserAdd, Adds, User
<1>2. /\ Adds(e, b, User(g)).d = e /\ Adds(e, b, User(g)).a = b
      /\ Adds(e, b, User(g)).f = User(g) /\ User(g).f = g
  BY DEF Adds, User
<1> QED
  BY <1>1, <1>2

(* A function is added to one list, or to two.                             *)
LEMMA OneAdd ==
  ASSUME NEW s, s # <<>>, Head(s).runs = "library",
         NEW d, NEW a, NEW f \in Fn, Head(s).todo = <<Adds(d, a, User(f))>>
  PROVE  /\ \A e, b : HasAdd(Head(s), e, b) <=> e = d /\ b = a
         /\ \A e, b : Now(s, e, b) = IF e = d /\ b = a THEN {f} ELSE {}
<1>1. /\ DOMAIN Head(s).todo = {1} /\ Head(s).todo[1] = Adds(d, a, User(f))
  OBVIOUS
<1>2. \A e, b : HasAdd(Head(s), e, b) <=> e = d /\ b = a
  BY <1>1, AddsDiffer DEF HasAdd
<1>3. \A e, b, g : g \in Now(s, e, b) <=> g = f /\ e = d /\ b = a
  BY <1>1, AddsDiffer DEF Now
<1> QED
  BY <1>2, <1>3

LEMMA TwoAdds ==
  ASSUME NEW s, s # <<>>, Head(s).runs = "library", NEW d, NEW f \in Fn,
         Head(s).todo = <<Adds(d, "resolve", User(f)),
                          Adds(d, "reject", User(f))>>
  PROVE  /\ \A e, b : HasAdd(Head(s), e, b) <=> e = d /\ b \in Settling
         /\ \A e, b : Now(s, e, b) = IF e = d /\ b \in Settling THEN {f} ELSE {}
<1>1. /\ DOMAIN Head(s).todo = {1, 2}
      /\ Head(s).todo[1] = Adds(d, "resolve", User(f))
      /\ Head(s).todo[2] = Adds(d, "reject", User(f))
  OBVIOUS
<1>2. \A b : b \in Settling <=> b = "resolve" \/ b = "reject"
  BY DEF Settling
<1>3. \A e, b : HasAdd(Head(s), e, b) <=> e = d /\ b \in Settling
  BY <1>1, <1>2, AddsDiffer DEF HasAdd
<1>4. \A e, b, g : g \in Now(s, e, b) <=> g = f /\ e = d /\ b \in Settling
  BY <1>1, <1>2, AddsDiffer DEF Now
<1> QED
  BY <1>3, <1>4

(* What is left of the stack when the next call is made.                   *)
RestOf(s) ==
  IF Len(Head(s).todo) = 1 THEN Tail(s)
  ELSE <<Library(Tail(Head(s).todo))>> \o Tail(s)

LEMMA RestFacts ==
  ASSUME Stack(Made, calls), AddsFit, Running("library"),
         NEW rest, rest = RestOf(calls)
  PROVE  /\ Stack(Made, rest) /\ Calm(Below) /\ Stack(Made, Below)
         /\ rest # <<>> => Calm(Tail(rest))
         /\ \A e, b : Loops(rest, e, b) <=> Loops(calls, e, b)
         /\ Head(Top.todo) \in Jobs(Made) /\ Top.todo \in Seq(Jobs(Made))
         /\ Top.todo # <<>>
         /\ Len(Top.todo) = 1 => rest = Below
         /\ Len(Top.todo) # 1 =>
              /\ rest # <<>> /\ Head(rest) = Library(Tail(Top.todo))
              /\ \A e, b : Pending(rest, e, b) <=>
                   HasAdd(Head(rest), e, b) \/ Pending(Below, e, b)
         /\ (\A m \in DOMAIN Top.todo : ~IsUserAdd(Top.todo[m])) => Calm(rest)
<1> DEFINE todo == Top.todo
<1>1. /\ calls # <<>> /\ Top.runs = "library" /\ Top = Head(calls)
      /\ Below = Tail(calls)
  BY DEF Running, Top, Below
<1>2. /\ Stack(Made, Below) /\ Top \in Frames(Made) /\ TodoFits(todo)
      /\ \A e, b : Loops(calls, e, b) <=> Loops(Below, e, b)
  BY <1>1, Pop DEF IsLoop
<1>3. todo \in Seq(Jobs(Made)) /\ todo # <<>>
  BY <1>1, <1>2, FrameKinds
<1>4. Calm(Below)
  BY <1>1, CalmStack
<1>5. Head(todo) \in Jobs(Made)
  BY <1>3, TodoTail
<1>6. rest = IF Len(todo) = 1 THEN Below ELSE <<Library(Tail(todo))>> \o Below
  BY <1>1 DEF RestOf
<1>7. CASE Len(todo) = 1
  <2>1. rest = Below
    BY <1>6, <1>7
  <2>2. rest # <<>> => Calm(Tail(rest))
    BY <1>2, <1>4, <2>1, CalmTail
  <2> QED  BY <1>2, <1>3, <1>4, <1>5, <1>7, <2>1, <2>2
<1>8. CASE Len(todo) # 1
  <2> DEFINE left == Tail(todo)
             f == Library(left)
  <2>1. /\ left \in Seq(Jobs(Made)) /\ left # <<>>
        /\ \A m \in DOMAIN left : m + 1 \in DOMAIN todo /\ left[m] = todo[m + 1]
    BY <1>3, <1>8, TodoTail
  <2> HIDE DEF left
  <2>2. /\ f \in Frames(Made) /\ f.runs = "library" /\ f.todo = left
    BY <2>1, NewFrames DEF Library
  <2>3. TodoFits(left)
    <3>1. CASE \A m \in DOMAIN todo : ~IsUserAdd(todo[m])
      BY <2>1, <3>1 DEF TodoFits
    <3>2. CASE \E d \in Deferreds, g \in Fn, a \in Actions :
                 todo = <<Adds(d, a, User(g))>>
      BY <1>8, <3>2
    <3>3. CASE \E d \in Deferreds, g \in Fn :
                 todo = <<Adds(d, "resolve", User(g)), Adds(d, "reject", User(g))>>
      <4>1. PICK d \in Deferreds, g \in Fn :
                 todo = <<Adds(d, "resolve", User(g)), Adds(d, "reject", User(g))>>
        BY <3>3
      <4>2. left = <<Adds(d, "reject", User(g))>>
        BY <4>1 DEF left
      <4> QED  BY <4>2 DEF TodoFits, Actions
    <3> QED  BY <1>2, <3>1, <3>2, <3>3 DEF TodoFits
  <2>4. rest = <<f>> \o Below
    BY <1>6, <1>8 DEF left
  <2> HIDE DEF f
  <2>5. /\ Stack(Made, rest) /\ rest # <<>> /\ Head(rest) = f
        /\ Tail(rest) = Below
        /\ \A e, b : Loops(rest, e, b) <=> IsLoop(f, e, b) \/ Loops(Below, e, b)
        /\ \A e, b : Pending(rest, e, b) <=> HasAdd(f, e, b) \/ Pending(Below, e, b)
    <3>1. /\ f.runs = "loop" => ~Loops(Below, f.d, f.a)
          /\ f.runs = "library" => TodoFits(f.todo)
      BY <2>2, <2>3
    <3>2. Stack(Made, Below) /\ f \in Frames(Made)
      BY <1>2, <2>2
    <3> QED  BY ONLY <2>4, <3>1, <3>2, Push
  <2>6. \A e, b : ~IsLoop(f, e, b)
    BY <2>2 DEF IsLoop
  <2>7. ASSUME \A m \in DOMAIN todo : ~IsUserAdd(todo[m])
        PROVE  Calm(rest)
    <3>1. \A e, b : ~HasAdd(f, e, b)
      BY <2>1, <2>2, <2>7 DEF HasAdd
    <3> QED  BY <1>4, <2>5, <3>1 DEF Calm
  <2> QED  BY <1>2, <1>3, <1>4, <1>5, <1>8, <2>5, <2>6, <2>7 DEF f, left
<1> QED
  BY <1>7, <1>8

LEMMA LibraryKeeps ==
  ASSUME DInv, CallLibrary
  PROVE  DInv'
<1> DEFINE todo == Top.todo
           rest == RestOf(calls)
           it == Head(todo)
<1>1. /\ calls # <<>> /\ Top.runs = "library" /\ Top = Head(calls)
      /\ Below = Tail(calls) /\ Running("library")
  BY DEF CallLibrary, Running, Top, Below
<1>2. /\ Types /\ UnmadeFits /\ LoopsFit /\ PairsFit /\ OrderFits /\ AddsFit
      /\ Stack(Made, calls)
  BY DEF DInv
<1>3. /\ Stack(Made, rest) /\ Calm(Below) /\ Stack(Made, Below)
      /\ rest # <<>> => Calm(Tail(rest))
      /\ \A e, b : Loops(rest, e, b) <=> Loops(calls, e, b)
      /\ it \in Jobs(Made) /\ todo \in Seq(Jobs(Made)) /\ todo # <<>>
      /\ Len(todo) = 1 => rest = Below
      /\ Len(todo) # 1 =>
           /\ rest # <<>> /\ Head(rest) = Library(Tail(todo))
           /\ \A e, b : Pending(rest, e, b) <=>
                HasAdd(Head(rest), e, b) \/ Pending(Below, e, b)
      /\ (\A m \in DOMAIN todo : ~IsUserAdd(todo[m])) => Calm(rest)
  BY <1>1, <1>2, RestFacts
<1>4. /\ \/ it.call = "add" /\ Add(it.d, it.a, it.f, rest)
         \/ it.call = "fire" /\ Fire(it.d, it.a, it.v, rest)
         \/ /\ it.call = "check"
            /\ \/ Fire(it.d, "resolve", 0, rest)
               \/ calls' = rest /\ UNCHANGED cb
      /\ UNCHANGED <<owned, derived, state, given, called, unused, thrown>>
      /\ notified' = notified
  BY <1>1 DEF CallLibrary, RestOf, Top, Below, history
<1>5. /\ notified' \in Nat /\ Made \subseteq Deferreds /\ Made' = Made
  BY <1>2, <1>4 DEF Types, Made
<1>6. Head(calls).runs # "loop"
  BY <1>1
<1>7. /\ 1 \in DOMAIN todo /\ it = todo[1]
      /\ it.call \in {"add", "fire", "check"} /\ it.d \in Made
      /\ it.call = "add" => it.a \in Actions /\ it.f \in Others(Made)
      /\ it.call = "fire" => it.a \in Actions /\ it.v \in Nat
  BY <1>3, TodoTail, JobKinds
<1>8. TodoFits(todo)
  BY <1>1, <1>2, Pop
<1> HIDE DEF rest, it
<1>9. CASE \A m \in DOMAIN todo : ~IsUserAdd(todo[m])
  <2>1. /\ \A e, b : Now(calls, e, b) = {}
        /\ Calm(rest)
    BY <1>1, <1>2, <1>3, <1>9, NowFacts
  <2>2. \A e \in Made, b \in Settling : cb[e][b].list # Off => Now(rest, e, b) = {}
    BY <1>3, <1>5, <2>1, CalmNow
  <2>3. CASE it.call = "add" /\ Add(it.d, it.a, it.f, rest)
    <3>1. it.f.does # "user"
      BY <1>7, <1>9, <2>3 DEF IsUserAdd
    <3>2. it.d \in Made /\ it.a \in Actions /\ it.f \in Others(Made)
      BY <1>7, <2>3
    <3>3. it.a \in Settling /\ cb[it.d][it.a].list # Off =>
           /\ it.f.does = "user" => Now(calls, it.d, it.a) = {it.f.f}
           /\ it.f.does # "user" => Now(calls, it.d, it.a) = {}
           /\ Now(rest, it.d, it.a) = {}
      BY <2>1, <2>2, <3>1, <3>2
    <3>4. \A e \in Made, b \in Settling :
           (e # it.d \/ b # it.a) /\ cb[e][b].list # Off =>
             Now(rest, e, b) = Now(calls, e, b)
      BY <2>1, <2>2
    <3> QED  BY <1>2, <1>3, <1>4, <1>5, <1>6, <2>1, <2>3, <3>2, <3>3, <3>4, AddStep
  <2>4. CASE it.call = "fire" /\ Fire(it.d, it.a, it.v, rest)
    BY <1>2, <1>3, <1>4, <1>5, <1>6, <1>7, <2>1, <2>4, FireStep
  <2>5. CASE it.call = "check" /\ Fire(it.d, "resolve", 0, rest)
    <3>1. "resolve" \in Actions /\ 0 \in Nat
      BY DEF Actions
    <3> QED  BY <1>2, <1>3, <1>4, <1>5, <1>6, <1>7, <2>1, <2>5, <3>1, FireStep
  <2>6. CASE calls' = rest /\ UNCHANGED cb
    <3>1. AddsFit'
      BY <1>3, <2>6 DEF AddsFit, Calm
    <3>2. \A e \in Made : Steady(Made, e, state[e], cb[e])
      BY <1>2, <1>6, AllSteady
    <3>3. \A e \in Made, b \in Settling :
             cb[e][b].list # Off => Now(calls', e, b) = Now(calls, e, b)
      BY <2>1, <2>2, <2>6
    <3>4. thrown' \in BOOLEAN /\ (thrown => thrown')
      BY <1>2, <1>4 DEF Types
    <3> QED  BY <1>2, <1>3, <1>4, <1>5, <2>6, <3>1, <3>2, <3>3, <3>4, Still
  <2> QED  BY <1>4, <2>3, <2>4, <2>5, <2>6
<1>10. ASSUME NEW d \in Deferreds, NEW f \in Fn, NEW a \in Actions,
              todo = <<Adds(d, a, User(f))>>
       PROVE  DInv'
  <2>1. it = Adds(d, a, User(f)) /\ rest = Below
    <3>1. Len(todo) = 1 /\ todo[1] = Adds(d, a, User(f))
      BY <1>10
    <3> QED  BY <3>1, <1>3, <1>7
  <2>2. /\ it.call = "add" /\ it.d = d /\ it.a = a /\ it.f = User(f)
        /\ it.f.does = "user" /\ it.f.f = f
    BY <2>1, AddsDiffer
  <2>3. Add(d, a, User(f), rest) /\ d \in Made /\ User(f) \in Others(Made)
    BY <1>4, <1>7, <2>2
  <2>4. \A e, b : Now(calls, e, b) = IF e = d /\ b = a THEN {f} ELSE {}
    BY <1>1, <1>10, OneAdd
  <2>5. \A e \in Made, b \in Settling : cb[e][b].list # Off => Now(rest, e, b) = {}
    BY <1>3, <1>5, <2>1, CalmNow
  <2>6. User(f).does = "user" /\ User(f).f = f
    BY <2>2
  <2>7. a \in Settling /\ cb[d][a].list # Off =>
           /\ User(f).does = "user" => Now(calls, d, a) = {User(f).f}
           /\ User(f).does # "user" => Now(calls, d, a) = {}
           /\ Now(rest, d, a) = {}
    BY <2>3, <2>4, <2>5, <2>6
  <2>8. \A e \in Made, b \in Settling :
           (e # d \/ b # a) /\ cb[e][b].list # Off =>
             Now(rest, e, b) = Now(calls, e, b)
    BY <2>4, <2>5
  <2>9. Calm(rest)
    BY <1>3, <2>1
  <2> QED  BY <1>2, <1>3, <1>4, <1>5, <1>6, <2>3, <2>7, <2>8, <2>9, AddStep
<1>11. ASSUME NEW d \in Deferreds, NEW f \in Fn,
              todo = <<Adds(d, "resolve", User(f)), Adds(d, "reject", User(f))>>
       PROVE  DInv'
  <2>1. /\ it = Adds(d, "resolve", User(f)) /\ Len(todo) # 1
        /\ Tail(todo) = <<Adds(d, "reject", User(f))>>
    <3>1. /\ Len(todo) = 2 /\ todo[1] = Adds(d, "resolve", User(f))
          /\ Tail(todo) = <<Adds(d, "reject", User(f))>>
      BY <1>11
    <3> QED  BY <3>1, <1>7
  <2>2. /\ it.call = "add" /\ it.d = d /\ it.a = "resolve" /\ it.f = User(f)
        /\ it.f.does = "user" /\ it.f.f = f
    BY <2>1, AddsDiffer
  <2>3. Add(d, "resolve", User(f), rest) /\ d \in Made /\ User(f) \in Others(Made)
        /\ "resolve" \in Actions /\ "resolve" \in Settling /\ "reject" \in Settling
    BY <1>4, <1>7, <2>2 DEF Settling
  <2>4. \A e, b : Now(calls, e, b) = IF e = d /\ b \in Settling THEN {f} ELSE {}
    BY <1>1, <1>11, TwoAdds
  <2>5. /\ rest # <<>> /\ Head(rest).runs = "library"
        /\ Head(rest).todo = <<Adds(d, "reject", User(f))>>
        /\ \A e, b : Pending(rest, e, b) <=>
                HasAdd(Head(rest), e, b) \/ Pending(Below, e, b)
    <3>1. /\ rest # <<>> /\ Head(rest) = Library(<<Adds(d, "reject", User(f))>>)
          /\ \A e, b : Pending(rest, e, b) <=>
                HasAdd(Head(rest), e, b) \/ Pending(Below, e, b)
      BY <1>3, <2>1
    <3>2. /\ Library(<<Adds(d, "reject", User(f))>>).runs = "library"
          /\ Library(<<Adds(d, "reject", User(f))>>).todo
               = <<Adds(d, "reject", User(f))>>
      BY DEF Library
    <3> QED  BY <3>1, <3>2
  <2>6. /\ \A e, b : HasAdd(Head(rest), e, b) <=> e = d /\ b = "reject"
        /\ \A e, b : Now(rest, e, b) = IF e = d /\ b = "reject" THEN {f} ELSE {}
    <3>1. PICK w \in Actions : w = "reject"
      BY DEF Actions
    <3>2. Head(rest).todo = <<Adds(d, w, User(f))>>
      BY <2>5, <3>1
    <3>3. /\ \A e, b : HasAdd(Head(rest), e, b) <=> e = d /\ b = w
          /\ \A e, b : Now(rest, e, b) = IF e = d /\ b = w THEN {f} ELSE {}
      <4>1. rest # <<>> /\ Head(rest).runs = "library" /\ f \in Fn
        BY <2>5
      <4>2. \A e, b : HasAdd(Head(rest), e, b) <=> e = d /\ b = w
        <5>1. /\ DOMAIN Head(rest).todo = {1}
              /\ Head(rest).todo[1] = Adds(d, w, User(f))
          BY <3>2
        <5> QED  BY <4>1, <5>1, AddsDiffer DEF HasAdd
      <4>3. \A e, b : Now(rest, e, b) = IF e = d /\ b = w THEN {f} ELSE {}
        BY ONLY <4>1, <3>2, OneAdd
      <4> QED  BY ONLY <4>2, <4>3
    <3> QED  BY <3>1, <3>3
  <2>7. User(f).does = "user" /\ User(f).f = f
    BY <2>2
  <2>8. "resolve" \in Settling /\ cb[d]["resolve"].list # Off =>
           /\ User(f).does = "user" => Now(calls, d, "resolve") = {User(f).f}
           /\ User(f).does # "user" => Now(calls, d, "resolve") = {}
           /\ Now(rest, d, "resolve") = {}
    BY <2>3, <2>4, <2>6, <2>7
  <2>9. \A e \in Made, b \in Settling :
           (e # d \/ b # "resolve") /\ cb[e][b].list # Off =>
             Now(rest, e, b) = Now(calls, e, b)
    <3>1. \A b \in Settling : b = "resolve" \/ b = "reject"
      BY DEF Settling
    <3> QED  BY <2>4, <2>6, <3>1
  <2>10. CallsAtOnce(cb[d]["resolve"]) => Calm(rest)
    <3> SUFFICES ASSUME CallsAtOnce(cb[d]["resolve"])
                 PROVE  Calm(rest)
      OBVIOUS
    <3>1. Steady(Made, d, state[d], cb[d])
      BY <1>2, <1>6, <2>3, AllSteady
    <3>2. Opposite("resolve") = "reject"
      BY DEF Opposite
    <3>3. cb[d]["reject"].list = Off
      BY <2>3, <3>1, <3>2, SteadyKinds DEF CallsAtOnce, Fresh, Disused
    <3> QED  BY <1>3, <2>5, <2>6, <3>3 DEF Calm
  <2> QED  BY <1>2, <1>3, <1>4, <1>5, <1>6, <2>3, <2>8, <2>9, <2>10, AddStep
<1> QED
  BY <1>8, <1>9, <1>10, <1>11 DEF TodoFits

-----------------------------------------------------------------------------
(* User code.                                                              *)
LEMMA UserCodeFacts ==
  ASSUME DInv, UserCode
  PROVE  /\ Calm(calls) /\ \A e, b : Now(calls, e, b) = {}
         /\ calls = <<>> \/ Head(calls).runs # "loop"
         /\ \A e \in Made : Steady(Made, e, state[e], cb[e])
<1>1. calls = <<>> \/ Head(calls).runs = "body"
  BY DEF UserCode, Running, Top
<1>2. Stack(Made, calls) /\ AddsFit /\ PairsFit
  BY DEF DInv
<1>3. Calm(calls)
  BY <1>1, <1>2, CalmStack
<1>4. \A e, b : Now(calls, e, b) = {}
  BY <1>1, <1>2, NowFacts
<1>5. calls = <<>> \/ Head(calls).runs # "loop"
  BY <1>1
<1> QED
  BY <1>2, <1>3, <1>4, <1>5, AllSteady

(* A frame that is no loop and adds no function of the user.               *)
Quiet(f) ==
  /\ f.runs # "loop"
  /\ f.runs = "library" => \A m \in DOMAIN f.todo : ~IsUserAdd(f.todo[m])

LEMMA PushQuiet ==
  ASSUME NEW M, NEW s, Stack(M, s), Calm(s),
         NEW f \in Frames(M), Quiet(f), NEW t, t = <<f>> \o s
  PROVE  /\ Stack(M, t) /\ t # <<>> /\ Tail(t) = s /\ Calm(Tail(t)) /\ Calm(t)
         /\ \A e, b : Loops(t, e, b) <=> Loops(s, e, b)
         /\ \A e, b : Now(t, e, b) = {}
<1>1. /\ f.runs = "loop" => ~Loops(s, f.d, f.a)
      /\ f.runs = "library" => TodoFits(f.todo)
  BY DEF Quiet, TodoFits
<1>2. /\ Stack(M, t) /\ t # <<>> /\ Head(t) = f /\ Tail(t) = s
      /\ \A d, a : Loops(t, d, a) <=> IsLoop(f, d, a) \/ Loops(s, d, a)
      /\ \A d, a : Pending(t, d, a) <=> HasAdd(f, d, a) \/ Pending(s, d, a)
  BY <1>1, Push
<1>3. \A e, b : ~IsLoop(f, e, b) /\ ~HasAdd(f, e, b)
  BY DEF Quiet, IsLoop, HasAdd
<1>4. \A e, b : Now(t, e, b) = {}
  BY <1>2, NowFacts DEF Quiet
<1>5. Calm(t)
  BY <1>2, <1>3 DEF Calm
<1> QED
  BY <1>2, <1>3, <1>4, <1>5

(* The library of three calls to add, or one to fire.                      *)
LEMMA QuietLibrary ==
  ASSUME NEW M, NEW todo \in Seq(Jobs(M)), todo # <<>>,
         \A m \in DOMAIN todo : todo[m].call = "add" => todo[m].f.does # "user"
  PROVE  Library(todo) \in Frames(M) /\ Quiet(Library(todo))
<1>1. Library(todo).runs = "library" /\ Library(todo).todo = todo
  BY DEF Library
<1> QED
  BY <1>1, NewFrames DEF Quiet, IsUserAdd

LEMMA QuietFires ==
  ASSUME NEW M, NEW d \in M, NEW a \in Actions, NEW v \in Nat
  PROVE  /\ Library(<<Fires(d, a, v)>>) \in Frames(M)
         /\ Quiet(Library(<<Fires(d, a, v)>>))
<1> DEFINE todo == <<Fires(d, a, v)>>
<1>1. Fires(d, a, v) \in Jobs(M) /\ Fires(d, a, v).call = "fire"
  BY NewJobs DEF Fires
<1>2. /\ todo \in Seq(Jobs(M)) /\ todo # <<>>
      /\ \A m \in DOMAIN todo : todo[m] = Fires(d, a, v)
  BY <1>1
<1> HIDE DEF todo
<1>3. Library(todo) \in Frames(M) /\ Quiet(Library(todo))
  BY <1>1, <1>2, QuietLibrary
<1> QED
  BY <1>3 DEF todo

LEMMA QuietAdds ==
  ASSUME NEW M, NEW d \in M,
         NEW x \in Others(M), NEW y \in Others(M), NEW z \in Others(M),
         x.does # "user", y.does # "user", z.does # "user"
  PROVE  LET todo == <<Adds(d, "resolve", x), Adds(d, "reject", y),
                       Adds(d, "notify", z)>>
         IN  Library(todo) \in Frames(M) /\ Quiet(Library(todo))
<1> DEFINE todo == <<Adds(d, "resolve", x), Adds(d, "reject", y),
                     Adds(d, "notify", z)>>
<1>0. "resolve" \in Actions /\ "reject" \in Actions /\ "notify" \in Actions
  BY DEF Actions
<1>1. /\ Adds(d, "resolve", x) \in Jobs(M) /\ Adds(d, "reject", y) \in Jobs(M)
      /\ Adds(d, "notify", z) \in Jobs(M)
  BY <1>0, NewJobs
<1>2. todo \in Seq(Jobs(M)) /\ todo # <<>>
  BY <1>1
<1>3. \A m \in DOMAIN todo : m = 1 \/ m = 2 \/ m = 3
  OBVIOUS
<1>4. /\ todo[1].f = x /\ todo[2].f = y /\ todo[3].f = z
  BY DEF Adds
<1>5. \A m \in DOMAIN todo : todo[m].f.does # "user"
  BY <1>3, <1>4
<1> HIDE DEF todo
<1>6. Library(todo) \in Frames(M) /\ Quiet(Library(todo))
  BY <1>2, <1>5, QuietLibrary
<1> QED
  BY <1>6 DEF todo

(* A body ends, and what it leaves to be done is quiet.                    *)
LEMMA Leaves ==
  ASSUME DInv, Running("body"),
         \/ calls' = Below
         \/ \E f \in Frames(Made) : Quiet(f) /\ calls' = <<f>> \o Below,
         UNCHANGED <<owned, derived, state, cb, called, given, unused,
                     notified, thrown>>
  PROVE  DInv'
<1>1. /\ Types /\ UnmadeFits /\ LoopsFit /\ PairsFit /\ OrderFits /\ AddsFit
      /\ Stack(Made, calls) /\ Made \subseteq Deferreds
  BY DEF DInv, Types, Made
<1>2. /\ \A e, b : Now(calls, e, b) = {}
      /\ \A e \in Made : Steady(Made, e, state[e], cb[e])
  BY UserCodeFacts DEF UserCode
<1>3. calls # <<>> /\ Head(calls).runs = "body" /\ Below = Tail(calls)
  BY DEF Running, Top, Below
<1>4. /\ Stack(Made, Below) /\ Calm(Below)
      /\ \A e, b : Loops(calls, e, b) <=> Loops(Below, e, b)
  <2>1. Stack(Made, Below) /\ Calm(Below)
    BY <1>1, <1>3, CalmStack
  <2>2. \A e, b : ~IsLoop(Head(calls), e, b)
    BY <1>3 DEF IsLoop
  <2> QED  BY <2>1, <2>2, <1>1, <1>3, Pop
<1>5. /\ Stack(Made, calls') /\ (calls' # <<>> => Calm(Tail(calls')))
      /\ \A e, b : Loops(calls', e, b) <=> Loops(Below, e, b)
      /\ \A e \in Made, b \in Settling : cb[e][b].list # Off => Now(calls', e, b) = {}
  <2>1. CASE calls' = Below
    <3>1. Below # <<>> => Calm(Tail(Below))
      BY <1>4, CalmTail
    <3>2. \A e \in Made, b \in Settling : cb[e][b].list # Off => Now(Below, e, b) = {}
      BY <1>1, <1>4, CalmNow
    <3> QED  BY <2>1, <3>1, <3>2, <1>4
  <2>2. CASE \E f \in Frames(Made) : Quiet(f) /\ calls' = <<f>> \o Below
    <3>1. PICK f \in Frames(Made) : Quiet(f) /\ calls' = <<f>> \o Below
      BY <2>2
    <3> QED  BY <3>1, <1>4, PushQuiet
  <2> QED  BY <2>1, <2>2
<1>6. AddsFit'
  BY <1>5 DEF AddsFit, Calm
<1>7. notified' \in Nat /\ thrown' \in BOOLEAN /\ (thrown => thrown')
  BY <1>1 DEF Types
<1>8. \A e \in Made, b \in Settling :
           cb[e][b].list # Off => Now(calls', e, b) = Now(calls, e, b)
  BY <1>2, <1>5
<1>9. \A e \in Deferreds, b \in Actions : Loops(calls', e, b) <=> Loops(calls, e, b)
  BY <1>4, <1>5
<1> QED
  BY <1>1, <1>2, <1>5, <1>6, <1>7, <1>8, <1>9, Still

LEMMA ReturnKeeps ==
  ASSUME DInv, Return
  PROVE  DInv'
<1>1. /\ Running("body") /\ calls' = Below
      /\ UNCHANGED <<owned, derived, state, cb, called, given, unused,
                     notified, thrown>>
  BY DEF Return, lists, history
<1> QED
  BY <1>1, Leaves

LEMMA TopBody ==
  ASSUME DInv, Running("body"), Top.d # Off
  PROVE  Top.d \in Made /\ Top.a \in Actions
<1>1. Stack(Made, calls) /\ calls # <<>> /\ Top = Head(calls) /\ Top.runs = "body"
  BY DEF DInv, Running, Top
<1>2. Top \in Frames(Made)
  BY <1>1, Pop
<1> QED
  BY <1>1, <1>2, FrameKinds

LEMMA ReturnValueKeeps ==
  ASSUME DInv, ReturnValue
  PROVE  DInv'
<1>1. /\ Running("body") /\ Top.d # Off
      /\ calls' = <<Library(<<Fires(Top.d, Top.a, 0)>>)>> \o Below
      /\ UNCHANGED <<owned, derived, state, cb, called, given, unused,
                     notified, thrown>>
  BY DEF ReturnValue, lists, history
<1>2. Top.d \in Made /\ Top.a \in Actions /\ 0 \in Nat
  BY <1>1, TopBody
<1>3. PICK f : f = Library(<<Fires(Top.d, Top.a, 0)>>)
  OBVIOUS
<1>4. f \in Frames(Made) /\ Quiet(f)
  BY <1>2, <1>3, QuietFires
<1> QED
  BY <1>1, <1>3, <1>4, Leaves

LEMMA ReturnPromiseKeeps ==
  ASSUME DInv, NEW p \in Deferreds, ReturnPromise(p)
  PROVE  DInv'
<1>1. /\ Running("body") /\ Top.d # Off /\ p \in Made
      /\ calls' = <<Library(<<Adds(p, "resolve", Forward(Top.d, "resolve")),
                              Adds(p, "reject", Forward(Top.d, "reject")),
                              Adds(p, "notify", Forward(Top.d, "notify"))>>)>>
                  \o Below
      /\ UNCHANGED <<owned, derived, state, cb, called, given, unused,
                     notified, thrown>>
  BY DEF ReturnPromise, lists
<1>2. Top.d \in Made
  BY <1>1, TopBody
<1>3. PICK f : f = Library(<<Adds(p, "resolve", Forward(Top.d, "resolve")),
                             Adds(p, "reject", Forward(Top.d, "reject")),
                             Adds(p, "notify", Forward(Top.d, "notify"))>>)
  OBVIOUS
<1>4. f \in Frames(Made) /\ Quiet(f)
  <2>1. \A b \in Actions : /\ Forward(Top.d, b) \in Others(Made)
                           /\ Forward(Top.d, b).does # "user"
    BY <1>2, ItemKinds DEF Forward
  <2>2. "resolve" \in Actions /\ "reject" \in Actions /\ "notify" \in Actions
    BY DEF Actions
  <2> QED  BY <1>1, <1>3, <2>1, <2>2, QuietAdds
<1> QED
  BY <1>1, <1>3, <1>4, Leaves

LEMMA ThrowKeeps ==
  ASSUME DInv, Throw
  PROVE  DInv'
<1>1. /\ Types /\ UnmadeFits /\ LoopsFit /\ PairsFit /\ OrderFits
      /\ Running("body")
      /\ calls' = <<>> /\ thrown' = TRUE
      /\ UNCHANGED <<owned, derived, state, cb, called, given, unused, notified>>
  BY DEF Throw, DInv, lists
<1>2. /\ \A e, b : Now(calls, e, b) = {}
      /\ \A e \in Made : Steady(Made, e, state[e], cb[e])
  BY <1>1, UserCodeFacts DEF UserCode
<1>3. /\ Stack(Made, calls') /\ AddsFit'
      /\ \A d, a : ~Loops(calls', d, a) /\ Now(calls', d, a) = {}
  BY <1>1, EmptyStack DEF AddsFit
<1>4. notified' \in Nat
  BY <1>1 DEF Types
<1> QED
  BY <1>1, <1>2, <1>3, <1>4, Still

LEMMA ActKeeps ==
  ASSUME DInv, NEW d \in Deferreds, NEW a \in Actions, Act(d, a)
  PROVE  DInv'
<1> DEFINE w == IF a = "notify" THEN notified + 1 ELSE 0
<1>1. /\ Types /\ UnmadeFits /\ LoopsFit /\ PairsFit /\ OrderFits /\ AddsFit
      /\ Stack(Made, calls) /\ Made \subseteq Deferreds
  BY DEF DInv, Types, Made
<1>2. /\ UserCode /\ d \in Made /\ Fire(d, a, w, calls)
      /\ notified' = IF a = "notify" THEN notified + 1 ELSE notified
      /\ UNCHANGED <<owned, derived, state, given, called, unused, thrown>>
  BY DEF Act, Made, history
<1>3. /\ Calm(calls) /\ \A e, b : Now(calls, e, b) = {}
      /\ calls = <<>> \/ Head(calls).runs # "loop"
  BY <1>2, UserCodeFacts
<1>4. w \in Nat /\ notified' \in Nat
  BY <1>1, <1>2 DEF Types
<1> HIDE DEF w
<1> QED
  BY <1>1, <1>2, <1>3, <1>4, FireStep

LEMMA OnceGive ==
  ASSUME NEW g \in Seq(Fn), NEW un, Once(g, un), NEW f \in un
  PROVE  Once(Append(g, f), un \ {f})
<1> DEFINE t == Append(g, f)
<1>1. /\ Len(g) \in Nat /\ DOMAIN g = 1 .. Len(g) /\ DOMAIN t = 1 .. Len(g) + 1
      /\ \A i \in 1 .. Len(g) : t[i] = g[i]
      /\ t[Len(g) + 1] = f
  OBVIOUS
<1> HIDE DEF t
<1>2. \A i \in DOMAIN t : i \in DOMAIN g \/ i = Len(g) + 1
  BY <1>1
<1>3. \A i \in DOMAIN g : t[i] = g[i] /\ g[i] \notin un /\ g[i] # f
  BY <1>1 DEF Once
<1>4. \A i, j \in DOMAIN g : g[i] = g[j] => i = j
  BY DEF Once
<1>5. Once(t, un \ {f})
  BY <1>1, <1>2, <1>3, <1>4 DEF Once
<1> QED
  BY <1>5 DEF t

(* A function that was not used is given to some lists of a deferred, and  *)
(* the library is to add it to them.                                       *)
LEMMA Give ==
  ASSUME DInv, UserCode, NEW d \in Made, NEW as \in SUBSET Actions,
         NEW f \in Fn, f \in unused,
         NEW x \in Frames(Made), x.runs = "library", TodoFits(x.todo),
         calls' = <<x>> \o calls,
         \A e, b : Now(calls', e, b) = IF e = d /\ b \in as THEN {f} ELSE {},
         unused' = unused \ {f},
         given' = [given EXCEPT ![d] =
                    [a \in Actions |-> IF a \in as THEN Append(@[a], f) ELSE @[a]]],
         UNCHANGED <<owned, derived, state, cb, called, notified, thrown>>
  PROVE  DInv'
<1>1. /\ Types /\ UnmadeFits /\ LoopsFit /\ PairsFit /\ OrderFits /\ AddsFit
      /\ Stack(Made, calls) /\ Made \subseteq Deferreds /\ d \in Deferreds
      /\ Made' = Made
  BY DEF DInv, Types, Made
<1>2. /\ Calm(calls) /\ \A e, b : Now(calls, e, b) = {}
      /\ \A e \in Made : Steady(Made, e, state[e], cb[e])
  BY UserCodeFacts
<1>3. /\ Stack(Made, calls') /\ calls' # <<>> /\ Tail(calls') = calls
      /\ \A e, b : Loops(calls', e, b) <=> IsLoop(x, e, b) \/ Loops(calls, e, b)
  <2>1. /\ x.runs = "loop" => ~Loops(calls, x.d, x.a)
        /\ x.runs = "library" => TodoFits(x.todo)
    OBVIOUS
  <2> QED  BY <1>1, <2>1, Push
<1>4. \A e, b : Loops(calls', e, b) <=> Loops(calls, e, b)
  BY <1>3 DEF IsLoop
<1>5. given \in [Deferreds -> [Actions -> Seq(Fn)]]
  BY <1>1 DEF Types
<1>6. /\ \A b \in Actions : given'[d][b] = IF b \in as THEN Append(given[d][b], f)
                                           ELSE given[d][b]
      /\ \A e \in Deferreds : e # d => given'[e] = given[e]
  BY <1>1, <1>5
<1>7. given' \in [Deferreds -> [Actions -> Seq(Fn)]]
  <2>1. \A b \in Actions : given[d][b] \in Seq(Fn) /\ Append(given[d][b], f) \in Seq(Fn)
    BY <1>1, <1>5
  <2>2. [b \in Actions |-> IF b \in as THEN Append(given[d][b], f) ELSE given[d][b]]
          \in [Actions -> Seq(Fn)]
    BY <2>1
  <2> QED  BY <1>1, <1>5, <2>2
<1>8. Types'
  BY <1>1, <1>7 DEF Types
<1>9. UnmadeFits'
  <2> SUFFICES ASSUME NEW e \in Deferreds \ Made
               PROVE  /\ state[e] = "no" /\ cb[e] = [b \in Actions |-> NewList(TRUE)]
                      /\ \A b \in Actions : given'[e][b] = <<>> /\ called[e][b] = <<>>
    BY <1>1 DEF UnmadeFits
  <2>1. given'[e] = given[e]
    BY <1>6
  <2> QED  BY <2>1, <1>1 DEF UnmadeFits
<1>10. LoopsFit'
  BY <1>1, <1>4 DEF LoopsFit
<1>11. AddsFit'
  BY <1>2, <1>3 DEF AddsFit, Calm
<1>12. PairsFit'
  BY <1>1, <1>2 DEF PairsFit
<1>13. OrderFits'
  <2> SUFFICES ASSUME NEW e \in Deferreds, NEW b \in Settling
               PROVE  /\ Once(given'[e][b], unused')
                      /\ e \in Made /\ cb[e][b].list # Off =>
                           Ordered(cb[e][b], given'[e][b], called[e][b],
                                   Now(calls', e, b))
    BY <1>1 DEF OrderFits
  <2>1. /\ b \in Actions /\ given[e][b] \in Seq(Fn)
        /\ called[e][b] \in Seq(Fn \cup Fn \X Nat)
    BY <1>1, ActionFacts DEF Types
  <2>2. /\ Once(given[e][b], unused)
        /\ e \in Made /\ cb[e][b].list # Off =>
             Ordered(cb[e][b], given[e][b], called[e][b], {})
    BY <1>1, <1>2 DEF OrderFits
  <2>3. CASE e = d /\ b \in as
    <3>1. given'[e][b] = Append(given[e][b], f) /\ Now(calls', e, b) = {f}
      BY <1>6, <2>1, <2>3
    <3> DEFINE g == given[e][b]
               h == called[e][b]
               c == cb[e][b]
    <3>4. g \in Seq(Fn) /\ Once(g, unused) /\ h \in Seq(Fn \cup Fn \X Nat)
      BY <2>1, <2>2
    <3>5. e \in Made /\ c.list # Off => Ordered(c, g, h, {})
      BY <2>2
    <3> HIDE DEF g, h, c
    <3>6. Once(Append(g, f), unused \ {f})
      BY <3>4, OnceGive
    <3>7. ASSUME e \in Made, c.list # Off
          PROVE  Ordered(c, Append(g, f), h, {f})
      BY <3>4, <3>5, <3>7, OrderedGive
    <3>2. Once(given'[e][b], unused')
      BY <3>1, <3>6 DEF g
    <3>3. ASSUME e \in Made, cb[e][b].list # Off
          PROVE  Ordered(cb[e][b], given'[e][b], called[e][b], {f})
      BY <3>1, <3>3, <3>7 DEF g, h, c
    <3> QED  BY <3>1, <3>2, <3>3
  <2>4. CASE ~(e = d /\ b \in as)
    <3>1. given'[e][b] = given[e][b] /\ Now(calls', e, b) = {}
      BY <1>6, <2>1, <2>4
    <3>2. Once(given[e][b], unused')
      BY <2>2 DEF Once
    <3> QED  BY <2>2, <3>1, <3>2
  <2> QED  BY <2>3, <2>4
<1> QED
  BY <1>1, <1>3, <1>8, <1>9, <1>10, <1>11, <1>12, <1>13 DEF DInv

LEMMA AddUserKeeps ==
  ASSUME DInv, NEW d \in Deferreds, NEW f \in Fn,
         NEW as, as = Settling \/ \E a \in Actions : as = {a},
         AddUser(d, as, f)
  PROVE  DInv'
<1>1. /\ UserCode /\ d \in Made /\ f \in unused
      /\ unused' = unused \ {f}
      /\ given' = [given EXCEPT ![d] =
                    [a \in Actions |-> IF a \in as THEN Append(@[a], f) ELSE @[a]]]
      /\ UNCHANGED <<owned, derived, state, cb, called, notified, thrown>>
  BY DEF AddUser, MayDo, lists
<1>2. User(f) \in Others(Made) /\ as \in SUBSET Actions
  BY ItemKinds, ActionFacts
<1>3. CASE as = Settling
  <2> DEFINE todo == <<Adds(d, "resolve", User(f)), Adds(d, "reject", User(f))>>
             x == Library(todo)
  <2>1. calls' = <<x>> \o calls
    BY <1>3 DEF AddUser
  <2>2. Adds(d, "resolve", User(f)) \in Jobs(Made) /\ Adds(d, "reject", User(f)) \in Jobs(Made)
    BY <1>1, <1>2, NewJobs DEF Actions
  <2>3. todo \in Seq(Jobs(Made)) /\ todo # <<>>
    BY <2>2
  <2>4. TodoFits(todo)
    BY DEF TodoFits
  <2>5. x \in Frames(Made) /\ x.runs = "library" /\ x.todo = todo
    BY <2>3, NewFrames DEF Library
  <2> HIDE DEF x
  <2>6. calls' # <<>> /\ Head(calls') = x
    BY <2>1, <2>5, PushPlaces DEF DInv, Stack
  <2>7. \A e, b : Now(calls', e, b) = IF e = d /\ b \in as THEN {f} ELSE {}
    BY <1>3, <2>5, <2>6, TwoAdds
  <2>8. TodoFits(x.todo)
    BY <2>4, <2>5
  <2> HIDE DEF todo
  <2> QED  BY <1>1, <1>2, <2>1, <2>5, <2>7, <2>8, Give
<1>4. CASE \E a \in Actions : as = {a}
  <2>1. PICK a \in Actions : as = {a}
    BY <1>4
  <2> DEFINE todo == <<Adds(d, a, User(f))>>
             x == Library(todo)
  <2>2. as # Settling /\ (CHOOSE b \in as : TRUE) = a
    <3>1. "resolve" \in Settling /\ "reject" \in Settling /\ "resolve" # "reject"
      BY DEF Settling
    <3>2. as # Settling
      BY <2>1, <3>1
    <3>3. (CHOOSE b \in as : TRUE) \in as
      BY <2>1
    <3> QED  BY <2>1, <3>2, <3>3
  <2>3. calls' = <<x>> \o calls
    BY <2>2 DEF AddUser
  <2>4. Adds(d, a, User(f)) \in Jobs(Made)
    BY <1>1, <1>2, NewJobs
  <2>5. todo \in Seq(Jobs(Made)) /\ todo # <<>>
    BY <2>4
  <2>6. TodoFits(todo)
    BY DEF TodoFits
  <2>7. x \in Frames(Made) /\ x.runs = "library" /\ x.todo = todo
    BY <2>5, NewFrames DEF Library
  <2> HIDE DEF x
  <2>8. calls' # <<>> /\ Head(calls') = x
    BY <2>3, <2>7, PushPlaces DEF DInv, Stack
  <2>9. \A e, b : Now(calls', e, b) = IF e = d /\ b \in as THEN {f} ELSE {}
    <3>1. \A e, b : Now(calls', e, b) = IF e = d /\ b = a THEN {f} ELSE {}
      BY <2>7, <2>8, OneAdd
    <3> QED  BY <2>1, <3>1
  <2>10. TodoFits(x.todo)
    BY <2>6, <2>7
  <2> HIDE DEF todo
  <2> QED  BY <1>1, <1>2, <2>3, <2>7, <2>9, <2>10, Give
<1> QED
  BY <1>3, <1>4

-----------------------------------------------------------------------------
(* A deferred is made.                                                     *)
LEMMA NewListsFacts ==
  ASSUME NEW M, M \subseteq Deferreds, NEW n \in M
  PROVE  /\ NewLists(n) \in [Actions -> Lists(M)]
         /\ \A a \in Actions : /\ IndexFits(NewLists(n)[a])
                               /\ ~NewLists(n)[a].firing
         /\ \A a \in Settling : Fresh(M, NewLists(n)[a], n, a)
         /\ NotifyFits(M, NewLists(n)["notify"])
         /\ NewLists(n)["notify"].list = <<>>
         /\ \A a \in Settling : \A k : ~Ahead(NewLists(n)[a], k)
         /\ \A a \in Settling : \A k \in DOMAIN NewLists(n)[a].list :
              NewLists(n)[a].list[k] \in Firsts(M)
<1>1. ASSUME NEW a \in Settling
      PROVE  /\ NewLists(n)[a] \in Lists(M) /\ IndexFits(NewLists(n)[a])
             /\ Fresh(M, NewLists(n)[a], n, a) /\ ~NewLists(n)[a].firing
             /\ \A k : ~Ahead(NewLists(n)[a], k)
             /\ \A k \in DOMAIN NewLists(n)[a].list :
                  NewLists(n)[a].list[k] \in Firsts(M)
  <2> DEFINE s == Settle(n, a)
             t == Disable(n, Opposite(a))
             u == Lock(n, "notify")
             c0 == NewList(TRUE)
  <2> PICK c1 : c1 = Added(c0, s)
    OBVIOUS
  <2> PICK c2 : c2 = Added(c1, t)
    OBVIOUS
  <2> PICK c3 : c3 = Added(c2, u)
    OBVIOUS
  <2>1. NewLists(n)[a] = c3
    BY ActionFacts DEF NewLists
  <2>2. s \in Firsts(M) /\ t \in Firsts(M) /\ u \in Firsts(M)
    BY ItemKinds, ActionFacts
  <2>3. /\ c0 \in Lists(M) /\ IndexFits(c0) /\ c0.list = <<>>
        /\ c0.firing = FALSE /\ c0.fired = FALSE /\ c0.memory = Off
        /\ c0.waiting = Off
    BY NewListFacts
  <2>4. <<>> # Off
    <3>1. <<>> \in Seq(Firsts(Deferreds) \cup Others(Deferreds))
      OBVIOUS
    <3> QED  BY <3>1, OffFacts
  <2> HIDE DEF s, t, u, c0
  <2>5. /\ c1 \in Lists(M) /\ IndexFits(c1) /\ c1.firing = c0.firing
        /\ c1.fired = c0.fired /\ c1.memory = c0.memory
        /\ c1.waiting = c0.waiting /\ c1.list = Append(<<>>, s)
        /\ c1.list # Off
    <3>1. ~CallsAtOnce(c0)
      BY <2>3 DEF CallsAtOnce
    <3>2. s \in Firsts(M) \cup Others(M) /\ c0.list # Off
      BY <2>2, <2>3, <2>4
    <3>3. c0 \in Lists(M) /\ IndexFits(c0) /\ c0.list # Off
      BY <2>3, <2>4, <2>3
    <3>4. IsAdded(M, c0, s, c1)
      BY <3>1, <3>2, <3>3, AddedLater
    <3> QED  BY <2>3, <2>3, <3>4 DEF IsAdded
  <2>6. /\ c2 \in Lists(M) /\ IndexFits(c2) /\ c2.firing = c0.firing
        /\ c2.fired = c0.fired /\ c2.memory = c0.memory
        /\ c2.waiting = c0.waiting /\ c2.list = Append(c1.list, t)
        /\ c2.list # Off
    <3>1. ~CallsAtOnce(c1)
      BY <2>3, <2>5 DEF CallsAtOnce
    <3>2. t \in Firsts(M) \cup Others(M)
      BY <2>2
    <3>3. c1 \in Lists(M) /\ IndexFits(c1) /\ c1.list # Off
      BY <2>3, <2>4, <2>5
    <3>4. IsAdded(M, c1, t, c2)
      BY <3>1, <3>2, <3>3, AddedLater
    <3> QED  BY <2>3, <2>5, <3>4 DEF IsAdded
  <2>7. /\ c3 \in Lists(M) /\ IndexFits(c3) /\ c3.firing = c0.firing
        /\ c3.fired = c0.fired /\ c3.memory = c0.memory
        /\ c3.waiting = c0.waiting /\ c3.list = Append(c2.list, u)
        /\ c3.list # Off
        /\ c3.list \in Seq(Firsts(M) \cup Others(M))
    <3>1. ~CallsAtOnce(c2)
      BY <2>3, <2>6 DEF CallsAtOnce
    <3>2. u \in Firsts(M) \cup Others(M)
      BY <2>2
    <3>3. c2 \in Lists(M) /\ IndexFits(c2) /\ c2.list # Off
      BY <2>3, <2>4, <2>6
    <3>4. IsAdded(M, c2, u, c3)
      BY <3>1, <3>2, <3>3, AddedLater
    <3> QED  BY <2>3, <2>6, <3>4 DEF IsAdded
  <2>8. /\ Len(c1.list) = 1 /\ c1.list[1] = s
        /\ c1.list \in Seq(Firsts(M) \cup Others(M))
    <3>1. Append(<<>>, s) = <<s>>
      OBVIOUS
    <3>2. Len(<<s>>) = 1 /\ <<s>>[1] = s
      OBVIOUS
    <3>3. <<s>> \in Seq(Firsts(M) \cup Others(M))
      BY <2>2
    <3> QED  BY <2>5, <3>1, <3>2, <3>3
  <2>9. /\ Len(c3.list) = 3 /\ c3.list[1] = s /\ c3.list[2] = t
        /\ c3.list[3] = u /\ DOMAIN c3.list = 1 .. 3
    <3>1. /\ Len(c2.list) = 2 /\ c2.list[1] = s /\ c2.list[2] = t
          /\ c2.list \in Seq(Firsts(M) \cup Others(M))
      BY <2>2, <2>6, <2>8
    <3> QED  BY <2>2, <2>7, <3>1
  <2>10. Starts(M, c3, n, a)
    BY <2>3, <2>7, <2>9 DEF Starts, s, t, u
  <2>11. Fresh(M, c3, n, a)
    BY <2>3, <2>7, <2>10 DEF Fresh
  <2>12. \A k \in DOMAIN c3.list : c3.list[k] \in Firsts(M)
    <3>1. \A k \in 1 .. 3 : k = 1 \/ k = 2 \/ k = 3
      OBVIOUS
    <3> QED  BY <2>2, <2>9, <3>1
  <2>13. \A k : ~Ahead(c3, k)
    <3>1. \A k \in DOMAIN c3.list : c3.list[k].does # "user"
      BY <2>12, FirstKinds
    <3> QED  BY <3>1 DEF Ahead
  <2> QED  BY <2>1, <2>3, <2>7, <2>11, <2>12, <2>13
<1>2. /\ NewLists(n)["notify"] \in Lists(M) /\ IndexFits(NewLists(n)["notify"])
      /\ ~NewLists(n)["notify"].firing
      /\ NewLists(n)["notify"].list = <<>>
  <2>1. NewLists(n)["notify"] = NewList(FALSE)
    BY ActionFacts DEF NewLists
  <2> QED  BY <2>1, NewListFacts
<1>3. NotifyFits(M, NewLists(n)["notify"])
  BY <1>2 DEF NotifyFits
<1>4. \A a \in Actions : a \in Settling \/ a = "notify"
  BY ActionFacts
<1>5. \A a \in Actions : NewLists(n)[a] \in Lists(M)
  BY <1>1, <1>2, <1>4
<1>6. NewLists(n) \in [Actions -> Lists(M)]
  <2>1. NewLists(n) = [a \in Actions |-> NewLists(n)[a]]
    BY DEF NewLists
  <2> QED  BY <1>5, <2>1
<1> QED
  BY <1>1, <1>2, <1>3, <1>4, <1>6

LEMMA NewDeferred ==
  ASSUME DInv, UserCode, NEW n \in Deferreds, n \notin Made,
         owned' \subseteq Deferreds, derived' \subseteq Deferreds,
         Made' = Made \cup {n}, cb' = [cb EXCEPT ![n] = NewLists(n)],
         unused' \subseteq unused,
         \/ calls' = calls
         \/ \E f \in Frames(Made \cup {n}) : Quiet(f) /\ calls' = <<f>> \o calls,
         UNCHANGED <<state, notified, given, called, thrown>>
  PROVE  DInv'
<1> DEFINE N == Made \cup {n}
<1>1. /\ Types /\ UnmadeFits /\ LoopsFit /\ PairsFit /\ OrderFits /\ AddsFit
      /\ Stack(Made, calls) /\ Made \subseteq Deferreds /\ Made' = N
      /\ Made \subseteq N /\ N \subseteq Deferreds /\ n \in N
  BY DEF DInv, Types, Made
<1> HIDE DEF N
<1>2. /\ Calm(calls) /\ \A e, b : Now(calls, e, b) = {}
      /\ \A e \in Made : Steady(Made, e, state[e], cb[e])
  BY UserCodeFacts
<1>3. /\ NewLists(n) \in [Actions -> Lists(N)]
      /\ \A a \in Actions : /\ IndexFits(NewLists(n)[a])
                            /\ ~NewLists(n)[a].firing
      /\ \A a \in Settling : Fresh(N, NewLists(n)[a], n, a)
      /\ NotifyFits(N, NewLists(n)["notify"])
      /\ \A a \in Settling : \A k : ~Ahead(NewLists(n)[a], k)
  BY <1>1, NewListsFacts
<1>4. cb \in [Deferreds -> [Actions -> Lists(N)]]
  <2>1. Lists(Made) \subseteq Lists(N)
    BY <1>1, ListsGrow
  <2>2. cb \in [Deferreds -> [Actions -> Lists(Made)]]
    BY <1>1 DEF Types
  <2> QED  BY <2>1, <2>2
<1>5. /\ cb' \in [Deferreds -> [Actions -> Lists(N)]] /\ cb'[n] = NewLists(n)
      /\ \A e \in Deferreds : e # n => cb'[e] = cb[e]
  BY <1>3, <1>4
<1>6. /\ state[n] = "no" /\ \A a \in Actions : given[n][a] = <<>> /\ called[n][a] = <<>>
      /\ \A a \in Actions : ~cb[n][a].firing
  <2>1. n \in Deferreds \ Made
    OBVIOUS
  <2>2. cb[n] = [a \in Actions |-> NewList(TRUE)]
    BY <1>1, <2>1 DEF UnmadeFits
  <2>3. NewList(TRUE).firing = FALSE
    BY NewListFacts
  <2> QED  BY <1>1, <2>1, <2>2, <2>3 DEF UnmadeFits
<1>7. Stack(N, calls)
  BY <1>1, StackGrows
<1>8. /\ Stack(N, calls') /\ (calls' # <<>> => Calm(Tail(calls')))
      /\ \A e, b : Loops(calls', e, b) <=> Loops(calls, e, b)
      /\ \A e, b : Now(calls', e, b) = {}
  <2>1. CASE calls' = calls
    <3>1. calls # <<>> => Calm(Tail(calls))
      BY <1>1, CalmStack
    <3> QED  BY <2>1, <3>1, <1>2, <1>7
  <2>2. CASE \E f \in Frames(N) : Quiet(f) /\ calls' = <<f>> \o calls
    <3>1. PICK f \in Frames(N) : Quiet(f) /\ calls' = <<f>> \o calls
      BY <2>2
    <3> QED  BY <3>1, <1>2, <1>7, PushQuiet
  <2> QED  BY <2>1, <2>2 DEF N
<1>9. Types'
  BY <1>1, <1>5 DEF Types
<1>10. UnmadeFits'
  <2> SUFFICES ASSUME NEW e \in Deferreds \ N
               PROVE  /\ state[e] = "no" /\ cb'[e] = [b \in Actions |-> NewList(TRUE)]
                      /\ \A b \in Actions : given[e][b] = <<>> /\ called[e][b] = <<>>
    BY <1>1 DEF UnmadeFits
  <2>1. e \in Deferreds \ Made /\ e # n
    BY DEF N
  <2>2. cb'[e] = cb[e]
    BY <1>5, <2>1
  <2> QED  BY <1>1, <2>1, <2>2 DEF UnmadeFits
<1>11. LoopsFit'
  <2> SUFFICES ASSUME NEW e \in Deferreds, NEW b \in Actions
               PROVE  /\ IndexFits(cb'[e][b])
                      /\ Loops(calls', e, b) => cb'[e][b].firing
                      /\ ~thrown /\ cb'[e][b].firing => Loops(calls', e, b)
    BY DEF LoopsFit
  <2>1. CASE e # n
    BY <2>1, <1>1, <1>5, <1>8 DEF LoopsFit
  <2>2. CASE e = n
    <3>1. ~Loops(calls, n, b)
      BY <1>1, <1>6 DEF LoopsFit
    <3> QED  BY <2>2, <3>1, <1>3, <1>5, <1>8
  <2> QED  BY <2>1, <2>2
<1>12. AddsFit'
  <2> SUFFICES ASSUME calls' # <<>>, NEW e \in Deferreds, NEW b \in Settling,
                      Pending(Tail(calls'), e, b)
               PROVE  cb'[e][b].list = Off
    BY DEF AddsFit
  <2>1. cb[e][b].list = Off
    BY <1>8 DEF Calm
  <2>2. e # n
    <3>1. cb[n] = [a \in Actions |-> NewList(TRUE)]
      BY <1>1 DEF UnmadeFits
    <3>2. cb[n][b].list = <<>>
      BY <3>1, NewListFacts, ActionFacts
    <3>3. <<>> # Off
      <4>1. <<>> \in Seq(Firsts(Deferreds) \cup Others(Deferreds))
        OBVIOUS
      <4> QED  BY <4>1, OffFacts
    <3> QED  BY <2>1, <3>2, <3>3
  <2> QED  BY <1>5, <2>1, <2>2
<1>13. PairsFit'
  <2> SUFFICES ASSUME NEW e \in N
               PROVE  /\ Steady(N, e, state[e], cb'[e])
                      /\ NotifyFits(N, cb'[e]["notify"])
    BY <1>1 DEF PairsFit
  <2>1. CASE e = n
    BY <2>1, <1>3, <1>5, <1>6 DEF Steady
  <2>2. CASE e # n
    <3>1. e \in Made /\ cb'[e] = cb[e]
      BY <2>2, <1>1, <1>5 DEF N
    <3>2. Steady(Made, e, state[e], cb[e]) /\ NotifyFits(Made, cb[e]["notify"])
      BY <3>1, <1>1, <1>2 DEF PairsFit
    <3> QED  BY <3>1, <3>2, <1>1, PairsGrow
  <2> QED  BY <2>1, <2>2
<1>14. OrderFits'
  <2> SUFFICES ASSUME NEW e \in Deferreds, NEW b \in Settling
               PROVE  /\ Once(given[e][b], unused')
                      /\ e \in N /\ cb'[e][b].list # Off =>
                           Ordered(cb'[e][b], given[e][b], called[e][b], {})
    BY <1>1, <1>8 DEF OrderFits
  <2>1. Once(given[e][b], unused')
    BY <1>1 DEF OrderFits, Once
  <2>2. CASE e = n
    <3>1. /\ given[e][b] = <<>> /\ called[e][b] = <<>> /\ \A k : ~Ahead(cb'[e][b], k)
      BY <2>2, <1>3, <1>5, <1>6, ActionFacts
    <3>2. Len(<<>>) = 0 /\ \A i : i \notin 1 .. 0 /\ i \notin 0 + 1 .. 0
      OBVIOUS
    <3>3. Ordered(cb'[e][b], <<>>, <<>>, {})
      BY <3>1, <3>2 DEF Ordered
    <3> QED  BY <2>1, <3>1, <3>3
  <2>3. CASE e # n
    <3>1. cb'[e] = cb[e] /\ (e \in N => e \in Made)
      BY <2>3, <1>5 DEF N
    <3> QED  BY <2>1, <3>1, <1>1, <1>2 DEF OrderFits
  <2> QED  BY <2>2, <2>3
<1> QED
  BY <1>1, <1>8, <1>9, <1>10, <1>11, <1>12, <1>13, <1>14 DEF DInv

LEMMA MakeDeferredKeeps ==
  ASSUME DInv, NEW d \in Deferreds, MakeDeferred(d)
  PROVE  DInv'
<1>1. /\ UserCode /\ d \notin Made /\ owned' = owned \cup {d} /\ derived' = derived
      /\ cb' = [cb EXCEPT ![d] = NewLists(d)] /\ calls' = calls /\ unused' = unused
      /\ UNCHANGED <<state, notified, given, called, thrown>>
  BY DEF MakeDeferred, MayDo, history
<1>2. owned' \subseteq Deferreds /\ derived' \subseteq Deferreds /\ Made' = Made \cup {d}
  BY <1>1 DEF DInv, Types, Made
<1> QED
  BY <1>1, <1>2, NewDeferred

LEMMA ThenKeeps ==
  ASSUME DInv, NEW d \in Deferreds, NEW n \in Deferreds, NEW a \in Actions,
         NEW f \in Fn \cup {Off}, Then(d, n, a, f)
  PROVE  DInv'
<1> DEFINE item(b) == Filter(n, b, IF a = b THEN f ELSE Off)
           x == Library(<<Adds(d, "resolve", item("resolve")),
                          Adds(d, "reject", item("reject")),
                          Adds(d, "notify", item("notify"))>>)
           N == Made \cup {n}
<1>1. /\ UserCode /\ d \in Made /\ n \notin Made
      /\ owned' = owned /\ derived' = derived \cup {n}
      /\ cb' = [cb EXCEPT ![n] = NewLists(n)] /\ unused' = unused \ {f}
      /\ calls' = <<x>> \o calls
      /\ UNCHANGED <<state, notified, given, called, thrown>>
  BY DEF Then, MayDo
<1>2. /\ owned' \subseteq Deferreds /\ derived' \subseteq Deferreds /\ Made' = N
  BY <1>1 DEF DInv, Types, Made
<1>3. \A b \in Actions : item(b) \in Others(N) /\ item(b).does # "user"
  <2> TAKE b \in Actions
  <2>1. (IF a = b THEN f ELSE Off) \in Fn \cup {Off} /\ n \in N
    OBVIOUS
  <2>2. \A g \in Fn \cup {Off} : /\ Filter(n, b, g) \in Others(N)
                                 /\ Filter(n, b, g).does = "filter"
    BY <2>1, ItemKinds DEF Filter
  <2> QED  BY <2>1, <2>2
<1>4. "resolve" \in Actions /\ "reject" \in Actions /\ "notify" \in Actions /\ d \in N
  BY <1>1 DEF Actions
<1> HIDE DEF item
<1>5. x \in Frames(N) /\ Quiet(x)
  BY <1>3, <1>4, QuietAdds
<1> HIDE DEF x
<1>6. unused' \subseteq unused
  BY <1>1
<1> QED
  BY <1>1, <1>2, <1>5, <1>6, NewDeferred

(* The calls that add no function of the user.                             *)
QuietJobs(M) == {x \in Jobs(M) : ~IsUserAdd(x)}

LEMMA WhenKeeps ==
  ASSUME DInv, NEW d \in Deferreds, NEW e \in Deferreds \cup {Off},
         NEW n \in Deferreds, When(d, e, n)
  PROVE  DInv'
<1> DEFINE adds(s) == <<Adds(s, "resolve", Count(n)),
                        Adds(s, "reject", Forward(n, "reject")),
                        Adds(s, "notify", Forward(n, "notify"))>>
           both == adds(d) \o (IF e = Off THEN <<>> ELSE adds(e))
           todo == both \o <<Checks(n)>>
           x == Library(todo)
           N == Made \cup {n}
<1>1. /\ UserCode /\ d \in Made /\ e \in Made \cup {Off} /\ n \notin Made
      /\ owned' = owned /\ derived' = derived \cup {n}
      /\ cb' = [cb EXCEPT ![n] = NewLists(n)] /\ unused' = unused
      /\ calls' = <<x>> \o calls
      /\ UNCHANGED <<state, notified, given, called, thrown>>
  <2>1. calls' = <<Library(adds(d) \o (IF e = Off THEN <<>> ELSE adds(e))
                           \o <<Checks(n)>>)>> \o calls
    BY DEF When
  <2> QED  BY <2>1 DEF When, MayDo
<1>2. /\ owned' \subseteq Deferreds /\ derived' \subseteq Deferreds /\ Made' = N
  BY <1>1 DEF DInv, Types, Made
<1>3. \A s \in Made : adds(s) \in Seq(QuietJobs(N))
  <2> TAKE s \in Made
  <2>1. "resolve" \in Actions /\ "reject" \in Actions /\ "notify" \in Actions
        /\ s \in N /\ n \in N
    BY DEF Actions
  <2>2. /\ Count(n) \in Others(N) /\ Forward(n, "reject") \in Others(N)
        /\ Forward(n, "notify") \in Others(N)
    BY <2>1, ItemKinds
  <2>3. /\ Adds(s, "resolve", Count(n)) \in Jobs(N)
        /\ Adds(s, "reject", Forward(n, "reject")) \in Jobs(N)
        /\ Adds(s, "notify", Forward(n, "notify")) \in Jobs(N)
    BY <2>1, <2>2, NewJobs
  <2>4. /\ ~IsUserAdd(Adds(s, "resolve", Count(n)))
        /\ ~IsUserAdd(Adds(s, "reject", Forward(n, "reject")))
        /\ ~IsUserAdd(Adds(s, "notify", Forward(n, "notify")))
    BY DEF IsUserAdd, Adds, Count, Forward
  <2> QED  BY <2>3, <2>4 DEF QuietJobs
<1>4. <<Checks(n)>> \in Seq(QuietJobs(N))
  <2>1. Checks(n) \in Jobs(N)
    BY NewJobs
  <2>2. ~IsUserAdd(Checks(n))
    BY DEF IsUserAdd, Checks
  <2> QED  BY <2>1, <2>2 DEF QuietJobs
<1> HIDE DEF adds
<1>5. both \in Seq(QuietJobs(N))
  <2>1. adds(d) \in Seq(QuietJobs(N))
    BY <1>1, <1>3
  <2>2. (IF e = Off THEN <<>> ELSE adds(e)) \in Seq(QuietJobs(N))
    <3>1. <<>> \in Seq(QuietJobs(N))
      OBVIOUS
    <3>2. e # Off => adds(e) \in Seq(QuietJobs(N))
      BY <1>1, <1>3
    <3> QED  BY <3>1, <3>2
  <2>3. \A p, q \in Seq(QuietJobs(N)) : p \o q \in Seq(QuietJobs(N))
    OBVIOUS
  <2> QED  BY <2>1, <2>2, <2>3
<1> HIDE DEF both
<1>6. todo \in Seq(QuietJobs(N)) /\ Len(todo) = Len(both) + 1 /\ Len(both) \in Nat
  BY <1>4, <1>5
<1> HIDE DEF todo
<1>7. /\ todo \in Seq(Jobs(N)) /\ todo # <<>>
      /\ \A m \in DOMAIN todo : ~IsUserAdd(todo[m])
  <2>1. QuietJobs(N) \subseteq Jobs(N) /\ \A y \in QuietJobs(N) : ~IsUserAdd(y)
    BY DEF QuietJobs
  <2>2. todo \in Seq(Jobs(N))
    BY <1>6, <2>1, SeqGrow
  <2>3. todo # <<>>
    <3>1. Len(<<>>) = 0 /\ Len(todo) # 0
      BY <1>6
    <3> QED  BY ONLY <3>1
  <2>4. \A m \in DOMAIN todo : todo[m] \in QuietJobs(N)
    BY <1>6
  <2> QED  BY <2>1, <2>2, <2>3, <2>4
<1>8. x \in Frames(N) /\ x.runs = "library" /\ x.todo = todo
  BY <1>7, NewFrames DEF Library
<1>9. Quiet(x)
  BY <1>7, <1>8 DEF Quiet
<1> HIDE DEF x
<1>10. unused' \subseteq unused
  BY <1>1
<1> QED
  BY <1>1, <1>2, <1>8, <1>9, <1>10, NewDeferred

-----------------------------------------------------------------------------
(* The loop of fire().                                                     *)
LEMMA LoopFacts ==
  ASSUME DInv, Running("loop"), NEW d, NEW a, NEW c,
         d = Top.d, a = Top.a, c = cb[d][a]
  PROVE  /\ d \in Made /\ d \in Deferreds /\ a \in Actions /\ Top.v \in Nat
         /\ c \in Lists(Made) /\ IndexFits(c) /\ c.firing /\ Reached(c) = c.firingIndex
         /\ calls # <<>> /\ Top = Head(calls) /\ Below = Tail(calls)
         /\ Stack(Made, Below) /\ Calm(calls) /\ Calm(Below)
         /\ \A e, b : Now(calls, e, b) = {}
         /\ \A e, b : IsLoop(Top, e, b) <=> e = d /\ b = a
         /\ \A e, b : Loops(calls, e, b) <=> (e = d /\ b = a) \/ Loops(Below, e, b)
         /\ ~Loops(Below, d, a)
         /\ \A e \in Made : e # d => Steady(Made, e, state[e], cb[e])
         /\ \/ Steady(Made, d, state[d], cb[d])
            \/ a \in Settling /\ TurnsAt(Made, d, state[d], cb[d], a)
<1>1. /\ Types /\ UnmadeFits /\ LoopsFit /\ PairsFit /\ OrderFits /\ AddsFit
      /\ Stack(Made, calls) /\ Made \subseteq Deferreds
  BY DEF DInv, Types, Made
<1>2. /\ calls # <<>> /\ Top = Head(calls) /\ Below = Tail(calls)
      /\ Top.runs = "loop"
  BY DEF Running, Top, Below
<1>3. /\ Top \in Frames(Made) /\ Stack(Made, Below)
      /\ ~Loops(Below, d, a)
      /\ \A e, b : Loops(calls, e, b) <=> IsLoop(Top, e, b) \/ Loops(Below, e, b)
  BY <1>1, <1>2, Pop
<1>4. d \in Made /\ d \in Deferreds /\ a \in Actions /\ Top.v \in Nat
  BY <1>1, <1>2, <1>3, FrameKinds
<1>5. \A e, b : IsLoop(Top, e, b) <=> e = d /\ b = a
  BY <1>2 DEF IsLoop
<1>6. c \in Lists(Made) /\ IndexFits(c)
  BY <1>1, <1>4 DEF Types, LoopsFit
<1>7. c.firing
  BY <1>1, <1>3, <1>4, <1>5 DEF LoopsFit
<1>8. Calm(calls) /\ Calm(Below) /\ \A e, b : Now(calls, e, b) = {}
  BY <1>1, <1>2, CalmStack, NowFacts
<1>9. \A e \in Made : e # d => Steady(Made, e, state[e], cb[e])
  BY <1>1, <1>2, OthersSteady
<1>10. \/ Steady(Made, d, state[d], cb[d])
       \/ a \in Settling /\ TurnsAt(Made, d, state[d], cb[d], a)
  BY <1>1, <1>2, <1>4, <1>5 DEF PairsFit, Turns
<1> QED
  BY <1>2, <1>3, <1>4, <1>5, <1>6, <1>7, <1>8, <1>9, <1>10 DEF Reached

(* A list that settles and is being fired is settling its deferred, or has *)
(* settled it.                                                             *)
LEMMA FiringKinds ==
  ASSUME NEW M, NEW d, NEW st, NEW cs, NEW a \in Settling, cs[a].firing,
         cs[a].list # Off,
         Steady(M, d, st, cs) \/ TurnsAt(M, d, st, cs, a)
  PROVE  \/ st = a /\ Done(M, cs[a]) /\ Disused(cs[Opposite(a)])
         \/ TurnsAt(M, d, st, cs, a)
BY SteadyKinds DEF Fresh, Disused

(* The next function of a list that is firing.                             *)
LEMMA ItemFacts ==
  ASSUME DInv, Looping, NEW d, NEW a, NEW c,
         d = Top.d, a = Top.a, c = cb[d][a]
  PROVE  /\ c.list # Off /\ c.list \in Seq(Firsts(Made) \cup Others(Made))
         /\ c.firingIndex \in Nat /\ c.firingIndex + 1 \in DOMAIN c.list
         /\ Item = c.list[c.firingIndex + 1]
         /\ \/ /\ Item \in Others(Made)
               /\ Steady(Made, d, state[d], cb[d])
               /\ a \in Settling => state[d] = a /\ Done(Made, c)
            \/ /\ a \in Settling /\ TurnsAt(Made, d, state[d], cb[d], a)
               /\ Starts(Made, c, d, a) /\ c.memory # Off
               /\ \/ c.firingIndex = 0 /\ Item = Settle(d, a)
                  \/ c.firingIndex = 1 /\ Item = Disable(d, Opposite(a))
                  \/ c.firingIndex = 2 /\ Item = Lock(d, "notify")
<1>1. Running("loop") /\ HasNext(c)
  BY DEF Looping
<1>2. /\ d \in Made /\ d \in Deferreds /\ a \in Actions
      /\ c \in Lists(Made) /\ IndexFits(c) /\ c.firing
      /\ \/ Steady(Made, d, state[d], cb[d])
         \/ a \in Settling /\ TurnsAt(Made, d, state[d], cb[d], a)
  BY <1>1, LoopFacts
<1>3. /\ c.list \in Seq(Firsts(Made) \cup Others(Made))
      /\ c.firingIndex + 1 \in DOMAIN c.list /\ c.list # Off
      /\ c.firingIndex \in Nat
  BY <1>1, <1>2, AdvancedFacts DEF HasNext, Lists
<1>4. Item = c.list[c.firingIndex + 1]
  BY DEF Item, NextOf
<1>5. CASE a \notin Settling
  <2>1. a = "notify" /\ Steady(Made, d, state[d], cb[d])
    BY <1>2, <1>5, ActionFacts
  <2>2. c.list \in Seq(Others(Made))
    BY <1>2, <1>3, <2>1 DEF DInv, PairsFit, NotifyFits
  <2>3. Item \in Others(Made)
    BY <1>3, <1>4, <2>2
  <2> QED  BY <1>3, <1>4, <1>5, <2>1, <2>3
<1>6. CASE a \in Settling
  <2>1. CASE TurnsAt(Made, d, state[d], cb[d], a)
    <3>1. \/ Turning(Made, c, d, a, 0)
          \/ Turning(Made, c, d, a, 1)
          \/ Turning(Made, c, d, a, 2)
      BY <2>1 DEF TurnsAt
    <3>2. /\ Starts(Made, c, d, a) /\ c.memory # Off
          /\ c.firingIndex = 0 \/ c.firingIndex = 1 \/ c.firingIndex = 2
      BY <3>1 DEF Turning
    <3>3. /\ c.list[1] = Settle(d, a) /\ c.list[2] = Disable(d, Opposite(a))
          /\ c.list[3] = Lock(d, "notify")
      BY <3>2 DEF Starts
    <3>4. \/ c.firingIndex = 0 /\ Item = Settle(d, a)
          \/ c.firingIndex = 1 /\ Item = Disable(d, Opposite(a))
          \/ c.firingIndex = 2 /\ Item = Lock(d, "notify")
      BY ONLY <1>4, <3>2, <3>3
    <3> QED  BY ONLY <1>3, <1>4, <1>6, <2>1, <3>2, <3>4
  <2>2. CASE Steady(Made, d, state[d], cb[d])
    <3>1. \/ state[d] = a /\ Done(Made, c) /\ Disused(cb[d][Opposite(a)])
          \/ TurnsAt(Made, d, state[d], cb[d], a)
      BY <1>2, <1>3, <1>6, <2>2, FiringKinds
    <3>2. CASE state[d] = a /\ Done(Made, c)
      <4>1. c.firingIndex + 1 > c.firingIndex
        BY <1>3
      <4>2. Item \in Others(Made)
        BY <1>2, <1>3, <1>4, <3>2, <4>1 DEF Done
      <4> QED  BY <1>3, <1>4, <2>2, <3>2, <4>2
    <3> QED  BY <2>1, <3>1, <3>2
  <2> QED  BY <1>2, <2>1, <2>2
<1> QED
  BY <1>5, <1>6

(* Only a list has called someone.                                         *)
CalledBy(d, a) ==
  /\ called' \in [Deferreds -> [Actions -> Seq(Fn \cup Fn \X Nat)]]
  /\ \A e \in Deferreds, b \in Actions :
       e # d \/ b # a => called'[e][b] = called[e][b]

(* The loop takes a step and calls nothing that settles.                   *)
LEMMA AdvanceStep ==
  ASSUME DInv, Looping, Item.does \notin {"settle", "disable", "lock"},
         cb' = Advance, NEW d, NEW a, NEW c, d = Top.d, a = Top.a, c = cb[d][a],
         UNCHANGED <<owned, derived, state, given, unused, notified, thrown>>,
         CalledBy(d, a),
         a \in Settling =>
           Ordered(Advanced(c), given[d][a], called'[d][a], {}),
         \/ calls' = calls
         \/ \E f \in Frames(Made) : Quiet(f) /\ calls' = <<f>> \o calls
  PROVE  DInv'
<1> DEFINE x == Advanced(c)
<1>1. /\ Types /\ UnmadeFits /\ LoopsFit /\ PairsFit /\ OrderFits
      /\ Stack(Made, calls) /\ notified' \in Nat
      /\ called' \in [Deferreds -> [Actions -> Seq(Fn \cup Fn \X Nat)]]
      /\ \A e \in Deferreds, b \in Actions :
           e # d \/ b # a => called'[e][b] = called[e][b]
  BY DEF DInv, Types, CalledBy
<1>2. Running("loop") /\ HasNext(c)
  BY DEF Looping
<1>3. /\ d \in Made /\ d \in Deferreds /\ a \in Actions
      /\ c \in Lists(Made) /\ IndexFits(c) /\ c.firing
      /\ calls # <<>> /\ Top = Head(calls) /\ Below = Tail(calls)
      /\ Stack(Made, Below) /\ Calm(calls) /\ Calm(Below)
      /\ \A e, b : Now(calls, e, b) = {}
      /\ \A e, b : Loops(calls, e, b) <=> (e = d /\ b = a) \/ Loops(Below, e, b)
      /\ \A e \in Made : e # d => Steady(Made, e, state[e], cb[e])
  BY <1>2, LoopFacts
<1>4. /\ Steady(Made, d, state[d], cb[d])
      /\ a \in Settling => state[d] = a /\ Done(Made, c)
  <2>1. ASSUME Item = Settle(d, a) \/ Item = Disable(d, Opposite(a)) \/ Item = Lock(d, "notify")
        PROVE  FALSE
    BY <2>1 DEF Settle, Disable, Lock
  <2> QED  BY <2>1, ItemFacts
<1>5. /\ x \in Lists(Made) /\ IndexFits(x)
      /\ x.list = c.list /\ x.firing = c.firing
      /\ x.fired = c.fired /\ x.memory = c.memory
      /\ x.waiting = c.waiting
      /\ x.firingIndex = c.firingIndex + 1
      /\ c.firingIndex \in Nat
  <2>1. /\ Advanced(c) \in Lists(Made) /\ IndexFits(Advanced(c))
        /\ Advanced(c).list = c.list /\ Advanced(c).firing = c.firing
        /\ Advanced(c).fired = c.fired /\ Advanced(c).memory = c.memory
        /\ Advanced(c).waiting = c.waiting
        /\ Advanced(c).firingIndex = c.firingIndex + 1
    <3>1. IsAdvanced(Made, c, Advanced(c))
      BY <1>2, <1>3, Advances
    <3> QED  BY <3>1 DEF IsAdvanced
  <2>2. c.firingIndex \in Nat
    BY <1>3 DEF Lists
  <2> QED  BY <2>1, <2>2
<1>6. cb' = [cb EXCEPT ![d][a] = x]
  BY DEF Advance
<1> HIDE DEF x
<1>7. /\ cb'[d][a] = x
      /\ \A e \in Deferreds, b \in Actions : e # d \/ b # a => cb'[e][b] = cb[e][b]
  <2>1. cb \in [Deferreds -> [Actions -> Lists(Made)]]
    BY <1>1 DEF Types
  <2>2. x \in Lists(Made) /\ d \in Deferreds /\ a \in Actions
    BY <1>3, <1>5
  <2> QED  BY ONLY <1>6, <2>1, <2>2, SetCell
<1>8. /\ Stack(Made, calls') /\ calls' # <<>> /\ Calm(Tail(calls'))
      /\ \A e, b : Loops(calls', e, b) <=> Loops(calls, e, b)
      /\ \A e, b : Now(calls', e, b) = {}
  <2>1. CASE calls' = calls
    BY <2>1, <1>1, <1>3
  <2>2. CASE \E f \in Frames(Made) : Quiet(f) /\ calls' = <<f>> \o calls
    <3>1. PICK f \in Frames(Made) : Quiet(f) /\ calls' = <<f>> \o calls
      BY <2>2
    <3> QED  BY <3>1, <1>1, <1>3, PushQuiet
  <2> QED  BY <2>1, <2>2
<1>9. AddsFit'
  <2>1. \A e \in Deferreds, b \in Settling : cb'[e][b].list = cb[e][b].list
    <3> TAKE e \in Deferreds, b \in Settling
    <3>1. b \in Actions
      BY ActionFacts
    <3>2. CASE e = d /\ b = a
      BY <3>2, <1>5, <1>7
    <3>3. CASE e # d \/ b # a
      BY <3>1, <3>3, <1>7
    <3> QED  BY <3>2, <3>3
  <2> QED  BY <1>8, <2>1 DEF AddsFit, Calm
<1>10. Steady(Made, d, state[d], cb'[d])
  <2>1. CASE a \notin Settling
    <3>1. \A b \in Settling : cb'[d][b] = cb[d][b]
      <4>1. d \in Deferreds /\ \A b \in Settling : b \in Actions /\ b # a
        BY <1>3, <2>1, ActionFacts
      <4> QED  BY <1>7, <4>1
    <3> QED  BY <1>4, <3>1, PairSame
  <2>2. CASE a \in Settling
    <3>1. Opposite(a) \in Settling /\ Opposite(a) \in Actions /\ Opposite(a) # a
      BY <2>2, ActionFacts
    <3>2. c.list # Off
      BY <1>2 DEF HasNext
    <3>3. Disused(cb[d][Opposite(a)])
      BY <1>3, <1>4, <2>2, <3>2, SteadyKinds, ActionFacts, ZenonT(30) DEF Fresh, Disused
    <3>4. Done(Made, x)
      <4>1. c.list \in Seq(Firsts(Made) \cup Others(Made))
        BY <1>3, <3>2 DEF Lists
      <4>2. \A k \in DOMAIN c.list : k \in Nat
        BY <4>1
      <4>3. \A k \in DOMAIN c.list : k > c.firingIndex + 1 => k > c.firingIndex
        <5>1. PICK m \in Nat : m = c.firingIndex
          BY <1>5
        <5>2. \A k \in Nat : k > m + 1 => k > m
          OBVIOUS
        <5> QED  BY ONLY <4>2, <5>1, <5>2
      <4> QED  BY <1>3, <1>4, <1>5, <2>2, <4>3 DEF Done
    <3> QED  BY <1>3, <1>4, <1>7, <2>2, <3>1, <3>3, <3>4, ZenonT(30) DEF Steady
  <2> QED  BY <2>1, <2>2
<1>11. a = "notify" => NotifyFits(Made, x)
  <2> SUFFICES ASSUME a = "notify" PROVE NotifyFits(Made, x)
    OBVIOUS
  <2>1. NotifyFits(Made, cb[d]["notify"])
    BY <1>1, <1>3 DEF PairsFit
  <2>2. x.list = cb[d]["notify"].list
    BY <1>5
  <2> QED  BY <2>1, <2>2 DEF NotifyFits
<1>12. a \in Settling /\ x.list # Off =>
           Ordered(x, given[d][a], called'[d][a], Now(calls', d, a))
  BY <1>8 DEF x
<1>13. Loops(calls', d, a)
  BY <1>3, <1>8
<1>14. \A e \in Made, b \in Settling :
           (e # d \/ b # a) /\ cb[e][b].list # Off =>
             Now(calls', e, b) = Now(calls, e, b)
  BY <1>3, <1>8
<1> QED
  BY <1>1, <1>3, <1>5, <1>6, <1>8, <1>9, <1>10, <1>11, <1>12, <1>13, <1>14, Cell

LEMMA ItemOther ==
  ASSUME DInv, Looping, Item.does \notin {"settle", "disable", "lock"}
  PROVE  Item \in Others(Made)
<1>1. PICK d, a, c : d = Top.d /\ a = Top.a /\ c = cb[d][a]
  OBVIOUS
<1>2. ASSUME Item = Settle(d, a) \/ Item = Disable(d, Opposite(a)) \/ Item = Lock(d, "notify")
      PROVE  FALSE
  BY <1>2 DEF Settle, Disable, Lock
<1> QED
  BY <1>1, <1>2, ItemFacts

(* What is ahead of the loop that takes a step.                            *)
LEMMA TopOrder ==
  ASSUME DInv, Looping, NEW d, NEW a, NEW c,
         d = Top.d, a = Top.a, c = cb[d][a], a \in Settling
  PROVE  /\ given[d][a] \in Seq(Fn) /\ called[d][a] \in Seq(Fn \cup Fn \X Nat)
         /\ Once(given[d][a], unused)
         /\ Ordered(c, given[d][a], called[d][a], {})
         /\ Reached(c) \in Nat /\ Reached(Advanced(c)) = Reached(c) + 1
         /\ Reached(c) + 1 \in DOMAIN c.list
         /\ c.list[Reached(c) + 1] = Item
         /\ c.list \in Seq(Firsts(Made) \cup Others(Made))
         /\ Advanced(c).list = c.list
<1>1. Running("loop") /\ HasNext(c)
  BY DEF Looping
<1>2. /\ d \in Made /\ d \in Deferreds /\ a \in Actions
      /\ c \in Lists(Made) /\ IndexFits(c) /\ c.firing
      /\ Reached(c) = c.firingIndex
      /\ \A e, b : Now(calls, e, b) = {}
  BY <1>1, LoopFacts
<1>3. /\ c.list # Off /\ c.list \in Seq(Firsts(Made) \cup Others(Made))
      /\ c.firingIndex \in Nat /\ c.firingIndex + 1 \in DOMAIN c.list
      /\ Item = c.list[c.firingIndex + 1]
  BY ItemFacts
<1>4. IsAdvanced(Made, c, Advanced(c))
  BY <1>1, <1>2, Advances
<1>5. Reached(Advanced(c)) = c.firingIndex + 1 /\ Advanced(c).list = c.list
  BY <1>2, <1>4 DEF IsAdvanced, Reached
<1>6. /\ given[d][a] \in Seq(Fn) /\ called[d][a] \in Seq(Fn \cup Fn \X Nat)
  BY <1>2 DEF DInv, Types
<1>7. Once(given[d][a], unused) /\ Ordered(c, given[d][a], called[d][a], {})
  BY <1>2, <1>3 DEF DInv, OrderFits
<1> QED
  BY <1>2, <1>3, <1>5, <1>6, <1>7

(* The loop calls something that is neither the user's nor settles.        *)
LEMMA QuietAdvance ==
  ASSUME DInv, Looping, Item.does \notin {"user", "settle", "disable", "lock"},
         cb' = Advance,
         UNCHANGED <<owned, derived, state, called, given, unused, notified, thrown>>,
         \/ calls' = calls
         \/ \E f \in Frames(Made) : Quiet(f) /\ calls' = <<f>> \o calls
  PROVE  DInv'
<1>1. PICK d, a, c : d = Top.d /\ a = Top.a /\ c = cb[d][a]
  OBVIOUS
<1>2. ASSUME a \in Settling
      PROVE  Ordered(Advanced(c), given[d][a], called[d][a], {})
  <2> DEFINE g == given[d][a]
             h == called[d][a]
             e == Advanced(c)
  <2>1. /\ g \in Seq(Fn) /\ h \in Seq(Fn \cup Fn \X Nat)
        /\ Ordered(c, g, h, {})
        /\ Reached(c) \in Nat /\ Reached(e) = Reached(c) + 1
        /\ Reached(c) + 1 \in DOMAIN c.list
        /\ c.list[Reached(c) + 1] = Item
        /\ c.list \in Seq(Firsts(Made) \cup Others(Made))
        /\ e.list = c.list
    BY <1>1, <1>2, TopOrder
  <2>2. c.list[Reached(c) + 1].does # "user"
    BY <2>1
  <2> HIDE DEF g, h, e
  <2>3. Ordered(e, g, h, {})
    BY <2>1, <2>2, OrderedAdvance
  <2> QED  BY <2>3 DEF e, g, h
<1>3. /\ called' \in [Deferreds -> [Actions -> Seq(Fn \cup Fn \X Nat)]]
      /\ called' = called
  BY DEF DInv, Types
<1>4. CalledBy(d, a)
  BY <1>3 DEF CalledBy
<1> QED
  BY <1>1, <1>2, <1>3, <1>4, AdvanceStep

LEMMA CallForwardKeeps ==
  ASSUME DInv, CallForward
  PROVE  DInv'
<1>1. /\ Looping /\ Item.does \in {"forward", "filter"}
      /\ cb' = Advance
      /\ calls' = <<Library(<<Fires(Item.d, Item.a, Top.v)>>)>> \o calls
      /\ UNCHANGED <<owned, derived, state, called, given, unused, notified, thrown>>
  BY DEF CallForward, history
<1>2. Item.d \in Made /\ Item.a \in Actions
  BY <1>1, ItemOther, OtherKinds
<1>3. Top.v \in Nat
  BY <1>1, LoopFacts DEF Looping
<1>4. PICK f : f = Library(<<Fires(Item.d, Item.a, Top.v)>>)
  OBVIOUS
<1>5. f \in Frames(Made) /\ Quiet(f)
  BY <1>2, <1>3, <1>4, QuietFires
<1> QED
  BY <1>1, <1>4, <1>5, QuietAdvance

LEMMA CallFilterKeeps ==
  ASSUME DInv, CallFilter
  PROVE  DInv'
<1>1. /\ Looping /\ Item.does = "filter" /\ Item.f # Off
      /\ cb' = Advance
      /\ calls' = <<Body(Item.f, Item.d, Item.a)>> \o calls
      /\ UNCHANGED <<owned, derived, state, called, given, unused, notified, thrown>>
  BY DEF CallFilter, history
<1>2. Item.d \in Made /\ Item.a \in Actions /\ Item.f \in Fn
  BY <1>1, ItemOther, OtherKinds
<1>3. PICK f : f = Body(Item.f, Item.d, Item.a)
  OBVIOUS
<1>4. f \in Frames(Made) /\ Quiet(f)
  <2>1. f \in Frames(Made)
    BY <1>2, <1>3, NewFrames
  <2>2. f.runs = "body"
    BY <1>3 DEF Body
  <2> QED  BY <2>1, <2>2 DEF Quiet
<1> QED
  BY <1>1, <1>3, <1>4, QuietAdvance

LEMMA CallCountKeeps ==
  ASSUME DInv, CallCount
  PROVE  DInv'
<1>1. /\ Looping /\ Item.does = "count"
      /\ cb' = Advance
      /\ \/ calls' = calls
         \/ calls' = <<Library(<<Fires(Item.d, "resolve", 0)>>)>> \o calls
      /\ UNCHANGED <<owned, derived, state, called, given, unused, notified, thrown>>
  BY DEF CallCount, history
<1>2. Item.d \in Made /\ "resolve" \in Actions /\ 0 \in Nat
  BY <1>1, ItemOther, OtherKinds DEF Actions
<1>3. PICK f : f = Library(<<Fires(Item.d, "resolve", 0)>>)
  OBVIOUS
<1>4. f \in Frames(Made) /\ Quiet(f)
  BY <1>2, <1>3, QuietFires
<1> QED
  BY <1>1, <1>3, <1>4, QuietAdvance

(* A function of the user is called: it is the next one that was given.    *)
LEMMA CallUserFacts ==
  ASSUME DInv, CallUser, NEW d, NEW a, d = Top.d, a = Top.a
  PROVE  /\ d \in Deferreds /\ a \in Actions
         /\ a \in Settling =>
              /\ state[d] = a
              /\ Len(called[d][a]) < Len(given[d][a])
              /\ Item.f = given[d][a][Len(called[d][a]) + 1]
              /\ Ordered(Advanced(cb[d][a]), given[d][a],
                         Append(called[d][a], Item.f), {})
<1>1. Looping /\ Item.does = "user"
  BY DEF CallUser
<1>2. PICK c : c = cb[d][a]
  OBVIOUS
<1>3. d \in Deferreds /\ a \in Actions
  BY <1>1, LoopFacts DEF Looping
<1>4. ASSUME a \in Settling
      PROVE  /\ state[d] = a
             /\ Len(called[d][a]) < Len(given[d][a])
             /\ Item.f = given[d][a][Len(called[d][a]) + 1]
             /\ Ordered(Advanced(cb[d][a]), given[d][a],
                         Append(called[d][a], Item.f), {})
  <2> DEFINE g == given[d][a]
             h == called[d][a]
             e == Advanced(c)
  <2>1. /\ g \in Seq(Fn) /\ h \in Seq(Fn \cup Fn \X Nat)
        /\ Once(g, unused) /\ Ordered(c, g, h, {})
        /\ Reached(c) \in Nat /\ Reached(e) = Reached(c) + 1
        /\ Reached(c) + 1 \in DOMAIN c.list
        /\ c.list[Reached(c) + 1] = Item
        /\ c.list \in Seq(Firsts(Made) \cup Others(Made))
        /\ e.list = c.list
    BY <1>1, <1>2, <1>4, TopOrder
  <2>2. c.list[Reached(c) + 1].does = "user"
    BY <1>1, <2>1
  <2> HIDE DEF g, h, e
  <2>3. /\ Len(h) < Len(g) /\ c.list[Reached(c) + 1].f = g[Len(h) + 1]
        /\ Ordered(e, g, Append(h, g[Len(h) + 1]), {})
    BY <2>1, <2>2, OrderedCall
  <2>4. state[d] = a
    <3>1. ASSUME Item = Settle(d, a) \/ Item = Disable(d, Opposite(a)) \/ Item = Lock(d, "notify")
          PROVE  FALSE
      BY <1>1, <3>1 DEF Settle, Disable, Lock
    <3> QED  BY <1>1, <1>2, <1>4, <3>1, ItemFacts
  <2>5. Item.f = g[Len(h) + 1] /\ Ordered(e, g, Append(h, Item.f), {})
    BY <2>1, <2>3
  <2> QED  BY <1>2, <2>3, <2>4, <2>5 DEF e, g, h
<1> QED
  BY <1>3, <1>4

LEMMA CallUserKeeps ==
  ASSUME DInv, CallUser
  PROVE  DInv'
<1>1. PICK d, a, c : d = Top.d /\ a = Top.a /\ c = cb[d][a]
  OBVIOUS
<1> DEFINE y == IF a = "notify" THEN <<Item.f, Top.v>> ELSE Item.f
<1>2. /\ Looping /\ Item.does = "user" /\ cb' = Advance
      /\ called' = [called EXCEPT ![d][a] = Append(@, y)]
      /\ calls' = <<Body(Item.f, Off, Off)>> \o calls
      /\ UNCHANGED <<owned, derived, state, given, unused, notified, thrown>>
  BY <1>1 DEF CallUser
<1>3. Item.f \in Fn
  BY <1>2, ItemOther, OtherKinds
<1>4. /\ d \in Deferreds /\ a \in Actions /\ Top.v \in Nat
  BY <1>1, <1>2, LoopFacts DEF Looping
<1>5. y \in Fn \cup Fn \X Nat
  BY <1>3, <1>4
<1>6. called \in [Deferreds -> [Actions -> Seq(Fn \cup Fn \X Nat)]]
  BY DEF DInv, Types
<1>7. a \in Settling => y = Item.f
  BY ActionFacts
<1> HIDE DEF y
<1>8. /\ called' \in [Deferreds -> [Actions -> Seq(Fn \cup Fn \X Nat)]]
      /\ called'[d][a] = Append(called[d][a], y)
      /\ \A e \in Deferreds, b \in Actions :
           e # d \/ b # a => called'[e][b] = called[e][b]
  <2>1. PICK z : z = Append(called[d][a], y)
    OBVIOUS
  <2>2. z \in Seq(Fn \cup Fn \X Nat)
    BY <1>4, <1>5, <1>6, <2>1
  <2>3. called' = [called EXCEPT ![d][a] = z]
    BY <1>2, <2>1
  <2> QED  BY ONLY <1>4, <1>6, <2>1, <2>2, <2>3, SetCell
<1>9. a \in Settling => Ordered(Advanced(c), given[d][a], called'[d][a], {})
  BY <1>1, <1>7, <1>8, CallUserFacts
<1>10. PICK f : f = Body(Item.f, Off, Off)
  OBVIOUS
<1>11. f \in Frames(Made) /\ Quiet(f)
  <2>1. f \in Frames(Made)
    BY <1>3, <1>10, NewFrames
  <2>2. f.runs = "body"
    BY <1>10 DEF Body
  <2> QED  BY <2>1, <2>2 DEF Quiet
<1>12. Item.does \notin {"settle", "disable", "lock"}
  BY <1>2
<1>13. \E g \in Frames(Made) : Quiet(g) /\ calls' = <<g>> \o calls
  BY <1>2, <1>10, <1>11
<1>14. /\ Looping /\ cb' = Advance /\ d = Top.d /\ a = Top.a /\ c = cb[d][a]
       /\ UNCHANGED <<owned, derived, state, given, unused, notified, thrown>>
       /\ CalledBy(d, a)
  BY <1>1, <1>2, <1>8 DEF CalledBy
<1> QED
  BY ONLY DInv, <1>9, <1>12, <1>13, <1>14, AdvanceStep

(* The loop ends, or the list is fired again.                              *)
LEMMA EndLoopKeeps ==
  ASSUME DInv, EndLoop
  PROVE  DInv'
<1>1. PICK d, a, c : d = Top.d /\ a = Top.a /\ c = cb[d][a]
  OBVIOUS
<1>2. /\ Running("loop") /\ ~HasNext(c)
      /\ UNCHANGED <<owned, derived, state, called, given, unused, notified, thrown>>
      /\ IF FiresAgain(c)
         THEN /\ cb' = [cb EXCEPT ![d][a] = Again(c)]
              /\ calls' = <<Loop(d, a, Head(c.waiting))>> \o Below
         ELSE /\ cb' = [cb EXCEPT ![d][a] = Ended(c)]
              /\ calls' = Below
  BY <1>1 DEF EndLoop, history
<1>3. /\ Types /\ UnmadeFits /\ LoopsFit /\ PairsFit /\ OrderFits
      /\ Stack(Made, calls) /\ notified' \in Nat
      /\ called' \in [Deferreds -> [Actions -> Seq(Fn \cup Fn \X Nat)]]
      /\ called' = called
      /\ cb \in [Deferreds -> [Actions -> Lists(Made)]]
      /\ Made \subseteq Deferreds
  BY <1>2 DEF DInv, Types, Made
<1>4. /\ d \in Made /\ d \in Deferreds /\ a \in Actions /\ Top.v \in Nat
      /\ c \in Lists(Made) /\ IndexFits(c) /\ c.firing /\ Reached(c) = c.firingIndex
      /\ Stack(Made, Below) /\ Calm(Below)
      /\ \A e, b : Now(calls, e, b) = {}
      /\ \A e, b : Loops(calls, e, b) <=> (e = d /\ b = a) \/ Loops(Below, e, b)
      /\ ~Loops(Below, d, a)
      /\ \A e \in Made : e # d => Steady(Made, e, state[e], cb[e])
      /\ \/ Steady(Made, d, state[d], cb[d])
         \/ a \in Settling /\ TurnsAt(Made, d, state[d], cb[d], a)
  BY <1>1, <1>2, LoopFacts
<1>5. \A e \in Made, b \in Settling : cb[e][b].list # Off => Now(Below, e, b) = {}
  BY <1>3, <1>4, CalmNow
(* The list is at its end, and has settled its deferred if it is to.       *)
<1>6. c.list # Off => /\ c.list \in Seq(Firsts(Made) \cup Others(Made))
                      /\ c.firingIndex = Len(c.list)
  <2> SUFFICES ASSUME c.list # Off
               PROVE  /\ c.list \in Seq(Firsts(Made) \cup Others(Made))
                      /\ c.firingIndex = Len(c.list)
    OBVIOUS
  <2>1. /\ c.list \in Seq(Firsts(Made) \cup Others(Made))
        /\ c.firingIndex \in Nat /\ c.firingLength \in Nat
    BY <1>4 DEF Lists
  <2>2. c.firingLength = Len(c.list) /\ c.firingIndex <= c.firingLength
    BY <1>4 DEF IndexFits
  <2>3. ~(c.firingIndex < c.firingLength)
    BY <1>2 DEF HasNext
  <2> QED  BY <2>1, <2>2, <2>3
<1>7. ASSUME a \in Settling, TurnsAt(Made, d, state[d], cb[d], a)
      PROVE  FALSE
  <2>1. \/ Turning(Made, c, d, a, 0)
        \/ Turning(Made, c, d, a, 1)
        \/ Turning(Made, c, d, a, 2)
    BY <1>1, <1>7 DEF TurnsAt
  <2>2. /\ c.list # Off /\ Len(c.list) >= 3
        /\ c.firingIndex = 0 \/ c.firingIndex = 1 \/ c.firingIndex = 2
    BY <2>1 DEF Turning, Starts
  <2>3. c.firingIndex = Len(c.list)
    BY <1>6, <2>2
  <2>4. PICK m : m = Len(c.list)
    OBVIOUS
  <2>5. m >= 3 /\ m \in {0, 1, 2}
    BY ONLY <2>2, <2>3, <2>4
  <2> QED  BY ONLY <2>5
<1>8. Steady(Made, d, state[d], cb[d])
  BY <1>4, <1>7
<1>9. a \in Settling => /\ c.list # Off /\ state[d] = a /\ Done(Made, c)
                        /\ Disused(cb[d][Opposite(a)])
  BY <1>1, <1>4, <1>8, SteadyKinds DEF Fresh, Disused, Done
<1>10. CASE FiresAgain(c)
  <2> DEFINE w == Head(c.waiting)
             x == Again(c)
             f == Loop(d, a, w)
  <2>1. /\ x \in Lists(Made) /\ IndexFits(x) /\ x.list = c.list
        /\ x.firing = TRUE /\ w \in Nat
    BY <1>4, <1>10, AgainFacts
  <2>2. a \notin Settling /\ a = "notify"
    BY <1>4, <1>9, <1>10, ActionFacts DEF FiresAgain, Done
  <2>3. cb' = [cb EXCEPT ![d][a] = x] /\ calls' = <<f>> \o Below
    BY <1>2, <1>10
  <2>4. /\ f \in Frames(Made) /\ f.runs = "loop" /\ f.d = d /\ f.a = a
        /\ \A e, b : IsLoop(f, e, b) <=> e = d /\ b = a
    BY <1>4, <2>1, NewFrames DEF Loop, IsLoop
  <2> HIDE DEF x, f
  <2>5. /\ Stack(Made, calls') /\ calls' # <<>> /\ Head(calls') = f
        /\ Tail(calls') = Below
        /\ \A e, b : Loops(calls', e, b) <=> IsLoop(f, e, b) \/ Loops(Below, e, b)
    <3>1. /\ f.runs = "loop" => ~Loops(Below, f.d, f.a)
          /\ f.runs = "library" => TodoFits(f.todo)
      BY <1>4, <2>4
    <3> QED  BY <1>4, <2>3, <2>4, <3>1, Push
  <2>6. \A e, b : Now(calls', e, b) = {}
    BY <2>4, <2>5, NowFacts
  <2>7. /\ cb'[d][a] = x
        /\ \A e \in Deferreds, b \in Actions : e # d \/ b # a => cb'[e][b] = cb[e][b]
    <3>1. d \in Deferreds /\ a \in Actions /\ x \in Lists(Made)
      BY <1>4, <2>1
    <3> QED  BY ONLY <3>1, <1>3, <2>3, SetCell
  <2>8. \A e \in Deferreds, b \in Settling : cb'[e][b] = cb[e][b]
    <3>1. \A b \in Settling : b \in Actions /\ b # a
      BY <2>2, ActionFacts
    <3> QED  BY <2>7, <3>1
  <2>9. AddsFit'
    BY <1>4, <2>5, <2>8, ZenonT(30) DEF AddsFit, Calm
  <2>10. Steady(Made, d, state[d], cb'[d])
    BY <1>4, <1>8, <2>8, PairSame
  <2>11. NotifyFits(Made, x)
    BY <1>1, <1>3, <1>4, <2>1, <2>2 DEF PairsFit, NotifyFits
  <2>12. /\ Loops(calls', d, a)
         /\ \A e \in Deferreds, b \in Actions :
              e # d \/ b # a => (Loops(calls', e, b) <=> Loops(calls, e, b))
    BY <1>4, <2>4, <2>5
  <2>13. \A e \in Made, b \in Settling :
           (e # d \/ b # a) /\ cb[e][b].list # Off =>
             Now(calls', e, b) = Now(calls, e, b)
    BY <1>4, <2>6
  <2> QED  BY <1>2, <1>3, <1>4, <2>1, <2>2, <2>3, <2>5, <2>9, <2>10, <2>11,
              <2>12, <2>13, Cell, ZenonT(30)
<1>11. CASE ~FiresAgain(c)
  <2> DEFINE x == Ended(c)
  <2>1. /\ x \in Lists(Made) /\ IndexFits(x) /\ x.firing = FALSE
        /\ x.list \in {c.list, Off, <<>>}
        /\ c.list # Off /\ c.waiting = Off /\ c.memory # Off =>
             /\ x.list = <<>> /\ x.fired = c.fired
             /\ x.memory = c.memory /\ x.waiting = c.waiting
    BY <1>4, EndedFacts
  <2>2. cb' = [cb EXCEPT ![d][a] = x] /\ calls' = Below
    BY <1>2, <1>11
  <2> HIDE DEF x
  <2>3. /\ cb'[d][a] = x
        /\ \A e \in Deferreds, b \in Actions : e # d \/ b # a => cb'[e][b] = cb[e][b]
    <3>1. d \in Deferreds /\ a \in Actions /\ x \in Lists(Made)
      BY <1>4, <2>1
    <3> QED  BY ONLY <3>1, <1>3, <2>2, SetCell
  <2>4. a \in Settling => /\ x.list = <<>> /\ x.fired /\ x.memory # Off
                          /\ x.waiting = Off
    BY <1>9, <2>1 DEF Done
  <2>5. AddsFit'
    <3>1. Below # <<>> => Calm(Tail(Below))
      BY <1>4, CalmTail
    <3>2. ASSUME NEW e \in Deferreds, NEW b \in Settling, cb[e][b].list = Off
          PROVE  cb'[e][b].list = Off
      <4>1. e # d \/ b # a
        BY <1>1, <1>9, <3>2
      <4> QED  BY <2>3, <3>2, <4>1, ActionFacts
    <3> QED  BY <2>2, <3>1, <3>2 DEF AddsFit, Calm
  <2>6. Steady(Made, d, state[d], cb'[d])
    <3>1. CASE a \notin Settling
      <4>1. \A b \in Settling : b \in Actions /\ b # a
        BY <3>1, ActionFacts
      <4>2. \A b \in Settling : cb'[d][b] = cb[d][b]
        BY <1>4, <2>3, <4>1
      <4> QED  BY <1>8, <4>2, PairSame
    <3>2. CASE a \in Settling
      <4>1. Opposite(a) \in Actions /\ Opposite(a) # a
        BY <3>2, ActionFacts
      <4>2. Done(Made, x)
        <5>1. <<>> # Off
          <6>1. <<>> \in Seq(Firsts(Deferreds) \cup Others(Deferreds))
            OBVIOUS
          <6> QED  BY <6>1, OffFacts
        <5> QED  BY <2>1, <2>4, <3>2, <5>1 DEF Done
      <4> QED  BY <1>4, <1>9, <2>3, <3>2, <4>1, <4>2 DEF Steady
    <3> QED  BY <3>1, <3>2
  <2>7. a = "notify" => NotifyFits(Made, x)
    <3> SUFFICES ASSUME a = "notify" PROVE NotifyFits(Made, x)
      OBVIOUS
    <3>1. c.list \in Seq(Others(Made)) \cup {Off}
      BY <1>1, <1>3, <1>4 DEF PairsFit, NotifyFits
    <3>2. <<>> \in Seq(Others(Made))
      OBVIOUS
    <3> QED  BY <2>1, <3>1, <3>2 DEF NotifyFits
  <2>8. a \in Settling => Ordered(x, given[d][a], called[d][a], {})
    <3> SUFFICES ASSUME a \in Settling
                 PROVE  Ordered(x, given[d][a], called[d][a], {})
      OBVIOUS
    <3>1. Ordered(c, given[d][a], called[d][a], {})
      BY <1>1, <1>3, <1>4, <1>9 DEF OrderFits
    <3>2. /\ given[d][a] \in Seq(Fn) /\ called[d][a] \in Seq(Fn \cup Fn \X Nat)
      BY <1>3, <1>4 DEF Types
    <3>3. \A k \in DOMAIN c.list : ~Ahead(c, k)
      BY <1>4, <1>6, <1>9 DEF Ahead
    <3>4. called[d][a] = given[d][a]
      BY <3>1, <3>2, <3>3, OrderedNothingAhead
    <3> QED  BY <2>4, <3>2, <3>4, OrderedEmpty
  <2>9. /\ Stack(Made, calls') /\ ~Loops(calls', d, a)
        /\ \A e \in Deferreds, b \in Actions :
             e # d \/ b # a => (Loops(calls', e, b) <=> Loops(calls, e, b))
    BY <1>4, <2>2
  <2>10. \A e \in Made, b \in Settling :
           (e # d \/ b # a) /\ cb[e][b].list # Off =>
             Now(calls', e, b) = Now(calls, e, b)
    BY <1>4, <1>5, <2>2
  <2>11. a \in Settling /\ x.list # Off =>
           Ordered(x, given[d][a], called'[d][a], Now(calls', d, a))
    BY <1>1, <1>3, <1>4, <1>5, <1>9, <2>2, <2>8
  <2> QED  BY <1>2, <1>3, <1>4, <2>1, <2>2, <2>5, <2>6, <2>7, <2>9, <2>10,
              <2>11, Cell
<1> QED
  BY <1>10, <1>11

(* The loop calls what settles: it changes the lists of its own deferred,  *)
(* which it advances, disables or locks.                                   *)
Turned(d, a) ==
  /\ state' \in [Deferreds -> Settling \cup {"no"}]
  /\ cb' \in [Deferreds -> [Actions -> Lists(Made)]]
  /\ \A e \in Deferreds : e # d => state'[e] = state[e] /\ cb'[e] = cb[e]
  /\ \A b \in Actions : /\ IndexFits(cb'[d][b])
                        /\ cb'[d][b].firing = cb[d][b].firing
                        /\ cb'[d][b].list \in {cb[d][b].list, Off}
  /\ \A b \in Settling : b # a => cb'[d][b].list = Off \/ cb'[d][b] = cb[d][b]
  /\ IsAdvanced(Made, cb[d][a], cb'[d][a])
  /\ \/ Steady(Made, d, state'[d], cb'[d])
     \/ TurnsAt(Made, d, state'[d], cb'[d], a)

LEMMA TurnStep ==
  ASSUME DInv, Looping, Item.does # "user",
         NEW d, NEW a, NEW c, d = Top.d, a = Top.a, c = cb[d][a], a \in Settling,
         UNCHANGED <<owned, derived, calls, given, called, unused, notified, thrown>>,
         Turned(d, a)
  PROVE  DInv'
<1>0. /\ state' \in [Deferreds -> Settling \cup {"no"}]
      /\ cb' \in [Deferreds -> [Actions -> Lists(Made)]]
      /\ \A e \in Deferreds : e # d => state'[e] = state[e] /\ cb'[e] = cb[e]
      /\ \A b \in Actions : /\ IndexFits(cb'[d][b])
                            /\ cb'[d][b].firing = cb[d][b].firing
                            /\ cb'[d][b].list \in {cb[d][b].list, Off}
      /\ \A b \in Settling : b # a => cb'[d][b].list = Off \/ cb'[d][b] = cb[d][b]
      /\ IsAdvanced(Made, c, cb'[d][a])
      /\ \/ Steady(Made, d, state'[d], cb'[d])
         \/ TurnsAt(Made, d, state'[d], cb'[d], a)
  BY DEF Turned
<1>1. /\ Types /\ UnmadeFits /\ LoopsFit /\ AddsFit /\ PairsFit /\ OrderFits
      /\ Stack(Made, calls) /\ Made' = Made
  BY DEF DInv, Made
<1>2. Running("loop") /\ HasNext(c)
  BY DEF Looping
<1>3. /\ d \in Made /\ d \in Deferreds /\ a \in Actions
      /\ c \in Lists(Made) /\ c.firing
      /\ calls # <<>> /\ Top = Head(calls)
      /\ \A e, b : Now(calls, e, b) = {}
      /\ \A e, b : IsLoop(Top, e, b) <=> e = d /\ b = a
      /\ \A e \in Made : e # d => Steady(Made, e, state[e], cb[e])
  BY <1>2, LoopFacts
<1>4. \A e \in Deferreds, b \in Actions :
        /\ IndexFits(cb'[e][b]) /\ cb'[e][b].firing = cb[e][b].firing
        /\ cb'[e][b].list \in {cb[e][b].list, Off}
  BY <1>0, <1>1 DEF LoopsFit
<1>5. Types'
  BY <1>0, <1>1 DEF Types
<1>6. UnmadeFits'
  <2> SUFFICES ASSUME NEW e \in Deferreds \ Made
               PROVE  /\ state'[e] = "no" /\ cb'[e] = [b \in Actions |-> NewList(TRUE)]
                      /\ \A b \in Actions : given[e][b] = <<>> /\ called[e][b] = <<>>
    BY <1>1 DEF UnmadeFits
  <2>1. e # d /\ e \in Deferreds
    BY <1>3
  <2>2. state'[e] = state[e] /\ cb'[e] = cb[e]
    BY <1>0, <2>1
  <2> QED  BY <1>1, <2>2 DEF UnmadeFits
<1>7. LoopsFit'
  BY <1>1, <1>4 DEF LoopsFit
<1>8. AddsFit'
  <2> SUFFICES ASSUME calls # <<>>, NEW e \in Deferreds, NEW b \in Settling,
                      Pending(Tail(calls), e, b)
               PROVE  cb'[e][b].list = Off
    BY DEF AddsFit
  <2>1. b \in Actions /\ cb[e][b].list = Off
    BY <1>1, ActionFacts DEF AddsFit
  <2> QED  BY <1>4, <2>1
<1>9. PairsFit'
  <2> SUFFICES ASSUME NEW e \in Made
               PROVE  /\ \/ Steady(Made, e, state'[e], cb'[e])
                         \/ Turns(Made, e, state'[e], cb'[e], calls)
                      /\ NotifyFits(Made, cb'[e]["notify"])
    BY <1>1 DEF PairsFit
  <2>1. e \in Deferreds
    BY <1>1 DEF Types, Made
  <2>2. NotifyFits(Made, cb'[e]["notify"])
    BY <1>1, <1>4, <2>1, ActionFacts DEF PairsFit, NotifyFits
  <2>3. CASE e = d
    BY <1>0, <1>3, <2>2, <2>3 DEF Turns
  <2>4. CASE e # d
    BY <1>0, <1>3, <2>1, <2>2, <2>4
  <2> QED  BY <2>3, <2>4
<1>10. Ordered(cb'[d][a], given[d][a], called[d][a], {})
  <2> DEFINE g == given[d][a]
             h == called[d][a]
  <2>1. /\ g \in Seq(Fn) /\ h \in Seq(Fn \cup Fn \X Nat)
        /\ Ordered(c, g, h, {})
        /\ Reached(c) \in Nat
        /\ Reached(c) + 1 \in DOMAIN c.list
        /\ c.list[Reached(c) + 1] = Item
        /\ c.list \in Seq(Firsts(Made) \cup Others(Made))
    BY TopOrder
  <2>2. PICK x : x = cb'[d][a]
    OBVIOUS
  <2>3. x.list = c.list /\ x.firing /\ x.firingIndex = c.firingIndex + 1
    BY <1>0, <1>3, <2>2 DEF IsAdvanced
  <2>4. Reached(x) = Reached(c) + 1
    BY <1>3, <2>3 DEF Reached
  <2>5. c.list[Reached(c) + 1].does # "user"
    BY <2>1
  <2> HIDE DEF g, h
  <2>6. Ordered(x, g, h, {})
    BY <2>1, <2>3, <2>4, <2>5, OrderedAdvance
  <2> QED  BY <2>2, <2>6 DEF g, h
<1>11. OrderFits'
  <2> SUFFICES ASSUME NEW e \in Deferreds, NEW b \in Settling
               PROVE  /\ Once(given[e][b], unused)
                      /\ e \in Made /\ cb'[e][b].list # Off =>
                           Ordered(cb'[e][b], given[e][b], called[e][b],
                                   Now(calls, e, b))
    BY <1>1 DEF OrderFits
  <2>1. CASE e = d /\ b = a
    <3>1. Once(given[e][b], unused)
      BY <1>1 DEF OrderFits
    <3>2. Now(calls, e, b) = {}
      BY <1>3
    <3> QED  BY <1>10, <2>1, <3>1, <3>2
  <2>2. CASE e # d \/ b # a
    <3>1. cb'[e][b].list = Off \/ cb'[e][b] = cb[e][b]
      BY <1>0, <2>2
    <3> QED  BY <1>1, <3>1 DEF OrderFits
  <2> QED  BY <2>1, <2>2
<1> QED
  BY <1>1, <1>5, <1>6, <1>7, <1>8, <1>9, <1>11 DEF DInv

(* A deferred is settled: its state is set, its opposite list disabled and *)
(* its list for the progress locked.                                       *)
LEMMA CallSettleFacts ==
  ASSUME DInv, CallSettle, NEW d, NEW a, NEW c,
         d = Top.d, a = Top.a, c = cb[d][a]
  PROVE  /\ a \in Settling /\ TurnsAt(Made, d, state[d], cb[d], a)
         /\ Starts(Made, c, d, a) /\ c.memory # Off
         /\ \/ c.firingIndex = 0 /\ Item = Settle(d, a)
            \/ c.firingIndex = 1 /\ Item = Disable(d, Opposite(a))
            \/ c.firingIndex = 2 /\ Item = Lock(d, "notify")
<1>1. Looping /\ Item.does \in {"settle", "disable", "lock"}
  BY DEF CallSettle
<1>2. Item \notin Others(Made)
  BY <1>1, OtherKinds
<1> QED
  BY <1>1, <1>2, ItemFacts

LEMMA CallSettleTurns ==
  ASSUME DInv, CallSettle
  PROVE  Turned(Top.d, Top.a)
<1>1. PICK d, a, c, o, n, x :
        /\ d = Top.d /\ a = Top.a /\ c = cb[d][a]
        /\ o = cb[d][Opposite(a)] /\ n = cb[d]["notify"] /\ x = Advanced(c)
  OBVIOUS
<1>2. /\ Looping /\ Running("loop") /\ HasNext(c)
      /\ UNCHANGED <<owned, derived, calls, given, called, unused, notified, thrown>>
  BY <1>1 DEF CallSettle, Looping, history
<1>3. /\ d \in Made /\ d \in Deferreds /\ a \in Actions
      /\ c \in Lists(Made) /\ IndexFits(c) /\ c.firing
  BY <1>1, <1>2, LoopFacts
<1>4. /\ a \in Settling /\ TurnsAt(Made, d, state[d], cb[d], a)
      /\ Starts(Made, c, d, a) /\ c.memory # Off
      /\ \/ c.firingIndex = 0 /\ Item = Settle(d, a)
         \/ c.firingIndex = 1 /\ Item = Disable(d, Opposite(a))
         \/ c.firingIndex = 2 /\ Item = Lock(d, "notify")
  BY <1>1, CallSettleFacts
<1>5. IsAdvanced(Made, c, x)
  BY <1>1, <1>2, <1>3, Advances
<1>6. /\ x \in Lists(Made) /\ IndexFits(x)
      /\ x.list = c.list /\ x.firing = c.firing /\ x.fired = c.fired
      /\ x.memory = c.memory /\ x.waiting = c.waiting
      /\ x.firingIndex = c.firingIndex + 1
  BY <1>5 DEF IsAdvanced
<1>7. /\ cb \in [Deferreds -> [Actions -> Lists(Made)]]
      /\ state \in [Deferreds -> Settling \cup {"no"}]
      /\ \A b \in Actions : IndexFits(cb[d][b]) /\ cb[d][b] \in Lists(Made)
  BY <1>3 DEF DInv, Types, LoopsFit
<1>8. /\ Opposite(a) \in Settling /\ Opposite(a) \in Actions /\ Opposite(a) # a
      /\ Opposite(Opposite(a)) = a /\ "notify" \in Actions
      /\ a # "notify" /\ Opposite(a) # "notify"
      /\ \A b \in Settling : b = a \/ b = Opposite(a)
  BY <1>4, ActionFacts
<1>9. PICK t : t = [cb EXCEPT ![d][a] = x]
  OBVIOUS
<1>10. /\ t \in [Deferreds -> [Actions -> Lists(Made)]] /\ t[d][a] = x
       /\ \A e \in Deferreds, b \in Actions : e # d \/ b # a => t[e][b] = cb[e][b]
       /\ \A e \in Deferreds : e # d => t[e] = cb[e]
  BY ONLY <1>3, <1>6, <1>7, <1>9, SetCell
<1>11. Advance = t
  BY <1>1, <1>9 DEF Advance
<1>12. Item.does # "user"
  BY DEF CallSettle
<1>13. Starts(Made, x, d, a)
  BY <1>4, <1>6 DEF Starts
(* The first step: the state.                                              *)
<1>20. CASE c.firingIndex = 0 /\ Item = Settle(d, a)
  <2>1. /\ Item.does = "settle" /\ Item.d = d /\ Item.a = a
    BY <1>20 DEF Settle
  <2>2. cb' = t /\ state' = [state EXCEPT ![d] = a]
    BY <1>11, <2>1 DEF CallSettle
  <2>3. /\ state' \in [Deferreds -> Settling \cup {"no"}] /\ state'[d] = a
        /\ \A e \in Deferreds : e # d => state'[e] = state[e]
    BY <1>3, <1>4, <1>7, <2>2
  <2>4. Fresh(Made, o, d, Opposite(a))
    <3>1. 0 # 1 /\ 0 # 2
      OBVIOUS
    <3> QED  BY <1>1, <1>4, <1>20, <3>1 DEF TurnsAt, Turning
  <2>5. TurnsAt(Made, d, state'[d], cb'[d], a)
    <3>1. x.firingIndex = 1
      BY <1>6, <1>20
    <3>2. Turning(Made, x, d, a, 1)
      BY <1>3, <1>4, <1>6, <1>13, <3>1 DEF Turning
    <3>3. cb'[d][a] = x /\ cb'[d][Opposite(a)] = o
      BY <1>1, <1>3, <1>8, <1>10, <2>2
    <3> QED  BY <2>3, <2>4, <3>2, <3>3 DEF TurnsAt
  <2>6. \A b \in Actions : /\ IndexFits(cb'[d][b])
                           /\ cb'[d][b].firing = cb[d][b].firing
                           /\ cb'[d][b].list \in {cb[d][b].list, Off}
    <3> TAKE b \in Actions
    <3>1. CASE b = a
      <4>1. cb'[d][b] = x /\ cb[d][b] = c
        BY <1>1, <1>10, <2>2, <3>1
      <4> QED  BY <1>6, <4>1
    <3>2. CASE b # a
      <4>1. cb'[d][b] = cb[d][b]
        BY <1>3, <1>10, <2>2, <3>2
      <4> QED  BY <1>7, <4>1
    <3> QED  BY <3>1, <3>2
  <2>7. \A b \in Settling : b # a => cb'[d][b] = cb[d][b]
    BY <1>3, <1>8, <1>10, <2>2
  <2>8. \A b \in Settling : b # a =>
          cb'[d][b].list = Off \/ cb'[d][b] = cb[d][b]
    BY <2>7
  <2>9. /\ cb' \in [Deferreds -> [Actions -> Lists(Made)]]
        /\ \A e \in Deferreds : e # d => cb'[e] = cb[e]
        /\ IsAdvanced(Made, c, cb'[d][a])
    BY <1>5, <1>10, <2>2
  <2>20. Turned(d, a)
    BY <1>1, <2>3, <2>5, <2>6, <2>8, <2>9 DEF Turned
  <2> QED  BY <1>1, <2>20
(* The second: the opposite list.                                          *)
<1>21. CASE c.firingIndex = 1 /\ Item = Disable(d, Opposite(a))
  <2>1. /\ Item.does = "disable" /\ Item.d = d /\ Item.a = Opposite(a)
    BY <1>21 DEF Disable
  <2>2. PICK y : y = Disabled(o)
    OBVIOUS
  <2>3. /\ y \in Lists(Made) /\ IndexFits(y) /\ y.list = Off /\ y.waiting = Off
        /\ y.firing = o.firing
    <3>1. o \in Lists(Made) /\ IndexFits(o)
      BY <1>1, <1>7, <1>8
    <3> QED  BY <2>2, <3>1, DisabledFacts
  <2>4. t[d][Opposite(a)] = o
    BY <1>1, <1>3, <1>8, <1>10
  <2>5. cb' = [t EXCEPT ![d][Opposite(a)] = y] /\ state' = state
    BY <1>11, <2>1, <2>2, <2>4 DEF CallSettle
  <2>6. /\ cb' \in [Deferreds -> [Actions -> Lists(Made)]]
        /\ cb'[d][Opposite(a)] = y
        /\ \A e \in Deferreds, b \in Actions :
             e # d \/ b # Opposite(a) => cb'[e][b] = t[e][b]
        /\ \A e \in Deferreds : e # d => cb'[e] = t[e]
    BY ONLY <1>3, <1>8, <1>10, <2>3, <2>5, SetCell
  <2>7. cb'[d][a] = x
    BY <1>3, <1>8, <1>10, <2>6
  <2>8. state[d] = a /\ Fresh(Made, o, d, Opposite(a))
    <3>1. 1 # 0 /\ 1 # 2
      OBVIOUS
    <3> QED  BY <1>1, <1>4, <1>21, <3>1 DEF TurnsAt, Turning
  <2>9. TurnsAt(Made, d, state'[d], cb'[d], a)
    <3>1. x.firingIndex = 2
      BY <1>6, <1>21
    <3>2. Turning(Made, x, d, a, 2)
      BY <1>3, <1>4, <1>6, <1>13, <3>1 DEF Turning
    <3>3. Disused(y)
      BY <2>3, <2>8 DEF Fresh, Disused
    <3> QED  BY <2>5, <2>6, <2>7, <2>8, <3>2, <3>3 DEF TurnsAt
  <2>10. \A b \in Actions : /\ IndexFits(cb'[d][b])
                            /\ cb'[d][b].firing = cb[d][b].firing
                            /\ cb'[d][b].list \in {cb[d][b].list, Off}
    <3> TAKE b \in Actions
    <3>1. CASE b = a
      BY <1>1, <1>6, <2>7, <3>1
    <3>2. CASE b = Opposite(a)
      BY <1>1, <2>3, <2>6, <3>2
    <3>3. CASE b # a /\ b # Opposite(a)
      BY <1>3, <1>7, <1>10, <2>6, <3>3
    <3> QED  BY <3>1, <3>2, <3>3
  <2>11. \A b \in Settling : b # a =>
           cb'[d][b].list = Off \/ cb'[d][b] = cb[d][b]
    BY <1>8, <2>3, <2>6
  <2>12. \A e \in Deferreds : e # d => cb'[e] = cb[e]
    BY <1>10, <2>6
  <2>13. IsAdvanced(Made, c, cb'[d][a])
    BY <1>5, <2>7
  <2>15. /\ d = Top.d /\ a = Top.a /\ c = cb[d][a]
         /\ cb' \in [Deferreds -> [Actions -> Lists(Made)]]
         /\ state' \in [Deferreds -> Settling \cup {"no"}]
         /\ \A e \in Deferreds : e # d => state'[e] = state[e]
    BY <1>1, <1>7, <2>5, <2>6
  <2>20. Turned(d, a)
    BY <1>1, <2>9, <2>10, <2>11, <2>12, <2>13, <2>15 DEF Turned
  <2> QED  BY <1>1, <2>20
(* The third: the list for the progress.                                   *)
<1>22. CASE c.firingIndex = 2 /\ Item = Lock(d, "notify")
  <2>1. /\ Item.does = "lock" /\ Item.d = d /\ Item.a = "notify"
    BY <1>22 DEF Lock
  <2>2. PICK y : y = Locked(n)
    OBVIOUS
  <2>3. /\ y \in Lists(Made) /\ IndexFits(y) /\ y.list \in {n.list, Off}
        /\ y.firing = n.firing
    <3>1. n \in Lists(Made) /\ IndexFits(n)
      BY <1>1, <1>7, <1>8
    <3> QED  BY <2>2, <3>1, LockedFacts
  <2>4. t[d]["notify"] = n
    BY <1>1, <1>3, <1>8, <1>10
  <2>5. cb' = [t EXCEPT ![d]["notify"] = y] /\ state' = state
    BY <1>11, <2>1, <2>2, <2>4 DEF CallSettle
  <2>6. /\ cb' \in [Deferreds -> [Actions -> Lists(Made)]]
        /\ cb'[d]["notify"] = y
        /\ \A e \in Deferreds, b \in Actions :
             e # d \/ b # "notify" => cb'[e][b] = t[e][b]
        /\ \A e \in Deferreds : e # d => cb'[e] = t[e]
    BY ONLY <1>3, <1>8, <1>10, <2>3, <2>5, SetCell
  <2>7. cb'[d][a] = x /\ cb'[d][Opposite(a)] = o
    BY <1>1, <1>3, <1>8, <1>10, <2>6
  <2>8. state[d] = a /\ Disused(o)
    <3>1. 2 # 0 /\ 2 # 1
      OBVIOUS
    <3> QED  BY <1>1, <1>4, <1>22, <3>1 DEF TurnsAt, Turning
  <2>9. Done(Made, x)
    <3>1. x.firingIndex = 3
      BY <1>6, <1>22
    <3>2. c.fired
      BY <1>3 DEF IndexFits
    <3>3. \A k \in DOMAIN x.list : k > 3 => x.list[k] \in Others(Made)
      <4> SUFFICES ASSUME NEW k \in DOMAIN x.list, k > 3
                   PROVE  x.list[k] \in Others(Made)
        OBVIOUS
      <4>1. k \in 4 .. Len(x.list)
        <5>1. PICK l : l = x.list
          OBVIOUS
        <5>2. l \in Seq(Firsts(Made) \cup Others(Made))
          BY <1>13, <5>1 DEF Starts
        <5>3. k \in DOMAIN l /\ k > 3
          BY <5>1
        <5>4. k \in 4 .. Len(l)
          BY ONLY <5>2, <5>3
        <5> QED  BY <5>1, <5>4
      <4> QED  BY <1>13, <4>1 DEF Starts
    <3> QED  BY <1>3, <1>4, <1>6, <1>13, <3>1, <3>2, <3>3 DEF Done, Starts
  <2>10. Steady(Made, d, state'[d], cb'[d])
    BY <1>4, <2>5, <2>7, <2>8, <2>9 DEF Steady
  <2>11. \A b \in Actions : /\ IndexFits(cb'[d][b])
                            /\ cb'[d][b].firing = cb[d][b].firing
                            /\ cb'[d][b].list \in {cb[d][b].list, Off}
    <3> TAKE b \in Actions
    <3>1. CASE b = a
      BY <1>1, <1>6, <2>7, <3>1
    <3>2. CASE b = "notify"
      BY <1>1, <2>3, <2>6, <3>2
    <3>3. CASE b # a /\ b # "notify"
      BY <1>3, <1>7, <1>10, <2>6, <3>3
    <3> QED  BY <3>1, <3>2, <3>3
  <2>12. \A b \in Settling : b # a =>
           cb'[d][b].list = Off \/ cb'[d][b] = cb[d][b]
    BY <1>1, <1>8, <2>7
  <2>13. \A e \in Deferreds : e # d => cb'[e] = cb[e]
    BY <1>10, <2>6
  <2>14. IsAdvanced(Made, c, cb'[d][a])
    BY <1>5, <2>7
  <2>16. /\ d = Top.d /\ a = Top.a /\ c = cb[d][a]
         /\ cb' \in [Deferreds -> [Actions -> Lists(Made)]]
         /\ state' \in [Deferreds -> Settling \cup {"no"}]
         /\ \A e \in Deferreds : e # d => state'[e] = state[e]
    BY <1>1, <1>7, <2>5, <2>6
  <2>20. Turned(d, a)
    BY <1>1, <2>10, <2>11, <2>12, <2>13, <2>14, <2>16 DEF Turned
  <2> QED  BY <1>1, <2>20
<1> QED
  BY <1>4, <1>20, <1>21, <1>22

LEMMA CallSettleKeeps ==
  ASSUME DInv, CallSettle
  PROVE  DInv'
<1>1. PICK d, a, c : d = Top.d /\ a = Top.a /\ c = cb[d][a]
  OBVIOUS
<1>2. a \in Settling
  BY <1>1, CallSettleFacts
<1>3. /\ Looping /\ Item.does # "user"
      /\ UNCHANGED <<owned, derived, calls, given, called, unused, notified, thrown>>
  BY DEF CallSettle, history
<1>4. Turned(d, a)
  BY <1>1, CallSettleTurns
<1> QED
  BY ONLY DInv, <1>1, <1>2, <1>3, <1>4, TurnStep

-----------------------------------------------------------------------------
(* The invariant holds.                                                    *)
LEMMA InitOK == Init => DInv
<1> SUFFICES ASSUME Init PROVE DInv
  OBVIOUS
<1>1. /\ owned = {} /\ derived = {} /\ Made = {} /\ calls = <<>>
      /\ state = [d \in Deferreds |-> "no"]
      /\ cb = [d \in Deferreds |-> [a \in Actions |-> NewList(TRUE)]]
      /\ unused = Fn /\ notified = 0 /\ thrown = FALSE
      /\ given = [d \in Deferreds |-> [a \in Actions |-> <<>>]]
      /\ called = [d \in Deferreds |-> [a \in Actions |-> <<>>]]
  BY DEF Init, Made, EachList
<1>2. NewList(TRUE) \in Lists({}) /\ IndexFits(NewList(TRUE)) /\ NewList(TRUE).firing = FALSE
  BY NewListFacts
<1>3. Types
  <2>1. <<>> \in Seq(Fn) /\ <<>> \in Seq(Fn \cup Fn \X Nat)
    OBVIOUS
  <2>2. cb \in [Deferreds -> [Actions -> Lists(Made)]]
    BY <1>1, <1>2
  <2> QED  BY <1>1, <2>1, <2>2 DEF Types
<1>4. /\ Stack(Made, calls) /\ \A d, a : ~Loops(calls, d, a)
  BY <1>1, EmptyStack
<1>5. UnmadeFits
  BY <1>1, ActionFacts DEF UnmadeFits
<1>6. LoopsFit
  BY <1>1, <1>2, <1>4 DEF LoopsFit
<1>7. AddsFit /\ PairsFit
  BY <1>1 DEF AddsFit, PairsFit
<1>8. OrderFits
  BY <1>1, ActionFacts DEF OrderFits, Once
<1> QED
  BY <1>3, <1>4, <1>5, <1>6, <1>7, <1>8 DEF DInv

LEMMA NextKeeps == DInv /\ [Next]_vars => DInv'
<1> SUFFICES ASSUME DInv, [Next]_vars PROVE DInv'
  OBVIOUS
<1>1. CASE LibraryStep
  BY <1>1, CallUserKeeps, CallSettleKeeps, CallForwardKeeps, CallFilterKeeps,
     CallCountKeeps, EndLoopKeeps, LibraryKeeps DEF LibraryStep
<1>2. CASE UserStep
  <2>1. ASSUME NEW d \in Deferreds, MakeDeferred(d) PROVE DInv'
    BY <2>1, MakeDeferredKeeps
  <2>2. ASSUME NEW d \in Deferreds, NEW f \in Fn, NEW a \in Actions, AddUser(d, {a}, f)
        PROVE  DInv'
    BY <2>2, AddUserKeeps
  <2>3. ASSUME NEW d \in Deferreds, NEW f \in Fn, AddUser(d, Settling, f)
        PROVE  DInv'
    BY <2>3, AddUserKeeps
  <2>4. ASSUME NEW d \in Deferreds, NEW a \in Actions, Act(d, a) PROVE DInv'
    BY <2>4, ActKeeps
  <2>5. ASSUME NEW d \in Deferreds, NEW n \in Deferreds, NEW a \in Actions,
               NEW f \in Fn \cup {Off}, Then(d, n, a, f)
        PROVE  DInv'
    BY <2>5, ThenKeeps
  <2>6. ASSUME NEW d \in Deferreds, NEW n \in Deferreds, NEW e \in Deferreds \cup {Off},
               When(d, e, n)
        PROVE  DInv'
    BY <2>6, WhenKeeps
  <2>7. CASE Return
    BY <2>7, ReturnKeeps
  <2>8. CASE ReturnValue
    BY <2>8, ReturnValueKeeps
  <2>9. CASE Throw
    BY <2>9, ThrowKeeps
  <2>10. ASSUME NEW p \in Deferreds, ReturnPromise(p) PROVE DInv'
    BY <2>10, ReturnPromiseKeeps
  <2> QED
    BY <1>2, <2>1, <2>2, <2>3, <2>4, <2>5, <2>6, <2>7, <2>8, <2>9, <2>10 DEF UserStep
<1>3. CASE UNCHANGED vars
  <2>1. /\ UNCHANGED <<owned, derived, state, cb, calls, unused, notified, given,
                       called, thrown>>
        /\ Made' = Made
    BY <1>3 DEF vars, lists, history, Made
  <2>2. Types' /\ UnmadeFits'
    BY <2>1 DEF DInv, Types, UnmadeFits
  <2>3. LoopsFit' /\ AddsFit'
    BY <2>1 DEF DInv, LoopsFit, AddsFit
  <2>4. PairsFit' /\ OrderFits'
    BY <2>1 DEF DInv, PairsFit, OrderFits
  <2> QED  BY <2>1, <2>2, <2>3, <2>4 DEF DInv
<1> QED
  BY <1>1, <1>2, <1>3 DEF Next

(* The invariant that the rest follows from: whoever is on the stack, each *)
(* deferred has not begun to settle, or is in one of the three steps of    *)
(* settling and on top of the stack, or is settled, with the opposite list *)
(* disabled; and the functions ahead of a loop are those that were given   *)
(* and not called yet, in this order.                                      *)
THEOREM ListsAreInOrder == Spec => []DInv
BY InitOK, NextKeeps, PTL DEF Spec

(* What a script that has returned without an exception finds: every       *)
(* deferred that is settled has called all the functions it was given for  *)
(* that, although each of them may have settled, notified and added        *)
(* (jquery-1.9.1.js:1029-1157).                                            *)
THEOREM AllFunctionsAreCalled == Spec => []AllAreCalled
<1>1. DInv => AllAreCalled
  <2> SUFFICES ASSUME DInv, Idle, NEW d \in Made, NEW a \in Settling, state[d] = a
               PROVE  called[d][a] = given[d][a]
    BY DEF AllAreCalled
  <2>1. calls = <<>> /\ ~thrown
    BY DEF Idle
  <2>2. d \in Deferreds /\ a \in Actions
    BY ActionFacts DEF DInv, Types, Made
  <2>3. Steady(Made, d, state[d], cb[d]) /\ Now(calls, d, a) = {}
    BY <2>1, UserCodeFacts DEF UserCode
  <2>4. Done(Made, cb[d][a])
    <3>1. a # "no" /\ a # Opposite(a)
      BY ActionFacts
    <3> QED  BY <2>3, <3>1, SteadyKinds
  <2>5. ~cb[d][a].firing
    BY <2>1, <2>2, EmptyStack DEF DInv, LoopsFit
  <2>6. cb[d][a].list = <<>> /\ cb[d][a].list # Off
    BY <2>4, <2>5 DEF Done
  <2>7. Ordered(cb[d][a], given[d][a], called[d][a], {})
    BY <2>2, <2>3, <2>6 DEF DInv, OrderFits
  <2>8. given[d][a] \in Seq(Fn) /\ called[d][a] \in Seq(Fn \cup Fn \X Nat)
    BY <2>2 DEF DInv, Types
  <2>9. \A k \in DOMAIN cb[d][a].list : ~Ahead(cb[d][a], k)
    BY <2>6
  <2> QED  BY <2>7, <2>8, <2>9, OrderedNothingAhead
<1> QED
  BY <1>1, ListsAreInOrder, PTL

-----------------------------------------------------------------------------
(* A deferred keeps what a promise promises.                               *)
Mapped(h) == [d \in Deferreds |-> [w \in Settling |-> h[d][w]]]

LEMMA MappedFacts ==
  ASSUME NEW h
  PROVE  /\ DOMAIN Mapped(h) = Deferreds
         /\ \A d \in Deferreds :
              /\ Mapped(h)[d] = [w \in Settling |-> h[d][w]]
              /\ \A w \in Settling : Mapped(h)[d][w] = h[d][w]
BY DEF Mapped

IsSet(K, H, d, a, z) == K = [H EXCEPT ![d][a] = z]

LEMMA MappedCell ==
  ASSUME NEW h, NEW k, NEW d \in Deferreds, NEW a \in Settling, NEW z,
         k[d][a] = z,
         \A e \in Deferreds, b \in Settling : e # d \/ b # a => k[e][b] = h[e][b]
  PROVE  IsSet(Mapped(k), Mapped(h), d, a, z)
<1>1. PICK r : r = [Mapped(h)[d] EXCEPT ![a] = z]
  OBVIOUS
<1>2. r = [w \in Settling |-> k[d][w]]
  <2>1. Mapped(h)[d] = [w \in Settling |-> h[d][w]]
    BY MappedFacts
  <2> QED  BY <1>1, <2>1
<1>3. [Mapped(h) EXCEPT ![d][a] = z] = [Mapped(h) EXCEPT ![d] = r]
  BY <1>1
<1>4. \A e \in Deferreds : e # d => Mapped(k)[e] = Mapped(h)[e]
  <2> SUFFICES ASSUME NEW e \in Deferreds, e # d PROVE Mapped(k)[e] = Mapped(h)[e]
    OBVIOUS
  <2>1. \A w \in Settling : k[e][w] = h[e][w]
    OBVIOUS
  <2>2. [w \in Settling |-> k[e][w]] = [w \in Settling |-> h[e][w]]
    BY ONLY <2>1
  <2>3. Mapped(k)[e] = [w \in Settling |-> k[e][w]]
    BY MappedFacts
  <2>4. Mapped(h)[e] = [w \in Settling |-> h[e][w]]
    BY MappedFacts
  <2> QED  BY ONLY <2>2, <2>3, <2>4
<1>5. Mapped(k)[d] = r
  BY <1>2, MappedFacts
<1>6. PICK K, H : K = Mapped(k) /\ H = Mapped(h)
  OBVIOUS
<1>7. K = [e \in Deferreds |-> K[e]] /\ H = [e \in Deferreds |-> H[e]]
  BY <1>6 DEF Mapped
<1>8. /\ \A e \in Deferreds : e # d => K[e] = H[e]
      /\ K[d] = r
  BY <1>4, <1>5, <1>6
<1>9. K = [H EXCEPT ![d] = r]
  BY ONLY <1>7, <1>8, d \in Deferreds
<1> QED
  BY <1>3, <1>6, <1>9 DEF IsSet

LEMMA MappedSame ==
  ASSUME NEW h, NEW k, \A e \in Deferreds, b \in Settling : k[e][b] = h[e][b]
  PROVE  Mapped(k) = Mapped(h)
BY DEF Mapped

LEMMA MappedStutter ==
  UNCHANGED <<state, Mapped(given), Mapped(called)>> => UNCHANGED P!vars
BY DEF P!vars, Mapped

LEMMA PromiseMapping ==
  /\ P!Ways = Settling
  /\ \A d, w : P!Settle(d, w) <=>
       /\ state[d] = "no" /\ state' = [state EXCEPT ![d] = w]
       /\ UNCHANGED <<Mapped(given), Mapped(called)>>
  /\ \A d, as, f : P!Give(d, as, f) <=>
       /\ Mapped(given)' =
            [Mapped(given) EXCEPT ![d] =
               [w \in Settling |-> IF w \in as THEN Append(@[w], f) ELSE @[w]]]
       /\ UNCHANGED <<state, Mapped(called)>>
  /\ \A d, w : P!Call(d, w) <=>
       /\ state[d] = w
       /\ Len(Mapped(called)[d][w]) < Len(Mapped(given)[d][w])
       /\ Mapped(called)' =
            [Mapped(called) EXCEPT ![d][w] =
               Append(@, Mapped(given)[d][w][Len(@) + 1])]
       /\ UNCHANGED <<state, Mapped(given)>>
BY DEF P!Ways, P!vars, P!Settle, P!Give, P!Call, Mapped, Settling

(* Only these three steps change what a promise shows.                     *)
LEMMA SettleRefines ==
  ASSUME DInv, CallSettle
  PROVE  [P!Next]_P!vars
<1>1. PICK d, a, c : d = Top.d /\ a = Top.a /\ c = cb[d][a]
  OBVIOUS
<1>2. UNCHANGED <<given, called>>
  BY DEF CallSettle, history
<1>3. UNCHANGED <<Mapped(given), Mapped(called)>>
  BY <1>2 DEF Mapped
<1>4. /\ a \in Settling /\ TurnsAt(Made, d, state[d], cb[d], a)
      /\ \/ c.firingIndex = 0 /\ Item = Settle(d, a)
         \/ c.firingIndex = 1 /\ Item = Disable(d, Opposite(a))
         \/ c.firingIndex = 2 /\ Item = Lock(d, "notify")
  BY <1>1, CallSettleFacts
<1>5. CASE c.firingIndex = 0 /\ Item = Settle(d, a)
  <2>1. Item.does = "settle" /\ Item.d = d /\ Item.a = a
    BY <1>5 DEF Settle
  <2>2. state' = [state EXCEPT ![d] = a]
    BY <2>1 DEF CallSettle
  <2>3. state[d] = "no"
    <3>1. 0 # 1 /\ 0 # 2
      OBVIOUS
    <3> QED  BY <1>1, <1>4, <1>5, <3>1 DEF TurnsAt, Turning
  <2>4. P!Settle(d, a)
    BY <1>3, <2>2, <2>3, PromiseMapping
  <2>5. d \in Deferreds
    BY <1>1, LoopFacts DEF CallSettle, Looping
  <2> QED  BY <1>4, <2>4, <2>5, PromiseMapping DEF P!Next
<1>6. CASE Item = Disable(d, Opposite(a)) \/ Item = Lock(d, "notify")
  <2>1. Item.does # "settle"
    BY <1>6 DEF Disable, Lock
  <2>2. state' = state
    BY <2>1 DEF CallSettle
  <2> QED  BY <1>3, <2>2, MappedStutter
<1> QED
  BY <1>4, <1>5, <1>6

LEMMA CallRefines ==
  ASSUME DInv, CallUser
  PROVE  [P!Next]_P!vars
<1>1. PICK d, a : d = Top.d /\ a = Top.a
  OBVIOUS
<1>2. UNCHANGED <<state, given>> /\ UNCHANGED Mapped(given)
  BY DEF CallUser, Mapped
<1>3. /\ d \in Deferreds /\ a \in Actions
      /\ a \in Settling =>
           /\ state[d] = a
           /\ Len(called[d][a]) < Len(given[d][a])
           /\ Item.f = given[d][a][Len(called[d][a]) + 1]
  BY <1>1, CallUserFacts
<1>4. called \in [Deferreds -> [Actions -> Seq(Fn \cup Fn \X Nat)]]
  BY DEF DInv, Types
<1>5. CASE a \in Settling
  <2>1. PICK z : z = Append(called[d][a], Item.f)
    OBVIOUS
  <2>2. called' = [called EXCEPT ![d][a] = z]
    BY <1>1, <1>5, <2>1, ActionFacts DEF CallUser
  <2>3. Mapped(called)' = [Mapped(called) EXCEPT ![d][a] = z]
    <3>1. PICK k : k = called'
      OBVIOUS
    <3>2. a \in Actions /\ z \in Seq(Fn \cup Fn \X Nat)
      <4>1. Item.f \in Fn
        BY ItemOther, OtherKinds DEF CallUser
      <4> QED  BY <1>3, <1>4, <2>1, <4>1
    <3>3. /\ k[d][a] = z
          /\ \A e \in Deferreds, b \in Actions :
               e # d \/ b # a => k[e][b] = called[e][b]
      BY ONLY <1>3, <1>4, <2>2, <3>1, <3>2, SetCell
    <3>4. Mapped(k) = [Mapped(called) EXCEPT ![d][a] = z]
      <4>1. \A e \in Deferreds, b \in Settling : e # d \/ b # a => k[e][b] = called[e][b]
        BY <3>3, ActionFacts
      <4>2. d \in Deferreds /\ a \in Settling /\ k[d][a] = z
        BY <1>3, <1>5, <3>3
      <4>3. PICK h : h = called
        OBVIOUS
      <4>4. \A e \in Deferreds, b \in Settling : e # d \/ b # a => k[e][b] = h[e][b]
        BY <4>1, <4>3
      <4>5. IsSet(Mapped(k), Mapped(h), d, a, z)
        BY ONLY <4>2, <4>4, MappedCell
      <4> QED  BY <4>3, <4>5 DEF IsSet
    <3> QED  BY <3>1, <3>4 DEF Mapped
  <2>4. /\ Mapped(called)[d][a] = called[d][a]
        /\ Mapped(given)[d][a] = given[d][a]
    BY <1>3, <1>5, MappedFacts
  <2>5. z = Append(Mapped(called)[d][a],
                   Mapped(given)[d][a][Len(Mapped(called)[d][a]) + 1])
    BY <1>3, <1>5, <2>1, <2>4
  <2>6. P!Call(d, a)
    BY <1>2, <1>3, <1>5, <2>3, <2>4, <2>5, PromiseMapping
  <2> QED  BY <1>3, <1>5, <2>6, PromiseMapping DEF P!Next
<1>6. CASE a \notin Settling
  <2>1. PICK y : called' = [called EXCEPT ![d][a] = y]
    BY <1>1 DEF CallUser
  <2>2. UNCHANGED Mapped(called)
    <3>1. PICK k : k = called'
      OBVIOUS
    <3>2. \A e \in Deferreds, b \in Settling : k[e][b] = called[e][b]
      BY <1>3, <1>4, <1>6, <2>1, <3>1, ActionFacts
    <3>3. Mapped(k) = Mapped(called)
      BY <3>2, MappedSame
    <3> QED  BY <3>1, <3>3 DEF Mapped
  <2> QED  BY <1>2, <2>2, MappedStutter
<1> QED
  BY <1>5, <1>6

LEMMA GiveRefines ==
  ASSUME DInv, NEW d \in Deferreds, NEW f \in Fn, NEW as, AddUser(d, as, f)
  PROVE  [P!Next]_P!vars
<1>1. UNCHANGED <<state, called>> /\ UNCHANGED Mapped(called)
  BY DEF AddUser, lists, Mapped
<1>2. PICK z : z = [a \in Actions |-> IF a \in as THEN Append(given[d][a], f)
                                      ELSE given[d][a]]
  OBVIOUS
<1>3. given' = [given EXCEPT ![d] = z]
  BY <1>2 DEF AddUser
<1>4. given \in [Deferreds -> [Actions -> Seq(Fn)]]
  BY DEF DInv, Types
<1>5. PICK y : y = [w \in Settling |-> IF w \in as \cap Settling
                                       THEN Append(Mapped(given)[d][w], f)
                                       ELSE Mapped(given)[d][w]]
  OBVIOUS
<1>6. y = [w \in Settling |-> z[w]]
  <2>1. \A w \in Settling : w \in Actions
    BY ActionFacts
  <2>3. \A w \in Settling : Mapped(given)[d][w] = given[d][w]
    BY MappedFacts
  <2>2. \A w \in Settling : z[w] = IF w \in as \cap Settling
                                    THEN Append(Mapped(given)[d][w], f)
                                    ELSE Mapped(given)[d][w]
    BY <1>2, <2>1, <2>3
  <2> QED  BY <1>5, <2>2
<1>7. Mapped(given)' = [Mapped(given) EXCEPT ![d] = y]
  BY <1>3, <1>4, <1>6 DEF Mapped
<1>8. P!Give(d, as \cap Settling, f)
  <2>1. PICK s : s = as \cap Settling
    OBVIOUS
  <2>2. Mapped(given)' =
          [Mapped(given) EXCEPT ![d] =
             [w \in Settling |-> IF w \in s THEN Append(@[w], f) ELSE @[w]]]
    <3>1. y = [w \in Settling |-> IF w \in s THEN Append(Mapped(given)[d][w], f)
                                            ELSE Mapped(given)[d][w]]
      BY <1>5, <2>1
    <3> QED  BY <1>7, <3>1
  <2>3. P!Give(d, s, f)
    BY <1>1, <2>2, PromiseMapping
  <2> QED  BY <2>1, <2>3
<1> QED
  BY <1>8, PromiseMapping DEF P!Next

(* However its lists are fired and changed from within each other, and     *)
(* whatever is thrown: a deferred is settled once, in one of two ways, and *)
(* calls each function it was given for that way once, in the order in     *)
(* which it was given them.                                                *)
THEOREM DeferredIsPromise == Spec => IsPromise
<1>1. Init => P!Init
  <2> SUFFICES ASSUME Init PROVE P!Init
    OBVIOUS
  <2>1. /\ state = [d \in Deferreds |-> "no"]
        /\ given = [d \in Deferreds |-> [a \in Actions |-> <<>>]]
        /\ called = [d \in Deferreds |-> [a \in Actions |-> <<>>]]
    BY DEF Init, EachList
  <2>2. /\ [d \in Deferreds |-> [w \in Settling |-> given[d][w]]]
           = [d \in Deferreds |-> [w \in Settling |-> <<>>]]
        /\ [d \in Deferreds |-> [w \in Settling |-> called[d][w]]]
           = [d \in Deferreds |-> [w \in Settling |-> <<>>]]
    BY <2>1, ActionFacts
  <2> QED  BY <2>1, <2>2 DEF P!Init, P!Ways, Settling
<1>2. DInv /\ [Next]_vars => [P!Next]_P!vars
  <2> SUFFICES ASSUME DInv, [Next]_vars PROVE [P!Next]_P!vars
    OBVIOUS
  <2>1. ASSUME UNCHANGED <<state, given, called>> PROVE UNCHANGED P!vars
    <3>1. UNCHANGED <<state, Mapped(given), Mapped(called)>>
      BY <2>1 DEF Mapped
    <3> QED  BY <3>1, MappedStutter
  <2>2. CASE LibraryStep
    <3>1. CASE CallForward \/ CallFilter \/ CallCount \/ EndLoop \/ CallLibrary
      <4>1. UNCHANGED <<state, given, called>>
        BY <3>1 DEF CallForward, CallFilter, CallCount, EndLoop, CallLibrary, history
      <4> QED  BY <2>1, <4>1
    <3> QED  BY <2>2, <3>1, SettleRefines, CallRefines DEF LibraryStep
  <2>3. CASE UserStep
    <3>1. ASSUME \/ \E d \in Deferreds : MakeDeferred(d)
                 \/ \E d \in Deferreds, a \in Actions : Act(d, a)
                 \/ \E d, n \in Deferreds, a \in Actions, f \in Fn \cup {Off} :
                      Then(d, n, a, f)
                 \/ \E d, n \in Deferreds, e \in Deferreds \cup {Off} : When(d, e, n)
                 \/ Return \/ ReturnValue \/ Throw
                 \/ \E p \in Deferreds : ReturnPromise(p)
          PROVE  [P!Next]_P!vars
      <4>1. UNCHANGED <<state, given, called>>
        BY <3>1, ZenonT(30) DEF MakeDeferred, Act, Then, When, Return, ReturnValue, Throw,
                    ReturnPromise, lists, history
      <4> QED  BY <2>1, <4>1
    <3>2. ASSUME NEW d \in Deferreds, NEW f \in Fn,
                 \/ \E a \in Actions : AddUser(d, {a}, f)
                 \/ AddUser(d, Settling, f)
          PROVE  [P!Next]_P!vars
      BY <3>2, GiveRefines
    <3> QED  BY <2>3, <3>1, <3>2 DEF UserStep
  <2>4. CASE UNCHANGED vars
    BY <2>1, <2>4 DEF vars, lists, history
  <2> QED  BY <2>2, <2>3, <2>4 DEF Next
<1> QED
  BY <1>1, <1>2, ListsAreInOrder, PTL DEF Spec, IsPromise, P!Spec
=============================================================================
