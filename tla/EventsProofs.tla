---------------------------- MODULE EventsProofs ----------------------------
(***************************************************************************)
(* Theorems about Events, for branches of any depth, any types of events   *)
(* and functions, and any number of deeds: the inductive invariant IInv,   *)
(* of the data and of the stack; then the facts about lists, what the      *)
(* operations on the data keep, one lemma for each action, and at the end  *)
(* what follows of it.                                                     *)
(***************************************************************************)
EXTENDS Events, FiniteSetTheorems, SequenceTheorems, TLAPS

DataTypes(d) ==
  d \in [id : [Elements -> 0 .. Depth], cache : [Elements -> Entries \cup {Off}],
         deleted : Seq(Elements), guid : 1 .. Depth + 1,
         listens : [Elements -> SUBSET Types], attaches : Int]

(* An identifier that was given belongs to one element, which has data     *)
(* then, or it is on the list of the deleted, once.                        *)
IdsFit(d) ==
  /\ \A e, f \in Elements : d.id[e] = d.id[f] /\ d.id[e] # 0 => e = f
  /\ \A j, k \in DOMAIN d.deleted : d.deleted[j] = d.deleted[k] => j = k
  /\ \A e \in Elements : d.id[e] # 0 =>
       /\ d.id[e] < d.guid /\ d.cache[d.id[e]] # Off
       /\ \A k \in DOMAIN d.deleted : d.deleted[k] # d.id[e]
  /\ \A k \in DOMAIN d.deleted : d.deleted[k] < d.guid
  /\ \A i \in Elements : i < d.guid =>
       \/ \E e \in Elements : d.id[e] = i
       \/ \E k \in DOMAIN d.deleted : d.deleted[k] = i
  /\ \A i \in Elements : d.cache[i] # Off => \E e \in Elements : d.id[e] = i

(* There is a handle as long as there are handlers, and an entry as long   *)
(* as there is something in it.                                            *)
EntryFits(c) ==
  LET some == \E t \in Types : c.events[t] # <<>>
  IN  (c.handle <=> some) /\ (c.public \/ some)
EntriesFit(d) ==
  \A i \in Elements : d.cache[i] # Off => EntryFits(d.cache[i])

(* The handlers of all elements; of `b' that were bound, each is there     *)
(* once at most, and delegates are in front.                               *)
Table(d) == [e \in Elements |-> [t \in Types |-> Handlers(d, e, t)]]
Tables == [Elements -> [Types -> Seq(Handler)]]

InOrder(list) ==
  \A j, k \in DOMAIN list : j < k /\ list[k].sel => list[j].sel
TableFits(T, b) ==
  /\ \A e \in Elements, t \in Types :
       /\ \A k \in DOMAIN T[e][t] : T[e][t][k].type = t /\ T[e][t][k].n <= b
       /\ InOrder(T[e][t])
  /\ \A e, f \in Elements, t, u \in Types :
       \A j \in DOMAIN T[e][t], k \in DOMAIN T[f][u] :
         T[e][t][j].n = T[f][u][k].n => e = f /\ t = u /\ j = k

(* The browser calls who has handlers.                                     *)
Wanting(T) == {e \in Elements : "focusin" \in Types /\ T[e]["focusin"] # <<>>}
ListensFit(T, listens, attaches) ==
  /\ \A e \in Elements :
       listens[e] = {t \in Types \ {"focusin"} : T[e][t] # <<>>}
  /\ attaches = Cardinality(Wanting(T))

CoreInv(d, b) ==
  DataTypes(d) /\ IdsFit(d) /\ EntriesFit(d) /\ TableFits(Table(d), b)
DataInv(d, b) == CoreInv(d, b) /\ ListensFit(Table(d), d.listens, d.attaches)

(* A handler is bound to an element.                                       *)
Bound(T, e, h) == \E t \in Types : \E k \in DOMAIN T[e][t] : h = T[e][t][k]

-----------------------------------------------------------------------------
(* The stack.                                                              *)
Frames ==
  [runs : {"native"}, v : 1 .. MaxDeeds, type : Types, target : Elements,
   at : 1 .. Depth + 1, stopped : BOOLEAN]
  \cup [runs : {"trigger"}, v : 1 .. MaxDeeds, type : Types, target : Elements,
        at : 1 .. Depth + 1, spaced : BOOLEAN, stopped : BOOLEAN,
        prevented : BOOLEAN]
  \cup [runs : {"default"}]
  \cup [runs : {"dispatch"}, v : 1 .. MaxDeeds, type : Types, target : Elements,
        at : Elements, rest : Seq(Handler), group : BOOLEAN \cup {Off},
        spaced : BOOLEAN, stopped : BOOLEAN, immediate : BOOLEAN,
        prevented : BOOLEAN, had : SUBSET (1 .. MaxDeeds), since : 0 .. MaxDeeds]
  \cup [runs : {"body"}, h : Handler]
  \cup [runs : {"clean"}, at : Elements]

Tells(x) == x.runs \in {"native", "trigger"}

(* What may stand on what.                                                 *)
Stands(x, y) ==
  \/ /\ x.runs = "dispatch" /\ Tells(y)
     /\ x.v = y.v /\ x.type = y.type /\ y.at = x.at + 1 /\ ~y.stopped
  \/ x.runs = "body" /\ y.runs = "dispatch" /\ x.h.sel = y.group
  \/ x.runs \in {"trigger", "default", "clean"} /\ y.runs = "body"
  \/ x.runs = "native" /\ y.runs = "default"

Stacked(s) ==
  /\ s \in Seq(Frames)
  /\ \A i \in DOMAIN s : i + 1 \in DOMAIN s => Stands(s[i], s[i + 1])
  /\ s # <<>> => s[Len(s)].runs \in {"trigger", "default", "clean", "native"}
  /\ \A i, j \in DOMAIN s : Tells(s[i]) /\ Tells(s[j]) /\ s[i].v = s[j].v => i = j

(* The second event of a trigger() is told to nobody.                      *)
Defaults(s, tr) ==
  \A i \in DOMAIN s : s[i].runs = "default" =>
    /\ tr = "click"
    /\ i = 1 \/ (i = 2 /\ s[1].type = "click")

Retold(s, i) == i + 1 \in DOMAIN s /\ s[i + 1].runs = "default"

(* From here on T is the table, tm the times, b and ev how many handlers   *)
(* were bound and how many events there were.  A handler is called once    *)
(* for an event at most.                                                   *)
TimesFit(tm, b, ev) ==
  /\ tm \in [1 .. MaxDeeds -> [1 .. MaxDeeds -> 0 .. 1]]
  /\ \A v, n \in 1 .. MaxDeeds : tm[v][n] # 0 => v <= ev /\ n <= b

(* An event has called nothing yet of what it is still to come to.         *)
TellInv(x, T, tm, ev) ==
  /\ x.v <= ev
  /\ \A e \in Elements, h \in Handler :
       x.at <= e /\ Bound(T, e, h) => tm[x.v][h.n] = 0
TellsFit(s, T, tm, ev) ==
  \A i \in DOMAIN s : Tells(s[i]) /\ ~Retold(s, i) => TellInv(s[i], T, tm, ev)

(* What dispatch() is still to call was not called yet for this event, and *)
(* is bound nowhere else; what it has noted is called or still to be.      *)
DispatchInv(x, T, tm, b) ==
  /\ \A k \in DOMAIN x.rest :
       /\ x.rest[k].type = x.type /\ x.rest[k].n <= x.since
       /\ tm[x.v][x.rest[k].n] = 0
  /\ \A j, k \in DOMAIN x.rest : x.rest[j].n = x.rest[k].n => j = k
  /\ \A e \in Elements, h \in Handler, k \in DOMAIN x.rest :
       Bound(T, e, h) /\ h.n = x.rest[k].n => e = x.at /\ h = x.rest[k]
  /\ x.since <= b
  /\ x.immediate => x.stopped
  /\ ~x.stopped /\ ~x.spaced =>
       \A n \in x.had : tm[x.v][n] = 1 \/ \E k \in DOMAIN x.rest : x.rest[k].n = n
  /\ \A n \in 1 .. MaxDeeds : n > x.since => tm[x.v][n] = 0
RestsFit(s, T, tm, b) ==
  \A i \in DOMAIN s : s[i].runs = "dispatch" => DispatchInv(s[i], T, tm, b)

(* Two that are dispatched hold the same when they hold the same number.   *)
Agree(x, y) ==
  \A k \in DOMAIN x.rest, l \in DOMAIN y.rest :
    x.rest[k].n = y.rest[l].n => x.rest[k] = y.rest[l]
RestsAgree(s) ==
  \A i, j \in DOMAIN s :
    s[i].runs = "dispatch" /\ s[j].runs = "dispatch" => Agree(s[i], s[j])

(* Without an event within one of its type, what was called for one() is   *)
(* neither bound nor still to be called.                                   *)
SpentFit(T, sp, ne, b) ==
  /\ sp \in [1 .. MaxDeeds -> Nat] /\ ne \in BOOLEAN
  /\ \A n \in 1 .. MaxDeeds : sp[n] # 0 => n <= b
  /\ ~ne => /\ \A n \in 1 .. MaxDeeds : sp[n] <= 1
            /\ \A e \in Elements, h \in Handler : Bound(T, e, h) => sp[h.n] = 0

Unspent(x, sp) == \A k \in DOMAIN x.rest : sp[x.rest[k].n] = 0
OneInv(s, sp, ne) ==
  ~ne => /\ \A i \in DOMAIN s : s[i].runs = "dispatch" => Unspent(s[i], sp)
         /\ \A i, j \in DOMAIN s :
              Tells(s[i]) /\ s[j].runs = "dispatch" /\ s[i].type = s[j].type => i = j + 1

(* An event that was stopped is where it was stopped, or goes no further.  *)
HaltedTypes(ha, ev) ==
  /\ ha \in [1 .. MaxDeeds -> (Elements \X BOOLEAN) \cup {Off}]
  /\ \A v \in 1 .. MaxDeeds : ha[v] # Off => v <= ev
HaltedAt(s, i, ha) ==
  Tells(s[i]) /\ ~Retold(s, i) /\ ha[s[i].v] # Off =>
    \/ s[i].stopped
    \/ /\ i > 1 /\ s[i - 1].stopped
       /\ ha[s[i].v] = <<s[i - 1].at, s[i - 1].group>>
HaltedFit(s, ha, ev) == HaltedTypes(ha, ev) /\ \A i \in DOMAIN s : HaltedAt(s, i, ha)

StackInv(s, T, tr, b, ev, tm, sp, ne) ==
  /\ Stacked(s) /\ Defaults(s, tr)
  /\ TellsFit(s, T, tm, ev) /\ RestsFit(s, T, tm, b) /\ RestsAgree(s)
  /\ OneInv(s, sp, ne)

IInv ==
  /\ bound \in 0 .. MaxDeeds /\ events \in 0 .. MaxDeeds
  /\ triggered \in {Off, "click"}
  /\ DataInv(data, bound)
  /\ TimesFit(times, bound, events) /\ SpentFit(Table(data), spent, nested, bound)
  /\ StackInv(calls, Table(data), triggered, bound, events, times, spent, nested)
  /\ HaltedFit(calls, halted, events)

-----------------------------------------------------------------------------
(* The lists.                                                              *)

(* The elements of a finite set of numbers in their order: for each number *)
(* below its size there is one with so many before it.                     *)
Before(places, i) == Cardinality({j \in places : j < i})

LEMMA PlacesFinite ==
  ASSUME NEW n \in Nat, NEW places \in SUBSET (1 .. n)
  PROVE  IsFiniteSet(places) /\ Cardinality(places) \in Nat
<1>1. IsFiniteSet(1 .. n)
  <2>1. 1 \in Int /\ n \in Int
    OBVIOUS
  <2> QED  BY <2>1, FS_Interval
<1> QED
  BY <1>1, FS_Subset, FS_CardinalityType

LEMMA BeforeGrows ==
  ASSUME NEW n \in Nat, NEW places \in SUBSET (1 .. n),
         NEW i \in places
  PROVE  /\ Before(places, i) \in 0 .. Cardinality(places) - 1
         /\ \A l \in places : i < l => Before(places, i) < Before(places, l)
<1> DEFINE P(l) == {j \in places : j < l}
<1>1. \A l : IsFiniteSet(P(l)) /\ Cardinality(P(l)) \in Nat
  BY PlacesFinite
<1>2. ASSUME NEW T \in SUBSET places, P(i) \subseteq T, i \in T
      PROVE  Cardinality(P(i)) < Cardinality(T)
  <2>1. IsFiniteSet(T) /\ Cardinality(T) \in Nat
    BY PlacesFinite
  <2>2. P(i) \in SUBSET T /\ P(i) # T
    BY <1>2
  <2>3. Cardinality(P(i)) <= Cardinality(T) /\ Cardinality(T) # Cardinality(P(i))
    BY <2>1, <2>2, FS_Subset
  <2> QED  BY <1>1, <2>1, <2>3
<1>3. Cardinality(P(i)) < Cardinality(places)
  BY <1>2
<1>4. ASSUME NEW l \in places, i < l
      PROVE  Cardinality(P(i)) < Cardinality(P(l))
  <2>1. P(l) \in SUBSET places /\ i \in P(l)
    BY <1>4
  <2>2. P(i) \subseteq P(l)
    <3>1. i \in Nat /\ l \in Nat /\ \A j \in places : j \in Nat
      OBVIOUS
    <3>2. \A j \in places : j < i => j < l
      BY <3>1, <1>4
    <3> QED  BY <3>2
  <2> QED  BY <1>2, <2>1, <2>2
<1> QED
  BY <1>1, <1>3, <1>4, PlacesFinite DEF Before

LEMMA BeforeIsAny ==
  ASSUME NEW n \in Nat, NEW places \in SUBSET (1 .. n),
         NEW k \in 1 .. Cardinality(places)
  PROVE  \E i \in places : Before(places, i) = k - 1
<1> DEFINE c == Cardinality(places)
           T == 0 .. c - 1
           f == [i \in places |-> Before(places, i)]
<1>1. c \in Nat /\ IsFiniteSet(places)
  BY PlacesFinite
<1>2. IsFiniteSet(T) /\ Cardinality(T) = c
  <2>1. 0 \in Int /\ c - 1 \in Int
    BY <1>1
  <2> QED  BY <1>1, <2>1, FS_Interval
<1>0. \A i \in places :
        /\ Before(places, i) \in T
        /\ \A l \in places : i < l => Before(places, i) < Before(places, l)
  BY BeforeGrows
<1>3. f \in [places -> T]
  BY <1>0
<1>4. \A i, l \in places : f[i] = f[l] => i = l
  <2> SUFFICES ASSUME NEW i \in places, NEW l \in places, f[i] = f[l], i # l
               PROVE  FALSE
    OBVIOUS
  <2>0. i \in Nat /\ l \in Nat
    OBVIOUS
  <2>1. i < l \/ l < i
    BY <2>0
  <2>2. /\ Before(places, i) \in Int /\ Before(places, l) \in Int
        /\ \/ Before(places, i) < Before(places, l)
           \/ Before(places, l) < Before(places, i)
    BY <1>0, <1>1, <2>1
  <2> QED  BY <2>2
<1>5. f \in Injection(places, T)
  BY <1>3, <1>4 DEF Injection, IsInjective
<1>6. f \in Surjection(places, T)
  BY <1>1, <1>2, <1>5, FS_Injection
<1>7. k - 1 \in T
  BY <1>1
<1> QED
  BY <1>6, <1>7 DEF Surjection

(* What is left of a list is a part of it, in its order.                   *)
Part(s, list) ==
  /\ \A k \in DOMAIN s : \E i \in DOMAIN list : s[k] = list[i]
  /\ \A j, k \in DOMAIN s : j < k =>
       \E i, l \in DOMAIN list : i < l /\ s[j] = list[i] /\ s[k] = list[l]

LEMMA KeptFacts ==
  ASSUME NEW S, NEW list \in Seq(S), NEW gone
  PROVE  /\ Kept(list, gone) \in Seq(S) /\ Part(Kept(list, gone), list)
         /\ \A k \in DOMAIN Kept(list, gone) : Kept(list, gone)[k] \notin gone
         /\ (\A i \in DOMAIN list : list[i] \in gone) => Kept(list, gone) = <<>>
<1> DEFINE places == {i \in DOMAIN list : list[i] \notin gone}
           c == Cardinality(places)
           at(k) == CHOOSE i \in places : Before(places, i) = k - 1
           s == Kept(list, gone)
<1>1. places \in SUBSET (1 .. Len(list)) /\ Len(list) \in Nat
  OBVIOUS
<1>2. c \in Nat
  BY <1>1, PlacesFinite
<1>3. s = [k \in 1 .. c |-> list[at(k)]]
  BY DEF Kept, Before
<1>4. \A k \in 1 .. c : at(k) \in places /\ Before(places, at(k)) = k - 1
  BY <1>1, BeforeIsAny
<1>5. \A j, k \in 1 .. c : j < k => at(j) < at(k)
  <2> SUFFICES ASSUME NEW j \in 1 .. c, NEW k \in 1 .. c, j < k, ~(at(j) < at(k))
               PROVE  FALSE
    OBVIOUS
  <2>1. at(j) \in places /\ at(k) \in places
    BY <1>4
  <2> PICK p \in places, q \in places : p = at(j) /\ q = at(k)
    BY <2>1
  <2>2. q = p \/ q < p
    <3>1. \A x \in places : x \in Nat
      BY ONLY <1>1
    <3>2. p \in Nat /\ q \in Nat
      BY <3>1
    <3>3. ~(p < q)
      BY <2>1
    <3> QED  BY ONLY <3>2, <3>3
  <2>3. Before(places, p) = j - 1 /\ Before(places, q) = k - 1
    BY <1>4
  <2>4. q < p => Before(places, q) < Before(places, p)
    BY <1>1, BeforeGrows
  <2> QED  BY <2>2, <2>3, <2>4
<1> HIDE DEF at, c, s
<1>6. /\ s \in Seq(S) /\ DOMAIN s = 1 .. c
      /\ \A k \in 1 .. c : s[k] = list[at(k)] /\ at(k) \in DOMAIN list
                           /\ list[at(k)] \notin gone
  <2>1. ASSUME NEW k \in 1 .. c
        PROVE  /\ at(k) \in DOMAIN list /\ list[at(k)] \notin gone
               /\ list[at(k)] \in S
    <3>1. at(k) \in places
      BY <1>4
    <3>2. at(k) \in DOMAIN list /\ list[at(k)] \notin gone
      BY <3>1
    <3> QED  BY <3>2
  <2> QED  BY <1>2, <1>3, <2>1
<1>7. Part(s, list)
  BY <1>5, <1>6 DEF Part
<1>8. (\A i \in DOMAIN list : list[i] \in gone) => s = <<>>
  <2> SUFFICES ASSUME \A i \in DOMAIN list : list[i] \in gone PROVE s = <<>>
    OBVIOUS
  <2>1. places = {}
    OBVIOUS
  <2>2. c = 0
    BY <2>1, FS_EmptySet DEF c
  <2> QED  BY <1>6, <2>2
<1> QED
  BY <1>6, <1>7, <1>8 DEF s

(* The delegates of a list in order are its first elements.                *)
LEMMA DelegatesFacts ==
  ASSUME NEW list \in Seq(Handler), InOrder(list)
  PROVE  /\ Delegates(list) \in 0 .. Len(list)
         /\ \A k \in DOMAIN list : list[k].sel <=> k <= Delegates(list)
<1> DEFINE S == {k \in DOMAIN list : list[k].sel}
           c == Cardinality(S)
<1>1. Len(list) \in Nat /\ DOMAIN list = 1 .. Len(list)
      /\ S \in SUBSET (1 .. Len(list))
  OBVIOUS
<1>2. c \in Nat /\ IsFiniteSet(S)
  BY <1>1, PlacesFinite
<1>3. c <= Len(list)
  <2>1. Cardinality(1 .. Len(list)) = Len(list) /\ IsFiniteSet(1 .. Len(list))
    BY <1>1, FS_Interval
  <2> QED  BY <1>1, <2>1, FS_Subset
<1>4. ASSUME NEW k \in S PROVE k <= c
  <2>1. 1 .. k \subseteq S
    BY <1>1 DEF InOrder
  <2>2. Cardinality(1 .. k) = k
    BY <1>1, FS_Interval
  <2> QED  BY <1>2, <2>1, <2>2, FS_Subset
<1>5. S = 1 .. c
  <2>1. S \subseteq 1 .. c
    BY <1>1, <1>4
  <2>2. IsFiniteSet(1 .. c) /\ Cardinality(1 .. c) = c
    BY <1>2, FS_Interval
  <2> QED  BY <2>1, <2>2, FS_Subset
<1>6. Delegates(list) = c
  BY DEF Delegates
<1> HIDE DEF c
<1>7. \A k \in DOMAIN list : list[k].sel <=> k <= c
  <2> TAKE k \in DOMAIN list
  <2>1. list[k].sel <=> k \in S
    OBVIOUS
  <2> QED  BY <1>1, <1>2, <1>5, <2>1
<1> QED
  BY <1>1, <1>2, <1>3, <1>6, <1>7

(* A handler that is inserted in its place.                                *)
LEMMA InsertFacts ==
  ASSUME NEW list \in Seq(Handler), NEW i \in 1 .. Len(list) + 1, NEW h \in Handler
  PROVE  LET s == InsertAt(list, i, h)
         IN  /\ s \in Seq(Handler) /\ Len(s) = Len(list) + 1 /\ s[i] = h
             /\ \A k \in 1 .. i - 1 : s[k] = list[k]
             /\ \A k \in i + 1 .. Len(list) + 1 : s[k] = list[k - 1]
<1> DEFINE a == SubSeq(list, 1, i - 1)
           b == SubSeq(list, i, Len(list))
<1>1. Len(list) \in Nat /\ \A k \in 1 .. Len(list) : list[k] \in Handler
  OBVIOUS
<1>2. /\ a \in Seq(Handler) /\ Len(a) = i - 1
      /\ \A k \in 1 .. i - 1 : a[k] = list[k]
  <2>1. 1 \in Int /\ i - 1 \in Int /\ \A k \in 1 .. i - 1 : list[k] \in Handler
    BY <1>1
  <2>2. /\ a \in Seq(Handler) /\ Len(a) = IF 1 <= i - 1 THEN i - 1 - 1 + 1 ELSE 0
        /\ \A k \in 1 .. i - 1 - 1 + 1 : a[k] = list[1 + k - 1]
    BY <2>1, SubSeqProperties
  <2> QED  BY <1>1, <2>2
<1>3. /\ b \in Seq(Handler) /\ Len(b) = Len(list) + 1 - i
      /\ \A k \in 1 .. Len(list) + 1 - i : b[k] = list[i + k - 1]
  <2>1. i \in Int /\ Len(list) \in Int /\ \A k \in i .. Len(list) : list[k] \in Handler
    BY <1>1
  <2>2. /\ b \in Seq(Handler)
        /\ Len(b) = IF i <= Len(list) THEN Len(list) - i + 1 ELSE 0
        /\ \A k \in 1 .. Len(list) - i + 1 : b[k] = list[i + k - 1]
    BY <2>1, SubSeqProperties
  <2> QED  BY <1>1, <2>2
<1>4. InsertAt(list, i, h) = a \o <<h>> \o b
  BY DEF InsertAt
<1> HIDE DEF a, b
<1> DEFINE s == a \o <<h>> \o b
<1>5. s \in Seq(Handler) /\ Len(s) = Len(list) + 1
  BY <1>1, <1>2, <1>3
<1>6. \A k \in 1 .. i - 1 : s[k] = list[k]
  BY <1>1, <1>2, <1>3
<1>7. s[i] = h
  BY <1>1, <1>2, <1>3
<1>8. \A k \in i + 1 .. Len(list) + 1 : s[k] = list[k - 1]
  <2> TAKE k \in i + 1 .. Len(list) + 1
  <2>1. k - i \in 1 .. Len(list) + 1 - i /\ s[k] = b[k - i]
    <3>1. /\ k - i \in 1 .. Len(list) + 1 - i
          /\ k \in Nat /\ k - i = k - (i - 1 + 1) /\ k > i - 1 + 1 /\ i - 1 + 1 = i
      BY <1>1
    <3>2. /\ a \o <<h>> \in Seq(Handler) /\ Len(a \o <<h>>) = i /\ b \in Seq(Handler)
          /\ k <= i + Len(b)
      BY <1>1, <1>2, <1>3
    <3>3. s[k] = b[k - Len(a \o <<h>>)]
      BY <3>1, <3>2
    <3> QED  BY <3>1, <3>2, <3>3
  <2>2. b[k - i] = list[i + (k - i) - 1]
    BY <1>3, <2>1
  <2>3. i + (k - i) - 1 = k - 1
    OBVIOUS
  <2> QED  BY <2>1, <2>2, <2>3
<1> HIDE DEF s
<1> QED
  BY <1>4, <1>5, <1>6, <1>7, <1>8 DEF s

-----------------------------------------------------------------------------
(* The data.                                                               *)

LEMMA Consts ==
  /\ Depth \in Nat \ {0} /\ MaxDeeds \in Nat /\ 0 \notin Elements
  /\ \A i : i \in 0 .. Depth /\ i # 0 => i \in Elements
  /\ \A i \in Elements : i \in Nat /\ i \in 0 .. Depth
  /\ IsFiniteSet(Elements) /\ Cardinality(Elements) = Depth
  /\ WithPublic \subseteq Elements
  /\ Off \notin Entries
<1>1. Depth \in Nat \ {0} /\ MaxDeeds \in Nat /\ WithPublic \subseteq Elements
      /\ Off \notin Entries
  BY EventsAssumption DEF EventsAssumption
<1>2. IsFiniteSet(1 .. Depth) /\ Cardinality(1 .. Depth) = Depth
  <2>1. 1 \in Int /\ Depth \in Int /\ ~(1 > Depth)
    BY <1>1
  <2> QED  BY <2>1, FS_Interval
<1> QED
  BY <1>1, <1>2 DEF Elements

LEMMA NoEntryFacts ==
  /\ NoEntry \in Entries /\ NoEntry # Off
  /\ NoEntry.events = NoEvents /\ NoEvents \in [Types -> Seq(Handler)]
  /\ \A t \in Types : NoEvents[t] = <<>>
  /\ \A c \in Entries : c.handle = FALSE /\ c.public = FALSE
                        /\ (\A t \in Types : c.events[t] = <<>>) => c = NoEntry
<1>1. NoEvents \in [Types -> Seq(Handler)] /\ \A t \in Types : NoEvents[t] = <<>>
  BY DEF NoEvents
<1>2. NoEntry \in Entries /\ NoEntry.events = NoEvents
  BY <1>1 DEF NoEntry, Entries
<1>3. ASSUME NEW c \in Entries, c.handle = FALSE, c.public = FALSE,
             \A t \in Types : c.events[t] = <<>>
      PROVE  c = NoEntry
  <2>1. c.events \in [Types -> Seq(Handler)]
    BY DEF Entries
  <2>2. c.events = NoEvents
    BY <1>1, <1>3, <2>1
  <2>3. c = [events |-> c.events, handle |-> c.handle, public |-> c.public]
    BY DEF Entries
  <2> QED  BY <1>3, <2>2, <2>3 DEF NoEntry
<1> QED
  BY <1>1, <1>2, <1>3, Consts

(* The handlers in the table.                                              *)
LEMMA EntryTypes ==
  ASSUME NEW d, DataTypes(d), NEW i \in Elements, d.cache[i] # Off
  PROVE  d.cache[i] \in Entries /\ d.cache[i].events \in [Types -> Seq(Handler)]
<1>1. d.cache[i] \in Entries
  BY DEF DataTypes
<1> QED
  BY <1>1 DEF Entries

LEMMA TableFacts ==
  ASSUME NEW d, DataTypes(d)
  PROVE  /\ Table(d) \in Tables
         /\ \A e \in Elements, t \in Types : Table(d)[e][t] = Handlers(d, e, t)
         /\ \A e \in Elements :
              /\ HasData(d, e) => d.id[e] \in Elements
                                  /\ Table(d)[e] = d.cache[d.id[e]].events
              /\ ~HasData(d, e) => Table(d)[e] = NoEvents
<1>1. ASSUME NEW e \in Elements, HasData(d, e)
      PROVE  /\ d.id[e] \in Elements
             /\ d.cache[d.id[e]].events \in [Types -> Seq(Handler)]
  <2>1. d.id[e] \in 0 .. Depth /\ d.id[e] # 0 /\ d.cache[d.id[e]] # Off
    BY <1>1 DEF DataTypes, HasData
  <2> QED  BY <2>1, Consts, EntryTypes
<1>2. ASSUME NEW e \in Elements
      PROVE  /\ HasData(d, e) => Table(d)[e] = d.cache[d.id[e]].events
             /\ ~HasData(d, e) => Table(d)[e] = NoEvents
             /\ Table(d)[e] \in [Types -> Seq(Handler)]
  <2>1. Table(d)[e] = [t \in Types |-> Handlers(d, e, t)]
    BY DEF Table
  <2>2. CASE HasData(d, e)
    BY <2>1, <2>2, <1>1 DEF Handlers
  <2>3. CASE ~HasData(d, e)
    BY <2>1, <2>3, NoEntryFacts DEF Handlers, NoEvents
  <2> QED  BY <2>2, <2>3
<1>3. Table(d) \in Tables
  BY <1>2 DEF Table, Tables
<1> QED
  BY <1>1, <1>2, <1>3 DEF Table

LEMMA TableRow ==
  ASSUME NEW d, DataTypes(d), NEW e \in Elements
  PROVE  Table(d)[e] = IF HasData(d, e) THEN d.cache[d.id[e]].events ELSE NoEvents
BY TableFacts

(* A table with one row changed.                                           *)
LEMMA Row ==
  ASSUME NEW d, DataTypes(d), NEW c, DataTypes(c), NEW e \in Elements, NEW r,
         Table(c)[e] = r,
         \A f \in Elements \ {e} : Table(c)[f] = Table(d)[f]
  PROVE  Table(c) = [Table(d) EXCEPT ![e] = r]
BY TableFacts DEF Tables

LEMMA SameTable ==
  ASSUME NEW d, NEW c, c.id = d.id, c.cache = d.cache
  PROVE  Table(c) = Table(d)
BY DEF Table, Handlers, HasData

(* A new value of the data, field by field.                                *)
Data(id, cache, deleted, guid, listens, attaches) ==
  [id |-> id, cache |-> cache, deleted |-> deleted, guid |-> guid,
   listens |-> listens, attaches |-> attaches]

LEMMA DataFields ==
  ASSUME NEW d, DataTypes(d)
  PROVE  /\ d = Data(d.id, d.cache, d.deleted, d.guid, d.listens, d.attaches)
         /\ d.id \in [Elements -> 0 .. Depth]
         /\ d.cache \in [Elements -> Entries \cup {Off}]
         /\ d.deleted \in Seq(Elements) /\ d.guid \in 1 .. Depth + 1
         /\ d.listens \in [Elements -> SUBSET Types] /\ d.attaches \in Int
BY DEF DataTypes, Data

LEMMA DataIs ==
  ASSUME NEW id \in [Elements -> 0 .. Depth],
         NEW cache \in [Elements -> Entries \cup {Off}],
         NEW deleted \in Seq(Elements), NEW guid \in 1 .. Depth + 1,
         NEW listens \in [Elements -> SUBSET Types], NEW attaches \in Int,
         NEW d, d = Data(id, cache, deleted, guid, listens, attaches)
  PROVE  /\ DataTypes(d)
         /\ d.id = id /\ d.cache = cache /\ d.deleted = deleted
         /\ d.guid = guid /\ d.listens = listens /\ d.attaches = attaches
BY DEF DataTypes, Data

(* The identifiers that are in use leave one for an element without.       *)
LEMMA RoomForOne ==
  ASSUME NEW d, DataTypes(d), IdsFit(d), NEW e \in Elements, d.id[e] = 0,
         d.deleted = <<>>
  PROVE  d.guid \in Elements
<1> DEFINE S == Elements \ {e}
           T == {d.id[f] : f \in S}
<1>1. d.guid \in 1 .. Depth + 1 /\ d.id \in [Elements -> 0 .. Depth]
  BY DataFields
<1>2. 1 .. d.guid - 1 \subseteq T
  <2> SUFFICES ASSUME NEW i \in 1 .. d.guid - 1 PROVE i \in T
    OBVIOUS
  <2>1. i \in Elements /\ i < d.guid /\ i # 0
    BY <1>1, Consts DEF Elements
  <2>2. ~(\E k \in DOMAIN d.deleted : d.deleted[k] = i)
    OBVIOUS
  <2>3. PICK f \in Elements : d.id[f] = i
    BY <2>1, <2>2 DEF IdsFit
  <2> QED  BY <2>1, <2>3
<1>3. IsFiniteSet(S) /\ Cardinality(S) = Depth - 1
  BY Consts, FS_RemoveElement
<1>4. IsFiniteSet(T) /\ Cardinality(T) <= Cardinality(S)
  <2> DEFINE g == [f \in S |-> d.id[f]]
  <2>1. g \in Surjection(S, T)
    BY DEF Surjection
  <2> QED  BY <1>3, <2>1, FS_Surjection
<1>5. Cardinality(1 .. d.guid - 1) = d.guid - 1
  <2>1. 1 \in Int /\ d.guid - 1 \in Int
    BY <1>1
  <2> QED  BY <1>1, <2>1, FS_Interval
<1>6. Cardinality(1 .. d.guid - 1) <= Cardinality(T)
  BY <1>2, <1>4, FS_Subset
<1>7. Cardinality(T) \in Nat
  BY <1>4, FS_CardinalityType
<1> HIDE DEF T, S
<1>8. d.guid - 1 <= Depth - 1
  BY <1>1, <1>3, <1>4, <1>5, <1>6, <1>7, Consts
<1> QED
  BY <1>1, <1>8, Consts DEF Elements

(* The table when handlers are removed: each list is a part of what it was.*)
LEMMA TableLess ==
  ASSUME NEW T \in Tables, NEW U \in Tables, NEW b, TableFits(T, b),
         \A e \in Elements, t \in Types : Part(U[e][t], T[e][t])
  PROVE  /\ TableFits(U, b)
         /\ \A e \in Elements : \A h : Bound(U, e, h) => Bound(T, e, h)
<1>1. ASSUME NEW e \in Elements, NEW t \in Types, NEW k \in DOMAIN U[e][t]
      PROVE  \E i \in DOMAIN T[e][t] : U[e][t][k] = T[e][t][i]
  BY DEF Part
<1>2. \A e \in Elements : \A h : Bound(U, e, h) => Bound(T, e, h)
  BY <1>1 DEF Bound
<1>3. ASSUME NEW e \in Elements, NEW t \in Types
      PROVE  /\ \A k \in DOMAIN U[e][t] : U[e][t][k].type = t /\ U[e][t][k].n <= b
             /\ InOrder(U[e][t])
  <2>1. \A k \in DOMAIN U[e][t] : U[e][t][k].type = t /\ U[e][t][k].n <= b
    BY <1>1 DEF TableFits
  <2>2. ASSUME NEW j \in DOMAIN U[e][t], NEW k \in DOMAIN U[e][t], j < k,
               U[e][t][k].sel
        PROVE  U[e][t][j].sel
    <3>1. PICK i \in DOMAIN T[e][t], l \in DOMAIN T[e][t] :
            i < l /\ U[e][t][j] = T[e][t][i] /\ U[e][t][k] = T[e][t][l]
      BY <2>2 DEF Part
    <3> QED  BY <2>2, <3>1 DEF TableFits, InOrder
  <2> QED  BY <2>1, <2>2 DEF InOrder
<1>4. ASSUME NEW e \in Elements, NEW f \in Elements, NEW t \in Types, NEW u \in Types,
             NEW j \in DOMAIN U[e][t], NEW k \in DOMAIN U[f][u],
             U[e][t][j].n = U[f][u][k].n
      PROVE  e = f /\ t = u /\ j = k
  <2>1. e = f /\ t = u
    BY <1>1, <1>4 DEF TableFits
  <2>2. U[e][t] \in Seq(Handler) /\ T[e][t] \in Seq(Handler)
    BY DEF Tables
  <2>3. ASSUME NEW l \in DOMAIN U[e][t], NEW m \in DOMAIN U[e][t], l < m,
               U[e][t][l].n = U[e][t][m].n
        PROVE  FALSE
    <3>1. PICK p \in DOMAIN T[e][t], q \in DOMAIN T[e][t] :
            p < q /\ U[e][t][l] = T[e][t][p] /\ U[e][t][m] = T[e][t][q]
      BY <2>3 DEF Part
    <3>2. p = q
      BY <2>3, <3>1 DEF TableFits
    <3> QED  BY <2>2, <3>1, <3>2
  <2>4. j < k \/ k < j \/ j = k
    BY <2>1, <2>2
  <2> QED  BY <1>4, <2>1, <2>3, <2>4
<1> QED
  BY <1>2, <1>3, <1>4 DEF TableFits

(* A list is a part of itself.                                             *)
LEMMA PartOfItself ==
  ASSUME NEW list PROVE Part(list, list)
BY DEF Part

(* The list with a new handler in it.                                      *)
PutIn(s, list, i, h) ==
  /\ s \in Seq(Handler) /\ i \in 1 .. Len(list) + 1 /\ Len(s) = Len(list) + 1
  /\ s[i] = h
  /\ \A k \in 1 .. i - 1 : s[k] = list[k]
  /\ \A k \in i + 1 .. Len(list) + 1 : s[k] = list[k - 1]

LEMMA Listed ==
  ASSUME NEW list \in Seq(Handler), InOrder(list), NEW h \in Handler
  PROVE  LET s == IF h.sel THEN InsertAt(list, Delegates(list) + 1, h)
                           ELSE Append(list, h)
         IN  InOrder(s) /\ \E i : PutIn(s, list, i, h)
<1>1. /\ Len(list) \in Nat /\ Delegates(list) \in 0 .. Len(list)
      /\ \A k \in DOMAIN list : list[k].sel <=> k <= Delegates(list)
  BY DelegatesFacts
<1>2. CASE h.sel
  <2>0. PICK i \in 1 .. Len(list) + 1 : i = Delegates(list) + 1
    BY <1>1
  <2>1. PICK s : s = InsertAt(list, i, h)
    OBVIOUS
  <2>2. PutIn(s, list, i, h)
    <3>1. /\ s \in Seq(Handler) /\ Len(s) = Len(list) + 1 /\ s[i] = h
          /\ \A k \in 1 .. i - 1 : s[k] = list[k]
          /\ \A k \in i + 1 .. Len(list) + 1 : s[k] = list[k - 1]
      BY <2>0, <2>1, InsertFacts
    <3> QED  BY <3>1 DEF PutIn
  <2>3. InOrder(s)
    <3> SUFFICES ASSUME NEW j \in DOMAIN s, NEW k \in DOMAIN s, j < k, s[k].sel
                 PROVE  s[j].sel
      BY DEF InOrder
    <3>1. j \in Nat /\ k \in Nat /\ i \in Nat
      BY <2>2 DEF PutIn
    <3>2. CASE j = i
      BY <1>2, <2>2, <3>2 DEF PutIn
    <3>3. CASE j < i
      <4>1. s[j] = list[j] /\ j \in DOMAIN list /\ j <= Delegates(list)
        BY <1>1, <2>0, <2>1, <2>2, <3>1, <3>3 DEF PutIn
      <4> QED  BY <1>1, <4>1
    <3>4. CASE i < j
      <4>1. k \in i + 1 .. Len(list) + 1 /\ k - 1 \in DOMAIN list
        BY <1>1, <2>2, <3>1, <3>4 DEF PutIn
      <4>2. s[k] = list[k - 1]
        BY <2>2, <4>1 DEF PutIn
      <4>3. k - 1 <= Delegates(list)
        BY <1>1, <4>1, <4>2
      <4> QED  BY <1>1, <2>0, <2>1, <3>1, <3>4, <4>3
    <3> QED  BY <3>1, <3>2, <3>3, <3>4
  <2> QED  BY <1>2, <2>0, <2>1, <2>2, <2>3
<1>3. CASE ~h.sel
  <2>1. PICK s : s = Append(list, h)
    OBVIOUS
  <2>2. /\ s \in Seq(Handler) /\ Len(s) = Len(list) + 1 /\ s[Len(list) + 1] = h
        /\ \A k \in 1 .. Len(list) : s[k] = list[k]
    BY <2>1, AppendProperties
  <2>3. PutIn(s, list, Len(list) + 1, h)
    BY <1>1, <2>2 DEF PutIn
  <2>4. InOrder(s)
    <3> SUFFICES ASSUME NEW j \in DOMAIN s, NEW k \in DOMAIN s, j < k, s[k].sel
                 PROVE  s[j].sel
      BY DEF InOrder
    <3>1. k # Len(list) + 1
      BY <1>3, <2>2
    <3>2. k \in DOMAIN list /\ j \in DOMAIN list
      BY <1>1, <2>2, <3>1
    <3> QED  BY <2>2, <3>2 DEF InOrder
  <2> QED  BY <1>3, <2>1, <2>3, <2>4
<1> QED
  BY <1>2, <1>3

RowWith(U, T, e, t, s) == U = [T EXCEPT ![e] = [@ EXCEPT ![t] = s]]

LEMMA TableMore ==
  ASSUME NEW T \in Tables, NEW b \in Nat, TableFits(T, b),
         NEW e \in Elements, NEW t \in Types, NEW h \in Handler,
         h.type = t, h.n = b + 1, NEW s, NEW p, PutIn(s, T[e][t], p, h), InOrder(s),
         NEW U, RowWith(U, T, e, t, s)
  PROVE  /\ U \in Tables /\ TableFits(U, b + 1)
         /\ \A f \in Elements : \A x : Bound(U, f, x) => Bound(T, f, x) \/ (f = e /\ x = h)
<1>0. T[e] \in [Types -> Seq(Handler)] /\ T[e][t] \in Seq(Handler) /\ s \in Seq(Handler)
  BY DEF Tables, PutIn
<1>1. U \in Tables
  BY <1>0 DEF Tables, RowWith
<1>2. /\ U[e][t] = s
      /\ \A f \in Elements, u \in Types : f # e \/ u # t => U[f][u] = T[f][u]
  BY <1>0 DEF Tables, RowWith
<1>3. /\ Len(T[e][t]) \in Nat /\ DOMAIN T[e][t] = 1 .. Len(T[e][t])
      /\ DOMAIN s = 1 .. Len(T[e][t]) + 1 /\ p \in 1 .. Len(T[e][t]) + 1
  BY <1>0 DEF PutIn
<1>4. ASSUME NEW k \in DOMAIN s, k # p
      PROVE  LET i == IF k < p THEN k ELSE k - 1
             IN  i \in DOMAIN T[e][t] /\ s[k] = T[e][t][i]
  <2>1. k \in Nat /\ p \in Nat
    BY <1>3
  <2>2. CASE k < p
    BY <1>3, <2>1, <2>2 DEF PutIn
  <2>3. CASE p < k
    <3>1. k \in p + 1 .. Len(T[e][t]) + 1 /\ k - 1 \in DOMAIN T[e][t] /\ ~(k < p)
      BY <1>3, <2>1, <2>3
    <3>2. s[k] = T[e][t][k - 1]
      BY <3>1 DEF PutIn
    <3> QED  BY <3>1, <3>2
  <2> QED  BY <1>4, <2>1, <2>2, <2>3
<1>5. s[p] = h
  BY DEF PutIn
<1>6. \A f \in Elements : \A x : Bound(U, f, x) => Bound(T, f, x) \/ (f = e /\ x = h)
  <2> SUFFICES ASSUME NEW f \in Elements, NEW x, Bound(U, f, x)
               PROVE  Bound(T, f, x) \/ (f = e /\ x = h)
    OBVIOUS
  <2>1. PICK u \in Types : \E k \in DOMAIN U[f][u] : x = U[f][u][k]
    BY DEF Bound
  <2>2. PICK k \in DOMAIN U[f][u] : x = U[f][u][k]
    BY <2>1
  <2>3. CASE f = e /\ u = t
    <3>1. k \in DOMAIN s /\ x = s[k]
      BY <1>2, <2>2, <2>3
    <3> QED  BY <1>4, <1>5, <2>3, <3>1 DEF Bound
  <2>4. CASE f # e \/ u # t
    BY <1>2, <2>2, <2>4 DEF Bound
  <2> QED  BY <2>3, <2>4
<1>7. ASSUME NEW f \in Elements, NEW u \in Types
      PROVE  /\ \A k \in DOMAIN U[f][u] : U[f][u][k].type = u /\ U[f][u][k].n <= b + 1
             /\ InOrder(U[f][u])
  <2>0. \A k \in DOMAIN T[f][u] : T[f][u][k].n \in Nat
    <3>1. T[f][u] \in Seq(Handler)
      BY DEF Tables
    <3>2. \A k \in DOMAIN T[f][u] : T[f][u][k] \in Handler
      BY <3>1, ElementOfSeq
    <3>3. \A x \in Handler : x.n \in Nat
      BY Consts DEF Handler
    <3> QED  BY <3>2, <3>3
  <2>1. CASE f = e /\ u = t
    <3>1. ASSUME NEW k \in DOMAIN s PROVE s[k].type = t /\ s[k].n <= b + 1
      <4>1. CASE k = p
        BY <1>5, <4>1
      <4>2. CASE k # p
        <5>1. PICK i \in DOMAIN T[e][t] : s[k] = T[e][t][i]
          BY <1>4, <4>2
        <5>2. T[e][t][i].type = t /\ T[e][t][i].n <= b /\ T[e][t][i].n \in Nat
          BY <2>0, <2>1 DEF TableFits
        <5> QED  BY <5>1, <5>2
      <4> QED  BY <4>1, <4>2
    <3> QED  BY <1>2, <2>1, <3>1
  <2>2. CASE f # e \/ u # t
    <3>1. U[f][u] = T[f][u] /\ InOrder(T[f][u])
          /\ \A k \in DOMAIN T[f][u] : T[f][u][k].type = u /\ T[f][u][k].n <= b
      BY <1>2, <2>2 DEF TableFits
    <3>2. \A k \in DOMAIN T[f][u] : T[f][u][k].n <= b + 1
      BY <2>0, <3>1
    <3> QED  BY <3>1, <3>2
  <2> QED  BY <2>1, <2>2
<1>8. ASSUME NEW f \in Elements, NEW u \in Types, NEW k \in DOMAIN U[f][u],
             ~(f = e /\ u = t /\ k = p)
      PROVE  LET i == IF f = e /\ u = t /\ ~(k < p) THEN k - 1 ELSE k
             IN  i \in DOMAIN T[f][u] /\ U[f][u][k] = T[f][u][i] /\ U[f][u][k].n <= b
  <2>1. CASE f = e /\ u = t
    BY <1>2, <1>4, <1>8, <2>1 DEF TableFits
  <2>2. CASE f # e \/ u # t
    BY <1>2, <2>2 DEF TableFits
  <2> QED  BY <2>1, <2>2
<1>9. ASSUME NEW f \in Elements, NEW g \in Elements, NEW u \in Types, NEW w \in Types,
             NEW j \in DOMAIN U[f][u], NEW k \in DOMAIN U[g][w],
             U[f][u][j].n = U[g][w][k].n
      PROVE  f = g /\ u = w /\ j = k
  <2>0. U[f][u] \in Seq(Handler) /\ U[g][w] \in Seq(Handler)
    BY <1>1 DEF Tables
  <2>1. CASE f = e /\ u = t /\ j = p
    <3>1. U[f][u][j].n = b + 1
      BY <1>2, <1>5, <2>1
    <3>2. ~(g = e /\ w = t /\ k = p) => U[g][w][k].n <= b
      BY <1>8
    <3>3. ~(b + 1 <= b)
      OBVIOUS
    <3> QED  BY <1>9, <2>1, <3>1, <3>2, <3>3
  <2>2. CASE g = e /\ w = t /\ k = p
    <3>1. U[g][w][k].n = b + 1
      BY <1>2, <1>5, <2>2
    <3>2. ~(f = e /\ u = t /\ j = p) => U[f][u][j].n <= b
      BY <1>8
    <3>3. ~(b + 1 <= b)
      OBVIOUS
    <3> QED  BY <1>9, <2>2, <3>1, <3>2, <3>3
  <2>3. CASE ~(f = e /\ u = t /\ j = p) /\ ~(g = e /\ w = t /\ k = p)
    <3>1. PICK l : /\ l = (IF f = e /\ u = t /\ ~(j < p) THEN j - 1 ELSE j)
                   /\ l \in DOMAIN T[f][u] /\ U[f][u][j] = T[f][u][l]
      BY <1>8, <2>3
    <3>2. PICK m : /\ m = (IF g = e /\ w = t /\ ~(k < p) THEN k - 1 ELSE k)
                   /\ m \in DOMAIN T[g][w] /\ U[g][w][k] = T[g][w][m]
      BY <1>8, <2>3
    <3>3. f = g /\ u = w /\ l = m
      BY <1>9, <3>1, <3>2 DEF TableFits
    <3>4. j \in Nat /\ k \in Nat /\ p \in Nat
      BY <1>3, <2>0
    <3>5. f = e /\ u = t => j # p /\ k # p
      BY <2>3, <3>3
    <3> QED  BY <3>1, <3>2, <3>3, <3>4, <3>5
  <2> QED  BY <2>1, <2>2, <2>3
<1> QED
  BY <1>1, <1>6, <1>7, <1>9 DEF TableFits

(* The listeners when handlers of one element are removed, and when the    *)
(* first of a type is added.                                               *)
LEMMA ListensLess ==
  ASSUME NEW T \in Tables, NEW e \in Elements, NEW row \in [Types -> Seq(Handler)],
         NEW l \in [Elements -> SUBSET Types], NEW a, ListensFit(T, l, a),
         NEW over \in SUBSET Types,
         \A t \in Types : row[t] # <<>> => T[e][t] # <<>>,
         \A t \in Types : t \in over <=> T[e][t] # <<>> /\ row[t] = <<>>
  PROVE  /\ ListensFit([T EXCEPT ![e] = row], [l EXCEPT ![e] = @ \ over],
                       IF "focusin" \in over THEN a - 1 ELSE a)
         /\ (IF "focusin" \in over THEN a - 1 ELSE a) \in 0 .. Depth
<1>0. PICK U, m : U = [T EXCEPT ![e] = row] /\ m = [l EXCEPT ![e] = @ \ over]
  OBVIOUS
<1>1. U \in Tables /\ U[e] = row /\ \A f \in Elements \ {e} : U[f] = T[f]
  BY <1>0 DEF Tables
<1>2. m[e] = l[e] \ over /\ \A f \in Elements \ {e} : m[f] = l[f]
  BY <1>0
<1>3. ASSUME NEW f \in Elements
      PROVE  m[f] = {t \in Types \ {"focusin"} : U[f][t] # <<>>}
  <2>1. CASE f = e
    <3>1. m[e] = {t \in Types \ {"focusin"} : T[e][t] # <<>>} \ over
      BY <1>2 DEF ListensFit
    <3> QED  BY <1>1, <2>1, <3>1
  <2>2. CASE f # e
    BY <1>1, <1>2, <2>2 DEF ListensFit
  <2> QED  BY <2>1, <2>2
<1>4. /\ IsFiniteSet(Wanting(T)) /\ Cardinality(Wanting(T)) \in Nat
      /\ Cardinality(Wanting(T)) <= Depth /\ Depth \in Nat
  <2>1. Wanting(T) \in SUBSET Elements
    BY DEF Wanting
  <2> QED  BY <2>1, Consts, FS_Subset, FS_CardinalityType
<1>5. CASE "focusin" \in over
  <2>1. e \in Wanting(T) /\ Wanting(U) = Wanting(T) \ {e}
    BY <1>1, <1>5 DEF Wanting
  <2>2. Cardinality(Wanting(U)) = a - 1 /\ Cardinality(Wanting(U)) \in Nat
    BY <1>4, <2>1, FS_RemoveElement, FS_CardinalityType DEF ListensFit
  <2>3. a - 1 \in 0 .. Depth
    BY <1>4, <2>2 DEF ListensFit
  <2> QED  BY <1>0, <1>3, <1>5, <2>2, <2>3 DEF ListensFit
<1>6. CASE "focusin" \notin over
  <2>1. Wanting(U) = Wanting(T)
    BY <1>1, <1>6 DEF Wanting
  <2>2. a \in 0 .. Depth
    BY <1>4 DEF ListensFit
  <2> QED  BY <1>0, <1>3, <1>6, <2>1, <2>2 DEF ListensFit
<1> QED
  BY <1>5, <1>6

LEMMA ListensMore ==
  ASSUME NEW T \in Tables, NEW e \in Elements, NEW t \in Types, NEW s, s # <<>>,
         NEW l \in [Elements -> SUBSET Types], NEW a, ListensFit(T, l, a)
  PROVE  LET U == [T EXCEPT ![e] = [@ EXCEPT ![t] = s]]
         IN  /\ T[e][t] # <<>> => ListensFit(U, l, a)
             /\ T[e][t] = <<>> =>
                  IF t = "focusin" THEN ListensFit(U, l, a + 1)
                  ELSE ListensFit(U, [l EXCEPT ![e] = @ \cup {t}], a)
<1>0. PICK U, m : U = [T EXCEPT ![e] = [@ EXCEPT ![t] = s]]
                  /\ m = [l EXCEPT ![e] = @ \cup {t}]
  OBVIOUS
<1>1. /\ U[e][t] = s
      /\ \A f \in Elements, u \in Types : f # e \/ u # t => U[f][u] = T[f][u]
  BY <1>0 DEF Tables
<1>2. m[e] = l[e] \cup {t} /\ \A f \in Elements \ {e} : m[f] = l[f]
  BY <1>0
<1>3. IsFiniteSet(Wanting(T)) /\ a = Cardinality(Wanting(T)) /\ a \in Nat
  <2>1. Wanting(T) \in SUBSET Elements
    BY DEF Wanting
  <2> QED  BY <2>1, Consts, FS_Subset, FS_CardinalityType DEF ListensFit
<1>4. CASE T[e][t] # <<>>
  <2>1. Wanting(U) = Wanting(T)
    BY <1>1, <1>4 DEF Wanting
  <2>2. ASSUME NEW f \in Elements, NEW u \in Types
        PROVE  U[f][u] # <<>> <=> T[f][u] # <<>>
    BY <1>1, <1>4
  <2> QED  BY <1>0, <1>3, <1>4, <2>1, <2>2 DEF ListensFit
<1>5. CASE T[e][t] = <<>> /\ t = "focusin"
  <2>1. Wanting(U) = Wanting(T) \cup {e} /\ e \notin Wanting(T)
    BY <1>1, <1>5 DEF Wanting
  <2>2. Cardinality(Wanting(U)) = a + 1
    BY <1>3, <2>1, FS_AddElement
  <2>3. ASSUME NEW f \in Elements, NEW u \in Types \ {"focusin"}
        PROVE  U[f][u] # <<>> <=> T[f][u] # <<>>
    BY <1>1, <1>5
  <2> QED  BY <1>0, <1>5, <2>2, <2>3 DEF ListensFit
<1>6. CASE T[e][t] = <<>> /\ t # "focusin"
  <2>1. Wanting(U) = Wanting(T)
    BY <1>1, <1>6 DEF Wanting
  <2>2. ASSUME NEW f \in Elements
        PROVE  m[f] = {u \in Types \ {"focusin"} : U[f][u] # <<>>}
    <3>1. CASE f = e
      BY <1>1, <1>2, <1>6, <3>1 DEF ListensFit
    <3>2. CASE f # e
      BY <1>1, <1>2, <3>2 DEF ListensFit
    <3> QED  BY <3>1, <3>2
  <2> QED  BY <1>0, <1>3, <1>6, <2>1, <2>2 DEF ListensFit
<1> QED
  BY <1>0, <1>4, <1>5, <1>6

-----------------------------------------------------------------------------
(* The operations on the data.  First an element gets an identifier: one   *)
(* that nobody has.                                                        *)
Taken(d, i, deleted, guid) ==
  /\ \A k \in DOMAIN deleted :
       deleted[k] # i /\ \E j \in DOMAIN d.deleted : deleted[k] = d.deleted[j]
  /\ \A j, k \in DOMAIN deleted : deleted[j] = deleted[k] => j = k
  /\ \A j \in Elements : j < guid =>
       \/ j = i \/ \E f \in Elements : d.id[f] = j
       \/ \E k \in DOMAIN deleted : deleted[k] = j

LEMMA Named ==
  ASSUME NEW d, DataTypes(d), IdsFit(d), NEW e \in Elements, d.id[e] = 0,
         NEW i \in Elements, \A f \in Elements : d.id[f] # i,
         NEW c, DataTypes(c), c.id = [d.id EXCEPT ![e] = i],
         c.cache = [d.cache EXCEPT ![i] = NoEntry],
         d.guid <= c.guid, i < c.guid, Taken(d, i, c.deleted, c.guid)
  PROVE  /\ IdsFit(c) /\ HasData(c, e) /\ Table(c) = Table(d)
         /\ d.cache[i] = Off
<1>0. /\ d.id \in [Elements -> 0 .. Depth]
      /\ d.cache \in [Elements -> Entries \cup {Off}]
      /\ d.deleted \in Seq(Elements) /\ d.guid \in 1 .. Depth + 1
      /\ d.listens \in [Elements -> SUBSET Types] /\ d.attaches \in Int
  BY DataFields
<1>8. PICK deleted, guid : deleted = c.deleted /\ guid = c.guid
  OBVIOUS
<1>9. /\ Taken(d, i, deleted, guid) /\ d.guid <= guid /\ i < guid
      /\ deleted \in Seq(Elements) /\ guid \in 1 .. Depth + 1
  BY <1>8, DataFields
<1>1. /\ DataTypes(c) /\ c.id = [d.id EXCEPT ![e] = i]
      /\ c.cache = [d.cache EXCEPT ![i] = NoEntry]
      /\ c.deleted = deleted /\ c.guid = guid
  BY <1>8
<1>2. /\ c.id[e] = i /\ \A f \in Elements \ {e} : c.id[f] = d.id[f]
      /\ c.cache[i] = NoEntry /\ \A j \in Elements \ {i} : c.cache[j] = d.cache[j]
  BY <1>0, <1>1
<1>3. i # 0 /\ NoEntry # Off /\ d.cache[i] = Off
  BY Consts, NoEntryFacts DEF IdsFit
<1>4. HasData(c, e)
  BY <1>2, <1>3 DEF HasData
<1>5. Table(c) = Table(d)
  <2>1. Table(c)[e] = NoEvents /\ Table(d)[e] = NoEvents
    <3>1. ~HasData(d, e)
      BY DEF HasData
    <3>2. /\ Table(c)[e] = IF HasData(c, e) THEN c.cache[c.id[e]].events ELSE NoEvents
          /\ Table(d)[e] = IF HasData(d, e) THEN d.cache[d.id[e]].events ELSE NoEvents
      BY <1>1, TableRow
    <3>3. NoEntry.events = NoEvents
      BY NoEntryFacts
    <3> QED  BY <1>2, <1>4, <3>1, <3>2, <3>3
  <2>2. ASSUME NEW f \in Elements \ {e} PROVE Table(c)[f] = Table(d)[f]
    <3>1. c.id[f] = d.id[f] /\ d.id[f] # i
      BY <1>2
    <3>2. d.id[f] # 0 => c.cache[d.id[f]] = d.cache[d.id[f]]
      <4>1. d.id[f] # 0 => d.id[f] \in Elements
        BY DataFields, Consts
      <4> QED  BY <1>2, <3>1, <4>1
    <3>3. HasData(c, f) <=> HasData(d, f)
      BY <3>1, <3>2 DEF HasData
    <3>4. HasData(d, f) => d.id[f] # 0
      BY DEF HasData
    <3>5. /\ Table(c)[f] = IF HasData(c, f) THEN c.cache[c.id[f]].events ELSE NoEvents
          /\ Table(d)[f] = IF HasData(d, f) THEN d.cache[d.id[f]].events ELSE NoEvents
      BY <1>1, TableRow
    <3> QED  BY <3>1, <3>2, <3>3, <3>4, <3>5
  <2>3. Table(c) = [Table(d) EXCEPT ![e] = NoEvents]
    BY <1>1, <2>1, <2>2, Row
  <2> QED  BY <2>1, <2>3, TableFacts DEF Tables
<1>6. IdsFit(c)
  <2>1. \A f, g \in Elements : c.id[f] = c.id[g] /\ c.id[f] # 0 => f = g
    BY <1>2 DEF IdsFit
  <2>2. ASSUME NEW f \in Elements, c.id[f] # 0
        PROVE  /\ c.id[f] < guid /\ c.cache[c.id[f]] # Off
               /\ \A k \in DOMAIN deleted : deleted[k] # c.id[f]
    <3>1. CASE f = e
      BY <1>2, <1>3, <3>1, <1>9 DEF Taken
    <3>2. CASE f # e
      <4>1. c.id[f] = d.id[f] /\ d.id[f] # i /\ d.id[f] \in Elements
        <5>1. c.id[f] = d.id[f] /\ d.id[f] \in 0 .. Depth /\ d.id[f] # 0
          BY <1>0, <1>2, <2>2, <3>2
        <5> QED  BY <5>1, Consts
      <4>2. /\ d.id[f] < d.guid /\ d.cache[d.id[f]] # Off
            /\ \A k \in DOMAIN d.deleted : d.deleted[k] # d.id[f]
        BY <2>2, <4>1 DEF IdsFit
      <4>3. d.id[f] < guid
        <5>1. d.id[f] \in Nat /\ d.guid \in Nat /\ guid \in Nat
          BY <1>9, <4>1, DataFields, Consts
        <5> QED  BY <1>9, <4>2, <5>1
      <4> QED  BY <1>2, <4>1, <4>2, <4>3, <1>9 DEF Taken
    <3> QED  BY <3>1, <3>2
  <2>3. ASSUME NEW k \in DOMAIN deleted PROVE deleted[k] < guid
    <3>1. PICK j \in DOMAIN d.deleted : deleted[k] = d.deleted[j]
      BY <1>9 DEF Taken
    <3>2. d.deleted[j] < d.guid /\ d.deleted[j] \in Nat
      <4>1. d.deleted[j] \in Elements
        BY DataFields
      <4> QED  BY <4>1, Consts DEF IdsFit
    <3>3. d.guid \in Nat /\ guid \in Nat
      BY <1>9, DataFields
    <3> QED  BY <1>9, <3>1, <3>2, <3>3
  <2>4. ASSUME NEW j \in Elements, j < guid
        PROVE  \/ \E f \in Elements : c.id[f] = j
               \/ \E k \in DOMAIN deleted : deleted[k] = j
    <3>1. CASE j = i
      BY <1>2, <3>1
    <3>2. CASE \E f \in Elements : d.id[f] = j
      <4>1. PICK f \in Elements : d.id[f] = j
        BY <3>2
      <4>2. f # e
        BY <4>1, Consts
      <4> QED  BY <1>2, <4>1, <4>2
    <3> QED  BY <2>4, <3>1, <3>2, <1>9 DEF Taken
  <2>5. ASSUME NEW j \in Elements, c.cache[j] # Off
        PROVE  \E f \in Elements : c.id[f] = j
    <3>1. CASE j = i
      BY <1>2, <3>1
    <3>2. CASE j # i
      <4>1. d.cache[j] # Off
        BY <1>2, <2>5, <3>2
      <4>2. PICK f \in Elements : d.id[f] = j
        BY <4>1 DEF IdsFit
      <4>3. f # e
        BY <4>2, Consts
      <4> QED  BY <1>2, <4>2, <4>3
    <3> QED  BY <3>1, <3>2
  <2>6. c.guid = guid /\ c.deleted = deleted
    BY <1>1
  <2>7. \A j, k \in DOMAIN deleted : deleted[j] = deleted[k] => j = k
    BY <1>9 DEF Taken
  <2> QED  BY <2>1, <2>2, <2>3, <2>4, <2>5, <2>6, <2>7 DEF IdsFit
<1> QED
  BY <1>1, <1>3, <1>4, <1>5, <1>6

LEMMA WithDataFacts ==
  ASSUME NEW d, DataTypes(d), IdsFit(d), NEW e \in Elements,
         NEW c, c = WithData(d, e)
  PROVE  /\ DataTypes(c) /\ IdsFit(c) /\ HasData(c, e) /\ Table(c) = Table(d)
         /\ c.listens = d.listens /\ c.attaches = d.attaches
         /\ c.id[e] \in Elements
         /\ \A j \in Elements \ {c.id[e]} : c.cache[j] = d.cache[j]
         /\ c.cache[c.id[e]] = IF HasData(d, e) THEN d.cache[c.id[e]] ELSE NoEntry
<1>1. CASE d.id[e] # 0
  <2>1. c = d
    BY <1>1 DEF WithData
  <2>2. HasData(d, e)
    BY <1>1 DEF IdsFit, HasData
  <2> QED  BY <2>1, <2>2, TableFacts
<1>2. CASE d.id[e] = 0
  <2>0. ~HasData(d, e)
    BY <1>2 DEF HasData
  <2>1. PICK i, deleted, guid :
          /\ i = (IF d.deleted # <<>> THEN Last(d.deleted) ELSE d.guid)
          /\ deleted = (IF d.deleted # <<>> THEN Front(d.deleted) ELSE d.deleted)
          /\ guid = (IF d.deleted # <<>> THEN d.guid ELSE d.guid + 1)
    OBVIOUS
  <2>2. /\ i \in Elements /\ \A f \in Elements : d.id[f] # i
        /\ deleted \in Seq(Elements) /\ guid \in 1 .. Depth + 1
        /\ d.guid <= guid /\ i < guid
        /\ \A k \in DOMAIN deleted :
             deleted[k] # i /\ \E j \in DOMAIN d.deleted : deleted[k] = d.deleted[j]
        /\ \A j, k \in DOMAIN deleted : deleted[j] = deleted[k] => j = k
        /\ \A j \in Elements : j < guid =>
             \/ j = i \/ \E f \in Elements : d.id[f] = j
             \/ \E k \in DOMAIN deleted : deleted[k] = j
    <3>1. CASE d.deleted # <<>>
      <4> DEFINE n == Len(d.deleted)
      <4>1. n \in Nat /\ n > 0 /\ DOMAIN d.deleted = 1 .. n
        BY <3>1, DataFields, LenProperties, EmptySeq
      <4>2. i = d.deleted[n] /\ i \in Elements
        BY <2>1, <3>1, <4>1, DataFields DEF Last
      <4>3. /\ deleted \in Seq(Elements) /\ Len(deleted) = n - 1
            /\ \A k \in 1 .. n - 1 : deleted[k] = d.deleted[k]
        <5>1. deleted = SubSeq(d.deleted, 1, n - 1)
          BY <2>1, <3>1 DEF Front
        <5>2. 1 \in Int /\ n - 1 \in Int
              /\ \A k \in 1 .. n - 1 : d.deleted[k] \in Elements
          BY <4>1, DataFields
        <5>3. /\ SubSeq(d.deleted, 1, n - 1) \in Seq(Elements)
              /\ Len(SubSeq(d.deleted, 1, n - 1)) = IF 1 <= n - 1 THEN n - 1 - 1 + 1 ELSE 0
              /\ \A k \in 1 .. n - 1 - 1 + 1 : SubSeq(d.deleted, 1, n - 1)[k] = d.deleted[1 + k - 1]
          BY <5>2, SubSeqProperties
        <5> QED  BY <4>1, <5>1, <5>3
      <4> HIDE DEF n
      <4>4. DOMAIN deleted = 1 .. n - 1 /\ guid = d.guid /\ guid \in 1 .. Depth + 1
            /\ n \in DOMAIN d.deleted /\ n \notin 1 .. n - 1
            /\ 1 .. n - 1 \subseteq DOMAIN d.deleted
        BY <2>1, <3>1, <4>1, <4>3, DataFields
      <4>5. \A f \in Elements : d.id[f] # i
        BY <4>2, <4>4, Consts DEF IdsFit
      <4>6. i < guid /\ d.guid <= guid
        BY <4>2, <4>4, Consts DEF IdsFit
      <4>7. \A k \in 1 .. n - 1 : deleted[k] # i
        BY <4>2, <4>3, <4>4 DEF IdsFit
      <4>8. \A j, k \in DOMAIN deleted : deleted[j] = deleted[k] => j = k
        BY <4>3, <4>4 DEF IdsFit
      <4>9. ASSUME NEW j \in Elements, j < guid, j # i,
                   ~(\E f \in Elements : d.id[f] = j)
            PROVE  \E k \in DOMAIN deleted : deleted[k] = j
        <5>1. PICK k \in DOMAIN d.deleted : d.deleted[k] = j
          BY <4>4, <4>9 DEF IdsFit
        <5>2. k \in 1 .. n - 1
          BY <4>1, <4>2, <4>9, <5>1
        <5> QED  BY <4>3, <4>4, <5>1, <5>2
      <4> QED  BY <4>2, <4>3, <4>4, <4>5, <4>6, <4>7, <4>8, <4>9
    <3>2. CASE d.deleted = <<>>
      <4>1. i = d.guid /\ deleted = <<>> /\ guid = d.guid + 1
        BY <2>1, <3>2
      <4>2. i \in Elements
        BY <1>2, <3>2, <4>1, RoomForOne
      <4>3. guid \in 1 .. Depth + 1 /\ i < guid /\ d.guid <= guid
        BY <4>1, <4>2, Consts DEF Elements
      <4>4. \A f \in Elements : d.id[f] # i
        BY <4>1, <4>2, Consts DEF IdsFit
      <4>5. ASSUME NEW j \in Elements, j < guid, j # i
            PROVE  \E f \in Elements : d.id[f] = j
        <5>1. j < d.guid
          BY <4>1, <4>2, <4>5, Consts
        <5> QED  BY <3>2, <5>1 DEF IdsFit
      <4>6. deleted \in Seq(Elements) /\ DOMAIN deleted = {}
        BY <4>1
      <4> QED  BY <4>2, <4>3, <4>4, <4>5, <4>6
    <3> QED  BY <3>1, <3>2
  <2>3. d.cache[i] = Off
    <3>1. d.cache[i] # Off => \E f \in Elements : d.id[f] = i
      BY <2>2 DEF IdsFit
    <3> QED  BY <2>2, <3>1
  <2>4. /\ DataTypes(c) /\ c.id = [d.id EXCEPT ![e] = i]
        /\ c.cache = [d.cache EXCEPT ![i] = NoEntry]
        /\ c.deleted = deleted /\ c.guid = guid
        /\ c.listens = d.listens /\ c.attaches = d.attaches
    <3>1. c = [d EXCEPT !.id = [@ EXCEPT ![e] = i],
                        !.cache = [@ EXCEPT ![i] = NoEntry],
                        !.deleted = deleted, !.guid = guid]
      BY <1>2, <2>1, <2>3 DEF WithData
    <3>2. c = Data([d.id EXCEPT ![e] = i], [d.cache EXCEPT ![i] = NoEntry],
                   deleted, guid, d.listens, d.attaches)
      BY <3>1, DataFields DEF Data
    <3>3. [d.id EXCEPT ![e] = i] \in [Elements -> 0 .. Depth]
      BY <2>2, DataFields, Consts
    <3>4. [d.cache EXCEPT ![i] = NoEntry] \in [Elements -> Entries \cup {Off}]
      BY DataFields, NoEntryFacts
    <3>5. d.listens \in [Elements -> SUBSET Types] /\ d.attaches \in Int
      BY DataFields
    <3> QED  BY <2>2, <3>2, <3>3, <3>4, <3>5 DEF Data, DataTypes
  <2>5. IdsFit(c) /\ HasData(c, e) /\ Table(c) = Table(d)
    <3>1. /\ i \in Elements /\ \A f \in Elements : d.id[f] # i
          /\ deleted \in Seq(Elements) /\ guid \in 1 .. Depth + 1
          /\ d.guid <= guid /\ i < guid
      BY <2>2
    <3>2. PICK x : x = c
      OBVIOUS
    <3>3. /\ DataTypes(x) /\ x.id = [d.id EXCEPT ![e] = i]
          /\ x.cache = [d.cache EXCEPT ![i] = NoEntry]
          /\ x.deleted = deleted /\ x.guid = guid
      BY <2>4, <3>2
    <3>4. Taken(d, i, x.deleted, x.guid)
      <4>1. Taken(d, i, deleted, guid)
        BY <2>2 DEF Taken
      <4> QED  BY <3>3, <4>1
    <3>6. d.guid <= x.guid /\ i < x.guid
      BY <3>1, <3>3
    <3>5. IdsFit(x) /\ HasData(x, e) /\ Table(x) = Table(d)
      <4>1. d.id[e] = 0 /\ DataTypes(d) /\ IdsFit(d) /\ e \in Elements
        BY <1>2
      <4>2. i \in Elements /\ \A f \in Elements : d.id[f] # i
        BY <3>1
      <4> QED  BY ONLY <4>1, <4>2, <3>3, <3>4, <3>6, Named
    <3> QED  BY <3>2, <3>5
  <2> QED  BY <2>0, <2>2, <2>3, <2>4, <2>5, DataFields
<1> QED
  BY <1>1, <1>2

(* Another entry for an element.                                           *)
LEMMA EntryKept ==
  ASSUME NEW d, DataTypes(d), IdsFit(d), NEW e \in Elements, HasData(d, e),
         NEW x \in Entries,
         NEW c, DataTypes(c), c.id = d.id, c.cache = [d.cache EXCEPT ![d.id[e]] = x],
         c.deleted = d.deleted, c.guid = d.guid
  PROVE  /\ IdsFit(c) /\ HasData(c, e) /\ d.id[e] \in Elements
         /\ Table(c) = [Table(d) EXCEPT ![e] = x.events]
<1>0. d.id[e] \in Elements /\ d.id[e] # 0 /\ d.cache[d.id[e]] # Off /\ x # Off
  BY TableFacts, Consts DEF HasData
<1>1. /\ DataTypes(c) /\ c.id = d.id /\ c.cache = [d.cache EXCEPT ![d.id[e]] = x]
      /\ c.deleted = d.deleted /\ c.guid = d.guid
  OBVIOUS
<1>2. /\ c.cache[d.id[e]] = x
      /\ \A i \in Elements \ {d.id[e]} : c.cache[i] = d.cache[i]
  BY <1>0, <1>1, DataFields
<1>3. \A i \in Elements : c.cache[i] # Off <=> d.cache[i] # Off
  BY <1>0, <1>2
<1>4. \A f \in Elements : d.id[f] # 0 => d.id[f] \in Elements
  BY DataFields, Consts
<1>5. IdsFit(c)
  BY <1>1, <1>3, <1>4 DEF IdsFit
<1>6. \A f \in Elements : HasData(c, f) <=> HasData(d, f)
  BY <1>1, <1>3, <1>4 DEF HasData
<1>7. Table(c)[e] = x.events
  <2>1. HasData(c, e) /\ DataTypes(c) /\ c.cache[c.id[e]] = x
    <3>1. HasData(c, e) <=> HasData(d, e)
      BY <1>6
    <3> QED  BY <1>1, <1>2, <3>1
  <2>2. Table(c)[e] = IF HasData(c, e) THEN c.cache[c.id[e]].events ELSE NoEvents
    BY <2>1, TableRow
  <2> QED  BY <2>1, <2>2
<1>8. ASSUME NEW f \in Elements \ {e} PROVE Table(c)[f] = Table(d)[f]
  <2>1. CASE HasData(d, f)
    <3>1. d.id[f] # d.id[e] /\ d.id[f] \in Elements
      BY <1>0, <1>4, <2>1 DEF IdsFit, HasData
    <3>2. HasData(c, f) /\ c.cache[c.id[f]] = d.cache[d.id[f]]
      <4>1. HasData(c, f) <=> HasData(d, f)
        BY <1>6
      <4> QED  BY <1>1, <1>2, <2>1, <3>1, <4>1
    <3>3. /\ Table(c)[f] = IF HasData(c, f) THEN c.cache[c.id[f]].events ELSE NoEvents
          /\ Table(d)[f] = IF HasData(d, f) THEN d.cache[d.id[f]].events ELSE NoEvents
      BY <1>1, TableRow
    <3> QED  BY <2>1, <3>2, <3>3
  <2>2. CASE ~HasData(d, f)
    BY <1>1, <1>6, <2>2, TableFacts
  <2> QED  BY <2>1, <2>2
<1> QED
  BY <1>0, <1>1, <1>5, <1>6, <1>7, <1>8, Row

NewEntry(c, d, e, x) == c = [d EXCEPT !.cache[d.id[e]] = x]

LEMMA EntryChanged ==
  ASSUME NEW d, DataTypes(d), IdsFit(d), NEW e \in Elements, HasData(d, e),
         NEW x \in Entries,
         NEW c, NewEntry(c, d, e, x)
  PROVE  /\ DataTypes(c) /\ IdsFit(c) /\ HasData(c, e)
         /\ Table(c) = [Table(d) EXCEPT ![e] = x.events]
         /\ d.id[e] \in Elements /\ c.id = d.id
         /\ c.cache = [d.cache EXCEPT ![d.id[e]] = x]
         /\ c.listens = d.listens /\ c.attaches = d.attaches
<1>0. d.id[e] \in Elements
  BY TableFacts DEF HasData
<1>9. /\ d.id \in [Elements -> 0 .. Depth]
      /\ d.cache \in [Elements -> Entries \cup {Off}]
      /\ d.deleted \in Seq(Elements) /\ d.guid \in 1 .. Depth + 1
      /\ d.listens \in [Elements -> SUBSET Types] /\ d.attaches \in Int
  BY DataFields
<1>1. /\ DataTypes(c) /\ c.id = d.id /\ c.cache = [d.cache EXCEPT ![d.id[e]] = x]
      /\ c.deleted = d.deleted /\ c.guid = d.guid
      /\ c.listens = d.listens /\ c.attaches = d.attaches
  <2>1. c = Data(d.id, [d.cache EXCEPT ![d.id[e]] = x], d.deleted, d.guid,
                 d.listens, d.attaches)
    <3>1. d = Data(d.id, d.cache, d.deleted, d.guid, d.listens, d.attaches)
      BY DataFields
    <3> QED  BY <3>1 DEF Data, NewEntry
  <2>2. [d.cache EXCEPT ![d.id[e]] = x] \in [Elements -> Entries \cup {Off}]
    BY <1>0, <1>9
  <2> QED  BY <1>9, <2>1, <2>2 DEF Data, DataTypes
<1>2. IdsFit(c) /\ HasData(c, e) /\ Table(c) = [Table(d) EXCEPT ![e] = x.events]
  <2>1. PICK b : b = c
    OBVIOUS
  <2>2. /\ DataTypes(b) /\ b.id = d.id /\ b.cache = [d.cache EXCEPT ![d.id[e]] = x]
        /\ b.deleted = d.deleted /\ b.guid = d.guid
    BY <1>1, <2>1
  <2>3. IdsFit(b) /\ HasData(b, e) /\ Table(b) = [Table(d) EXCEPT ![e] = x.events]
    BY ONLY DataTypes(d), IdsFit(d), e \in Elements, HasData(d, e), x \in Entries,
            <2>2, EntryKept
  <2> QED  BY <2>1, <2>3
<1> QED
  BY <1>0, <1>1, <1>2

LEMMA DestroyedFacts ==
  ASSUME NEW d, DataTypes(d), IdsFit(d), NEW e \in Elements, HasData(d, e),
         NEW c, c = Destroyed(d, e, d.id[e])
  PROVE  /\ DataTypes(c) /\ IdsFit(c)
         /\ Table(c) = [Table(d) EXCEPT ![e] = NoEvents]
         /\ c.id[e] = 0 /\ c.cache = [d.cache EXCEPT ![d.id[e]] = Off]
         /\ c.listens = d.listens /\ c.attaches = d.attaches
<1> DEFINE n == Len(d.deleted)
<1>0. PICK i : i = d.id[e]
  OBVIOUS
<1>1. i \in Elements /\ i # 0 /\ d.cache[i] # Off /\ i < d.guid
      /\ \A k \in DOMAIN d.deleted : d.deleted[k] # i
  BY <1>0, TableFacts DEF HasData, IdsFit
<1>9. /\ d.id \in [Elements -> 0 .. Depth]
      /\ d.cache \in [Elements -> Entries \cup {Off}]
      /\ d.deleted \in Seq(Elements) /\ d.guid \in 1 .. Depth + 1
      /\ d.listens \in [Elements -> SUBSET Types] /\ d.attaches \in Int
  BY DataFields
<1>2. /\ DataTypes(c) /\ c.id = [d.id EXCEPT ![e] = 0]
      /\ c.cache = [d.cache EXCEPT ![i] = Off]
      /\ c.deleted = Append(d.deleted, i) /\ c.guid = d.guid
      /\ c.listens = d.listens /\ c.attaches = d.attaches
  <2>1. c = Data([d.id EXCEPT ![e] = 0], [d.cache EXCEPT ![i] = Off],
                 Append(d.deleted, i), d.guid, d.listens, d.attaches)
    <3>1. d = Data(d.id, d.cache, d.deleted, d.guid, d.listens, d.attaches)
      BY DataFields
    <3> QED  BY <1>0, <3>1 DEF Data, Destroyed
  <2>2. [d.cache EXCEPT ![i] = Off] \in [Elements -> Entries \cup {Off}]
    BY DataFields
  <2>3. [d.id EXCEPT ![e] = 0] \in [Elements -> 0 .. Depth]
    BY DataFields, Consts
  <2>4. Append(d.deleted, i) \in Seq(Elements)
    BY <1>1, DataFields
  <2> QED  BY <1>9, <2>1, <2>2, <2>3, <2>4 DEF Data, DataTypes
<1>3. /\ c.id[e] = 0 /\ \A f \in Elements \ {e} : c.id[f] = d.id[f]
      /\ c.cache[i] = Off /\ \A j \in Elements \ {i} : c.cache[j] = d.cache[j]
  BY <1>1, <1>2, DataFields
<1>4. /\ n \in Nat /\ DOMAIN d.deleted = 1 .. n
      /\ DOMAIN c.deleted = 1 .. n + 1 /\ c.deleted[n + 1] = i
      /\ \A k \in 1 .. n : c.deleted[k] = d.deleted[k]
  BY <1>1, <1>2, DataFields, AppendProperties
<1> HIDE DEF n
<1>5. \A f \in Elements \ {e} : d.id[f] # 0 =>
        d.id[f] \in Elements \ {i} /\ c.id[f] = d.id[f]
  BY <1>0, <1>1, <1>3, DataFields, Consts DEF IdsFit
<1>6. Table(c) = [Table(d) EXCEPT ![e] = NoEvents]
  <2>1. Table(c)[e] = NoEvents
    <3>1. ~HasData(c, e)
      BY <1>3 DEF HasData
    <3> QED  BY <1>2, <3>1, TableFacts
  <2>2. ASSUME NEW f \in Elements \ {e} PROVE Table(c)[f] = Table(d)[f]
    <3>1. HasData(c, f) <=> HasData(d, f)
      BY <1>3, <1>5 DEF HasData
    <3>2. CASE HasData(d, f)
      <4>1. d.id[f] \in Elements \ {i} /\ c.id[f] = d.id[f]
        BY <1>5, <3>2 DEF HasData
      <4>2. c.cache[c.id[f]] = d.cache[d.id[f]]
        BY <1>3, <4>1
      <4>3. HasData(c, f) /\ DataTypes(c)
        BY <1>2, <3>1, <3>2
      <4> QED  BY <3>2, <4>2, <4>3, TableFacts
    <3>3. CASE ~HasData(d, f)
      BY <1>2, <3>1, <3>3, TableFacts
    <3> QED  BY <3>2, <3>3
  <2> QED  BY <1>2, <2>1, <2>2, Row
<1>7. IdsFit(c)
  <2>1. \A f, g \in Elements : c.id[f] = c.id[g] /\ c.id[f] # 0 => f = g
    BY <1>3 DEF IdsFit
  <2>2. ASSUME NEW j \in 1 .. n + 1, NEW k \in 1 .. n + 1,
               c.deleted[j] = c.deleted[k]
        PROVE  j = k
    <3>1. \A l \in 1 .. n + 1 : l = n + 1 \/ l \in 1 .. n
      BY <1>4
    <3>2. \A l, m \in 1 .. n : d.deleted[l] = d.deleted[m] => l = m
      BY <1>4 DEF IdsFit
    <3>3. \A l \in 1 .. n : c.deleted[l] = d.deleted[l] /\ d.deleted[l] # i
      BY <1>1, <1>4
    <3>4. c.deleted[n + 1] = i
      BY <1>4
    <3> QED  BY <2>2, <3>1, <3>2, <3>3, <3>4
  <2>3. ASSUME NEW f \in Elements, c.id[f] # 0
        PROVE  /\ c.id[f] < c.guid /\ c.cache[c.id[f]] # Off
               /\ \A k \in 1 .. n + 1 : c.deleted[k] # c.id[f]
    <3>1. f # e /\ d.id[f] # 0 /\ d.id[f] \in Elements \ {i} /\ c.id[f] = d.id[f]
      BY <1>3, <1>5, <2>3
    <3>2. \A k \in 1 .. n + 1 : k = n + 1 \/ k \in 1 .. n
      BY <1>4
    <3> QED  BY <1>2, <1>3, <1>4, <3>1, <3>2 DEF IdsFit
  <2>4. \A k \in 1 .. n + 1 : c.deleted[k] < c.guid
    <3>1. \A k \in 1 .. n + 1 : k = n + 1 \/ k \in 1 .. n
      BY <1>4
    <3> QED  BY <1>1, <1>2, <1>4, <3>1 DEF IdsFit
  <2>5. ASSUME NEW j \in Elements, j < c.guid
        PROVE  \/ \E f \in Elements : c.id[f] = j
               \/ \E k \in 1 .. n + 1 : c.deleted[k] = j
    <3>1. CASE j = i
      <4>1. n + 1 \in 1 .. n + 1
        BY <1>4
      <4> QED  BY <1>4, <3>1, <4>1
    <3>2. CASE j # i /\ \E f \in Elements : d.id[f] = j
      <4>1. PICK f \in Elements : d.id[f] = j
        BY <3>2
      <4> QED  BY <1>0, <1>3, <3>2, <4>1
    <3>3. CASE \E k \in DOMAIN d.deleted : d.deleted[k] = j
      <4>1. 1 .. n \subseteq 1 .. n + 1
        BY <1>4
      <4> QED  BY <1>4, <3>3, <4>1
    <3> QED  BY <1>2, <2>5, <3>1, <3>2, <3>3 DEF IdsFit
  <2>6. ASSUME NEW j \in Elements, c.cache[j] # Off
        PROVE  \E f \in Elements : c.id[f] = j
    <3>1. j # i /\ d.cache[j] # Off
      BY <1>3, <2>6
    <3>2. PICK f \in Elements : d.id[f] = j
      BY <3>1 DEF IdsFit
    <3> QED  BY <1>0, <1>3, <3>1, <3>2
  <2> QED  BY <1>4, <2>1, <2>2, <2>3, <2>4, <2>5, <2>6 DEF IdsFit
<1> QED
  BY <1>0, <1>2, <1>3, <1>6, <1>7

(* Other listeners.                                                        *)
LEMMA SameIds ==
  ASSUME NEW d, NEW c, c.id = d.id, c.cache = d.cache, c.deleted = d.deleted,
         c.guid = d.guid, IdsFit(d)
  PROVE  IdsFit(c)
BY DEF IdsFit

LEMMA DeafFacts ==
  ASSUME NEW d, DataTypes(d), NEW e \in Elements, NEW ts \in SUBSET Types,
         NEW c, c = Deaf(d, e, ts)
  PROVE  /\ DataTypes(c) /\ c.id = d.id /\ c.cache = d.cache
         /\ c.deleted = d.deleted /\ c.guid = d.guid
         /\ c.listens = [d.listens EXCEPT ![e] = @ \ ts]
         /\ c.attaches = IF "focusin" \in ts THEN d.attaches - 1 ELSE d.attaches
<1>1. /\ d = Data(d.id, d.cache, d.deleted, d.guid, d.listens, d.attaches)
      /\ d.id \in [Elements -> 0 .. Depth]
      /\ d.cache \in [Elements -> Entries \cup {Off}]
      /\ d.deleted \in Seq(Elements) /\ d.guid \in 1 .. Depth + 1
      /\ d.listens \in [Elements -> SUBSET Types] /\ d.attaches \in Int
  BY DataFields
<1>2. PICK l, a : /\ l = [d.listens EXCEPT ![e] = @ \ ts]
                  /\ a = (IF "focusin" \in ts THEN d.attaches - 1 ELSE d.attaches)
  OBVIOUS
<1>3. l \in [Elements -> SUBSET Types] /\ a \in Int
  BY <1>1, <1>2
<1>4. c = [d EXCEPT !.listens = l, !.attaches = a]
  BY <1>2 DEF Deaf
<1>5. c = Data(d.id, d.cache, d.deleted, d.guid, l, a)
  BY <1>1, <1>4 DEF Data
<1>6. c.listens = l /\ c.attaches = a
  BY <1>5 DEF Data
<1>7. /\ DataTypes(c) /\ c.id = d.id /\ c.cache = d.cache
      /\ c.deleted = d.deleted /\ c.guid = d.guid
  BY <1>1, <1>3, <1>5 DEF Data, DataTypes
<1> QED
  BY <1>2, <1>6, <1>7

(* The entry of one element may be empty; it is destroyed then.            *)
EntriesFitBut(d, e) ==
  \A i \in Elements : d.cache[i] # Off =>
    LET some == \E t \in Types : d.cache[i].events[t] # <<>>
    IN  (d.cache[i].handle <=> some) /\ (i # d.id[e] => d.cache[i].public \/ some)

LEMMA Emptied ==
  ASSUME NEW d, DataTypes(d), IdsFit(d), NEW e \in Elements, HasData(d, e),
         EntriesFitBut(d, e),
         NEW c, c = DestroyedIfEmpty(d, e)
  PROVE  /\ DataTypes(c) /\ IdsFit(c) /\ EntriesFit(c) /\ Table(c) = Table(d)
         /\ c.listens = d.listens /\ c.attaches = d.attaches
         /\ c.cache[d.id[e]] # Off => c.id[e] = d.id[e]
         /\ c.cache[d.id[e]] = Off => c.id[e] = 0
<1>0. /\ d.id[e] \in Elements /\ d.cache[d.id[e]] # Off
      /\ d.cache[d.id[e]] \in Entries /\ Table(d)[e] = d.cache[d.id[e]].events
  BY TableFacts, EntryTypes DEF HasData
<1>1. CASE d.cache[d.id[e]] = NoEntry
  <2>1. c = Destroyed(d, e, d.id[e])
    BY <1>1 DEF DestroyedIfEmpty
  <2>2. /\ DataTypes(c) /\ IdsFit(c) /\ Table(c) = [Table(d) EXCEPT ![e] = NoEvents]
        /\ c.id[e] = 0 /\ c.cache = [d.cache EXCEPT ![d.id[e]] = Off]
        /\ c.listens = d.listens /\ c.attaches = d.attaches
    BY <2>1, DestroyedFacts
  <2>3. /\ c.cache[d.id[e]] = Off
        /\ \A i \in Elements \ {d.id[e]} : c.cache[i] = d.cache[i]
    BY <1>0, <2>2, DataFields
  <2>4. EntriesFit(c)
    <3> SUFFICES ASSUME NEW i \in Elements, c.cache[i] # Off PROVE EntryFits(c.cache[i])
      BY DEF EntriesFit
    <3>1. i # d.id[e] /\ c.cache[i] = d.cache[i]
      BY <2>3
    <3> QED  BY <3>1 DEF EntriesFitBut, EntryFits
  <2>5. Table(c) = Table(d)
    <3>1. Table(d)[e] = NoEvents
      BY <1>0, <1>1, NoEntryFacts
    <3>2. Table(d) \in Tables
      BY TableFacts
    <3> QED  BY <2>2, <3>1, <3>2 DEF Tables
  <2> QED  BY <2>2, <2>3, <2>4, <2>5
<1>2. CASE d.cache[d.id[e]] # NoEntry
  <2>1. c = d
    BY <1>2 DEF DestroyedIfEmpty
  <2>2. EntriesFit(d)
    <3> SUFFICES ASSUME NEW i \in Elements, d.cache[i] # Off PROVE EntryFits(d.cache[i])
      BY DEF EntriesFit
    <3>1. CASE i # d.id[e]
      BY <3>1 DEF EntriesFitBut, EntryFits
    <3>2. CASE i = d.id[e]
      <4> DEFINE some == \E t \in Types : d.cache[i].events[t] # <<>>
      <4>1. d.cache[i].handle <=> some
        BY DEF EntriesFitBut
      <4>2. d.cache[i].public \/ some
        <5> SUFFICES ASSUME ~d.cache[i].public, ~some PROVE FALSE
          OBVIOUS
        <5>1. d.cache[i].handle = FALSE /\ d.cache[i].public = FALSE
          <6>1. d.cache[i].handle \in BOOLEAN /\ d.cache[i].public \in BOOLEAN
            BY <1>0, <3>2 DEF Entries
          <6> QED  BY <4>1, <6>1
        <5> QED  BY <1>0, <1>2, <3>2, <5>1, NoEntryFacts
      <4> QED  BY <4>1, <4>2 DEF EntryFits
    <3> QED  BY <3>1, <3>2
  <2> QED  BY <1>0, <2>1, <2>2
<1> QED
  BY <1>1, <1>2

(* remove().                                                               *)
LEMMA LeftFacts ==
  ASSUME NEW d, DataTypes(d), NEW e \in Elements, NEW ts, NEW gone
  PROVE  /\ Left(d, e, ts, gone) \in [Types -> Seq(Handler)]
         /\ \A t \in Types : Part(Left(d, e, ts, gone)[t], Table(d)[e][t])
         /\ \A t \in Types \ ts : Left(d, e, ts, gone)[t] = Table(d)[e][t]
         /\ \A t \in Types : Table(d)[e][t] = <<>> => Left(d, e, ts, gone)[t] = <<>>
         /\ \A t \in Types : t \in ts =>
              /\ \A k \in DOMAIN Left(d, e, ts, gone)[t] :
                   Left(d, e, ts, gone)[t][k] \notin gone
              /\ (\A k \in DOMAIN Table(d)[e][t] : Table(d)[e][t][k] \in gone) =>
                   Left(d, e, ts, gone)[t] = <<>>
<1>1. PICK l : l = Left(d, e, ts, gone)
  OBVIOUS
<1>2. l = [t \in Types |-> IF t \in ts THEN Kept(Handlers(d, e, t), gone)
                           ELSE Handlers(d, e, t)]
  BY <1>1 DEF Left
<1>3. ASSUME NEW t \in Types
      PROVE  /\ l[t] \in Seq(Handler) /\ Part(l[t], Table(d)[e][t])
             /\ t \notin ts => l[t] = Table(d)[e][t]
             /\ Table(d)[e][t] = <<>> => l[t] = <<>>
             /\ t \in ts =>
                  /\ \A k \in DOMAIN l[t] : l[t][k] \notin gone
                  /\ (\A k \in DOMAIN Table(d)[e][t] : Table(d)[e][t][k] \in gone) =>
                       l[t] = <<>>
  <2>1. PICK list : list = Handlers(d, e, t)
    OBVIOUS
  <2>2. list \in Seq(Handler) /\ Table(d)[e][t] = list
    BY <2>1, TableFacts DEF Tables
  <2>3. /\ Kept(list, gone) \in Seq(Handler) /\ Part(Kept(list, gone), list)
        /\ \A k \in DOMAIN Kept(list, gone) : Kept(list, gone)[k] \notin gone
        /\ (\A i \in DOMAIN list : list[i] \in gone) => Kept(list, gone) = <<>>
    BY <2>2, KeptFacts
  <2>4. list = <<>> => Kept(list, gone) = <<>>
    BY <2>3
  <2>5. l[t] = IF t \in ts THEN Kept(list, gone) ELSE list
    BY <1>2, <2>1
  <2> QED  BY <2>2, <2>3, <2>4, <2>5, PartOfItself
<1>4. l \in [Types -> Seq(Handler)]
  BY <1>2, <1>3
<1> QED
  BY <1>1, <1>3, <1>4

Over(d, e, ts, gone) ==
  {t \in ts : Handlers(d, e, t) # <<>> /\ Left(d, e, ts, gone)[t] = <<>>}

LEMMA WithLeftFacts ==
  ASSUME NEW d, NEW b, CoreInv(d, b), NEW e \in Elements, HasData(d, e),
         NEW left \in [Types -> Seq(Handler)],
         NEW c, c = WithLeft(d, e, left)
  PROVE  /\ DataTypes(c) /\ IdsFit(c) /\ HasData(c, e) /\ EntriesFitBut(c, e)
         /\ Table(c) = [Table(d) EXCEPT ![e] = left]
         /\ c.id = d.id /\ c.listens = d.listens /\ c.attaches = d.attaches
<1> DEFINE some == \E t \in Types : left[t] # <<>>
<1>0. DataTypes(d) /\ IdsFit(d) /\ EntriesFit(d)
  BY DEF CoreInv
<1>1. d.id[e] \in Elements /\ d.cache[d.id[e]] \in Entries
  BY <1>0, TableFacts, EntryTypes DEF HasData
<1>2. PICK x : x = [d.cache[d.id[e]] EXCEPT !.events = left, !.handle = some]
  OBVIOUS
<1>3. x \in Entries /\ x.events = left /\ x.handle = some
  BY <1>1, <1>2 DEF Entries
<1>4. NewEntry(c, d, e, x)
  BY <1>2 DEF WithLeft, NewEntry
<1>5. /\ DataTypes(c) /\ IdsFit(c) /\ HasData(c, e)
      /\ Table(c) = [Table(d) EXCEPT ![e] = left]
      /\ c.id = d.id /\ c.cache = [d.cache EXCEPT ![d.id[e]] = x]
      /\ c.listens = d.listens /\ c.attaches = d.attaches
  BY <1>0, <1>3, <1>4, EntryChanged
<1>6. EntriesFitBut(c, e)
  <2> SUFFICES ASSUME NEW i \in Elements, c.cache[i] # Off
               PROVE  LET r == \E t \in Types : c.cache[i].events[t] # <<>>
                      IN  (c.cache[i].handle <=> r) /\ (i # c.id[e] => c.cache[i].public \/ r)
    BY DEF EntriesFitBut
  <2>0. d.cache \in [Elements -> Entries \cup {Off}]
    BY <1>0, DataFields
  <2>1. CASE i = d.id[e]
    <3>1. c.cache[i] = x /\ c.id[e] = i
      BY <1>5, <2>0, <2>1
    <3>2. c.cache[i].events = left /\ c.cache[i].handle = some
      BY <1>3, <3>1
    <3> QED  BY <3>1, <3>2
  <2>2. CASE i # d.id[e]
    <3>1. c.cache[i] = d.cache[i]
      BY <1>5, <2>0, <2>2
    <3> QED  BY <1>0, <3>1 DEF EntriesFit, EntryFits
  <2> QED  BY <2>1, <2>2
<1> QED
  BY <1>5, <1>6

LEMMA RemovedFacts ==
  ASSUME NEW d, NEW b, CoreInv(d, b), NEW e \in Elements, NEW ts \in SUBSET Types,
         NEW gone, NEW c, c = Removed(d, e, ts, gone)
  PROVE  /\ CoreInv(c, b)
         /\ Table(c) = [Table(d) EXCEPT ![e] = Left(d, e, ts, gone)]
         /\ c.listens = [d.listens EXCEPT ![e] = @ \ Over(d, e, ts, gone)]
         /\ c.attaches = IF "focusin" \in Over(d, e, ts, gone) THEN d.attaches - 1
                         ELSE d.attaches
         /\ HasData(d, e) =>
              /\ c.cache[d.id[e]] # Off => c.id[e] = d.id[e]
              /\ c.cache[d.id[e]] = Off => c.id[e] = 0
<1>0. PICK left, over : left = Left(d, e, ts, gone) /\ over = Over(d, e, ts, gone)
  OBVIOUS
<1>1. /\ left \in [Types -> Seq(Handler)] /\ over \in SUBSET Types
      /\ \A t \in Types : Part(left[t], Table(d)[e][t])
      /\ \A t \in Types \ ts : left[t] = Table(d)[e][t]
      /\ \A t \in Types : Table(d)[e][t] = <<>> => left[t] = <<>>
  <2>1. DataTypes(d)
    BY DEF CoreInv
  <2>2. over \in SUBSET Types
    BY <1>0 DEF Over
  <2> QED  BY <1>0, <2>1, <2>2, LeftFacts
<1>2. /\ DataTypes(d) /\ IdsFit(d) /\ EntriesFit(d) /\ TableFits(Table(d), b)
      /\ Table(d) \in Tables
      /\ \A t \in Types : Table(d)[e][t] = Handlers(d, e, t)
  BY TableFacts DEF CoreInv
<1>3. CASE \A t \in ts : Handlers(d, e, t) = <<>>
  <2>1. c = d
    BY <1>3 DEF Removed
  <2>2. over = {}
    BY <1>0, <1>3 DEF Over
  <2>3. left = Table(d)[e]
    <3>1. \A t \in Types : left[t] = Table(d)[e][t]
      BY <1>1, <1>2, <1>3
    <3>2. Table(d)[e] \in [Types -> Seq(Handler)]
      BY <1>2 DEF Tables
    <3> QED  BY <1>1, <3>1, <3>2
  <2>4. Table(c) = [Table(d) EXCEPT ![e] = left]
    BY <1>2, <2>1, <2>3 DEF Tables
  <2>5. c.listens = [d.listens EXCEPT ![e] = @ \ over] /\ c.attaches = d.attaches
    BY <1>2, <2>1, <2>2, DataFields
  <2> QED  BY <1>0, <2>1, <2>2, <2>4, <2>5 DEF HasData
<1>4. CASE ~ \A t \in ts : Handlers(d, e, t) = <<>>
  <2>1. HasData(d, e)
    BY <1>4 DEF Handlers
  <2>2. PICK x : x = WithLeft(d, e, left)
    OBVIOUS
  <2>3. PICK y : y = Deaf(x, e, over)
    OBVIOUS
  <2>4. c = DestroyedIfEmpty(y, e)
    BY <1>0, <1>4, <2>2, <2>3 DEF Removed, Over
  <2>5. /\ DataTypes(x) /\ IdsFit(x) /\ HasData(x, e) /\ EntriesFitBut(x, e)
        /\ Table(x) = [Table(d) EXCEPT ![e] = left]
        /\ x.id = d.id /\ x.listens = d.listens /\ x.attaches = d.attaches
    BY <1>1, <2>1, <2>2, WithLeftFacts
  <2>6. /\ DataTypes(y) /\ y.id = x.id /\ y.cache = x.cache
        /\ y.deleted = x.deleted /\ y.guid = x.guid
        /\ y.listens = [x.listens EXCEPT ![e] = @ \ over]
        /\ y.attaches = IF "focusin" \in over THEN x.attaches - 1 ELSE x.attaches
    BY <1>1, <2>3, <2>5, DeafFacts
  <2>7. /\ IdsFit(y) /\ HasData(y, e) /\ EntriesFitBut(y, e) /\ Table(y) = Table(x)
    <3>1. IdsFit(y)
      BY <2>5, <2>6, SameIds
    <3>2. Table(y) = Table(x)
      BY <2>6, SameTable
    <3> QED  BY <2>5, <2>6, <3>1, <3>2 DEF HasData, EntriesFitBut
  <2>8. /\ DataTypes(c) /\ IdsFit(c) /\ EntriesFit(c) /\ Table(c) = Table(y)
        /\ c.listens = y.listens /\ c.attaches = y.attaches
        /\ c.cache[y.id[e]] # Off => c.id[e] = y.id[e]
        /\ c.cache[y.id[e]] = Off => c.id[e] = 0
    BY <2>4, <2>6, <2>7, Emptied
  <2>9. TableFits(Table(c), b)
    <3>1. Table(c) \in Tables
      BY <2>8, TableFacts
    <3>2. \A f \in Elements, t \in Types : Part(Table(c)[f][t], Table(d)[f][t])
      <4> TAKE f \in Elements, t \in Types
      <4>1. CASE f = e
        BY <1>1, <1>2, <2>5, <2>7, <2>8, <4>1 DEF Tables
      <4>2. CASE f # e
        <5>1. Table(c)[f] = Table(d)[f]
          BY <1>2, <2>5, <2>7, <2>8, <4>2 DEF Tables
        <5> QED  BY <5>1, PartOfItself
      <4> QED  BY <4>1, <4>2
    <3> QED  BY <1>2, <3>1, <3>2, TableLess
  <2>10. CoreInv(c, b)
    BY <2>8, <2>9 DEF CoreInv
  <2> QED  BY <1>0, <2>5, <2>6, <2>7, <2>8, <2>10
<1> QED
  BY <1>3, <1>4

(* What the operations keep, and what they leave bound.                    *)
LEMMA OneRow ==
  ASSUME NEW T \in Tables, NEW b, TableFits(T, b), NEW e \in Elements,
         NEW row \in [Types -> Seq(Handler)],
         \A t \in Types : Part(row[t], T[e][t]),
         NEW U, U = [T EXCEPT ![e] = row]
  PROVE  /\ U \in Tables /\ TableFits(U, b)
         /\ \A f \in Elements : \A h : Bound(U, f, h) => Bound(T, f, h)
<1>1. U \in Tables /\ U[e] = row /\ \A f \in Elements \ {e} : U[f] = T[f]
  BY DEF Tables
<1>2. \A f \in Elements, t \in Types : Part(U[f][t], T[f][t])
  <2> TAKE f \in Elements, t \in Types
  <2>1. CASE f = e
    BY <1>1, <2>1
  <2>2. CASE f # e
    <3>1. U[f] = T[f]
      BY <1>1, <2>2
    <3> QED  BY <3>1, PartOfItself
  <2> QED  BY <2>1, <2>2
<1> QED
  BY <1>1, <1>2, TableLess

LEMMA RemovedKeeps ==
  ASSUME NEW d, NEW b, DataInv(d, b), NEW e \in Elements, NEW ts \in SUBSET Types,
         NEW gone, NEW c, c = Removed(d, e, ts, gone)
  PROVE  /\ DataInv(c, b)
         /\ \A f \in Elements : \A h : Bound(Table(c), f, h) => Bound(Table(d), f, h)
         /\ \A t \in ts : \A k \in DOMAIN Table(c)[e][t] : Table(c)[e][t][k] \notin gone
<1>0. PICK left, over : left = Left(d, e, ts, gone) /\ over = Over(d, e, ts, gone)
  OBVIOUS
<1>1. CoreInv(d, b) /\ ListensFit(Table(d), d.listens, d.attaches) /\ DataTypes(d)
      /\ TableFits(Table(d), b) /\ d.listens \in [Elements -> SUBSET Types]
  BY DataFields DEF DataInv, CoreInv
<1>2. /\ CoreInv(c, b)
      /\ Table(c) = [Table(d) EXCEPT ![e] = left]
      /\ c.listens = [d.listens EXCEPT ![e] = @ \ over]
      /\ c.attaches = IF "focusin" \in over THEN d.attaches - 1 ELSE d.attaches
  BY <1>0, <1>1, RemovedFacts
<1>3. /\ left \in [Types -> Seq(Handler)]
      /\ \A t \in Types : Part(left[t], Table(d)[e][t])
      /\ \A t \in Types \ ts : left[t] = Table(d)[e][t]
      /\ \A t \in Types : Table(d)[e][t] = <<>> => left[t] = <<>>
      /\ \A t \in ts : \A k \in DOMAIN left[t] : left[t][k] \notin gone
  BY <1>0, <1>1, LeftFacts
<1>4. /\ over \in SUBSET Types
      /\ \A t \in Types : t \in over <=> Table(d)[e][t] # <<>> /\ left[t] = <<>>
  <2>1. \A t \in Types : Table(d)[e][t] = Handlers(d, e, t)
    BY <1>1, TableFacts
  <2>2. over \in SUBSET Types
    BY <1>0 DEF Over
  <2>3. ASSUME NEW t \in Types PROVE t \in over <=> Table(d)[e][t] # <<>> /\ left[t] = <<>>
    BY <1>0, <1>3, <2>1 DEF Over
  <2> QED  BY <2>2, <2>3
<1>5. Table(d) \in Tables
  BY <1>1, TableFacts
<1>6. ListensFit(Table(c), c.listens, c.attaches)
  <2>1. ListensFit([Table(d) EXCEPT ![e] = left], [d.listens EXCEPT ![e] = @ \ over],
                   IF "focusin" \in over THEN d.attaches - 1 ELSE d.attaches)
    <3>1. \A t \in Types : left[t] # <<>> => Table(d)[e][t] # <<>>
      BY <1>3
    <3> QED  BY <1>1, <1>3, <1>4, <1>5, <3>1, ListensLess
  <2> QED  BY <1>2, <2>1
<1>7. \A f \in Elements : \A h : Bound(Table(c), f, h) => Bound(Table(d), f, h)
  BY <1>1, <1>2, <1>3, <1>5, OneRow
<1>8. Table(c)[e] = left
  BY <1>2, <1>5 DEF Tables
<1> QED
  BY <1>2, <1>3, <1>6, <1>7, <1>8 DEF DataInv

LEMMA CleanedKeeps ==
  ASSUME NEW d, NEW b, DataInv(d, b), NEW e \in Elements, NEW c, c = Cleaned(d, e)
  PROVE  /\ DataInv(c, b)
         /\ \A f \in Elements : \A h : Bound(Table(c), f, h) => Bound(Table(d), f, h)
<1>1. /\ CoreInv(d, b) /\ ListensFit(Table(d), d.listens, d.attaches) /\ DataTypes(d)
      /\ TableFits(Table(d), b) /\ Table(d) \in Tables /\ IdsFit(d) /\ EntriesFit(d)
      /\ d.listens \in [Elements -> SUBSET Types] /\ d.attaches \in Int
      /\ \A t \in Types : Table(d)[e][t] = Handlers(d, e, t)
  BY DataFields, TableFacts DEF DataInv, CoreInv
<1>2. CASE ~HasData(d, e)
  BY <1>2 DEF Cleaned
<1>3. CASE HasData(d, e)
  <2>1. PICK plain, special, x, s, gone, over, left :
          /\ plain = {t \in Types \ Special : Handlers(d, e, t) # <<>>}
          /\ special = Special \cap Types
          /\ x = Deaf(d, e, plain) /\ gone = AllOf(d, e, special)
          /\ s = Removed(x, e, special, gone)
          /\ over = Over(x, e, special, gone)
          /\ left = Left(x, e, special, gone)
    OBVIOUS
  <2>2. s = Stripped(d, e)
    BY <2>1 DEF Stripped
  <2>3. plain \in SUBSET Types /\ special \in SUBSET Types /\ "focusin" \notin plain
    BY <2>1 DEF Special
  <2>4. /\ DataTypes(x) /\ x.id = d.id /\ x.cache = d.cache
        /\ x.deleted = d.deleted /\ x.guid = d.guid
        /\ x.listens = [d.listens EXCEPT ![e] = @ \ plain]
        /\ x.attaches = d.attaches
    BY <1>1, <2>1, <2>3, DeafFacts
  <2>5. CoreInv(x, b) /\ Table(x) = Table(d) /\ HasData(x, e)
    <3>1. IdsFit(x)
      BY <1>1, <2>4, SameIds
    <3>2. Table(x) = Table(d)
      BY <2>4, SameTable
    <3> QED  BY <1>1, <1>3, <2>4, <3>1, <3>2 DEF CoreInv, EntriesFit, HasData
  <2>6. /\ CoreInv(s, b)
        /\ Table(s) = [Table(d) EXCEPT ![e] = left]
        /\ s.listens = [x.listens EXCEPT ![e] = @ \ over]
        /\ s.attaches = IF "focusin" \in over THEN x.attaches - 1 ELSE x.attaches
        /\ s.cache[d.id[e]] # Off => s.id[e] = d.id[e]
        /\ s.cache[d.id[e]] = Off => s.id[e] = 0
    <3>1. s = Removed(x, e, special, gone)
      BY <2>1
    <3>3. left = Left(x, e, special, gone) /\ over = Over(x, e, special, gone)
      BY <2>1
    <3>2. /\ CoreInv(s, b)
          /\ Table(s) = [Table(x) EXCEPT ![e] = left]
          /\ s.listens = [x.listens EXCEPT ![e] = @ \ over]
          /\ s.attaches = IF "focusin" \in over THEN x.attaches - 1 ELSE x.attaches
          /\ s.cache[x.id[e]] # Off => s.id[e] = x.id[e]
          /\ s.cache[x.id[e]] = Off => s.id[e] = 0
      BY <2>3, <2>5, <3>1, <3>3, RemovedFacts
    <3> QED  BY <2>4, <2>5, <3>2, <3>3
  <2>7. \A t \in special : \A k \in DOMAIN Table(d)[e][t] : Table(d)[e][t][k] \in gone
    <3> SUFFICES ASSUME NEW t \in special, NEW k \in DOMAIN Table(d)[e][t]
                 PROVE  Table(d)[e][t][k] \in gone
      OBVIOUS
    <3>1. Table(d)[e][t] = Handlers(d, e, t) /\ Table(d)[e][t] \in Seq(Handler)
      BY <1>1, <2>3 DEF Tables
    <3>2. Handlers(d, e, t)[k] \in ToSet(Handlers(d, e, t))
      BY <3>1 DEF ToSet
    <3> QED  BY <2>1, <3>1, <3>2 DEF AllOf
  <2>8. /\ left \in [Types -> Seq(Handler)]
        /\ \A t \in Types : Part(left[t], Table(d)[e][t])
        /\ \A t \in special : left[t] = <<>>
    <3>1. /\ left \in [Types -> Seq(Handler)]
          /\ \A t \in Types : Part(left[t], Table(x)[e][t])
          /\ \A t \in Types : t \in special =>
               ((\A k \in DOMAIN Table(x)[e][t] : Table(x)[e][t][k] \in gone) => left[t] = <<>>)
      <4>1. left = Left(x, e, special, gone)
        BY <2>1
      <4> QED  BY <2>4, <4>1, LeftFacts
    <3>2. \A t \in special : left[t] = <<>>
      BY <2>3, <2>5, <2>7, <3>1
    <3> QED  BY <2>5, <3>1, <3>2
  <2>9. \A t \in Types : t \in over <=> t \in special /\ Table(d)[e][t] # <<>>
    <3>1. \A t \in Types : Handlers(x, e, t) = Table(d)[e][t]
      BY <2>4, <2>5, TableFacts
    <3> QED  BY <2>1, <2>3, <2>8, <3>1 DEF Over
  <2>10. \A t \in Types : t \in plain \cup over <=> Table(d)[e][t] # <<>>
    BY <1>1, <2>1, <2>3, <2>9
  <2>11. over \in SUBSET Types
    BY <2>1, <2>3 DEF Over
  <2>12. s.cache[d.id[e]] # Off => HasData(s, e)
    <3>1. d.id[e] # 0
      BY <1>3 DEF HasData
    <3> QED  BY <2>6, <3>1 DEF HasData
  <2>13. c = IF s.cache[d.id[e]] # Off THEN Destroyed(s, e, s.id[e]) ELSE s
    BY <1>3, <2>2, <2>6 DEF Cleaned
  <2>14. DataTypes(s) /\ IdsFit(s) /\ EntriesFit(s)
    BY <2>6 DEF CoreInv
  <2>15. /\ DataTypes(c) /\ IdsFit(c) /\ EntriesFit(c)
         /\ Table(c) = [Table(d) EXCEPT ![e] = NoEvents]
         /\ c.listens = s.listens /\ c.attaches = s.attaches
    <3>1. CASE s.cache[d.id[e]] # Off
      <4>1. c = Destroyed(s, e, s.id[e])
        BY <2>13, <3>1
      <4>2. /\ DataTypes(c) /\ IdsFit(c)
            /\ Table(c) = [Table(s) EXCEPT ![e] = NoEvents]
            /\ c.cache = [s.cache EXCEPT ![s.id[e]] = Off]
            /\ c.listens = s.listens /\ c.attaches = s.attaches
        BY <2>12, <2>14, <3>1, <4>1, DestroyedFacts
      <4>3. EntriesFit(c)
        <5> SUFFICES ASSUME NEW i \in Elements, c.cache[i] # Off
                     PROVE  EntryFits(c.cache[i])
          BY DEF EntriesFit
        <5>1. s.cache \in [Elements -> Entries \cup {Off}]
          BY <2>14, DataFields
        <5>2. c.cache[i] = s.cache[i]
          BY <4>2, <5>1
        <5> QED  BY <2>14, <5>2 DEF EntriesFit
      <4>4. Table(c) = [Table(d) EXCEPT ![e] = NoEvents]
        BY <1>1, <2>6, <4>2 DEF Tables
      <4> QED  BY <4>2, <4>3, <4>4
    <3>2. CASE s.cache[d.id[e]] = Off
      <4>1. c = s /\ s.id[e] = 0
        BY <2>6, <2>13, <3>2
      <4>2. ~HasData(s, e)
        BY <4>1 DEF HasData
      <4>3. Table(s)[e] = IF HasData(s, e) THEN s.cache[s.id[e]].events ELSE NoEvents
        BY <2>14, TableRow
      <4>4. left = NoEvents
        BY <1>1, <2>6, <4>2, <4>3 DEF Tables
      <4> QED  BY <2>6, <2>14, <4>1, <4>4
    <3> QED  BY <3>1, <3>2
  <2>16. NoEvents \in [Types -> Seq(Handler)] /\ \A t \in Types : NoEvents[t] = <<>>
    BY NoEntryFacts
  <2>17. TableFits(Table(c), b)
         /\ \A f \in Elements : \A h : Bound(Table(c), f, h) => Bound(Table(d), f, h)
    <3>1. \A t \in Types : Part(NoEvents[t], Table(d)[e][t])
      BY <2>16 DEF Part
    <3> QED  BY <1>1, <2>15, <2>16, <3>1, OneRow
  <2>18. ListensFit(Table(c), c.listens, c.attaches)
    <3>1. PICK all : all = plain \cup over
      OBVIOUS
    <3>2. all \in SUBSET Types /\ \A t \in Types : t \in all <=> Table(d)[e][t] # <<>> /\ NoEvents[t] = <<>>
      BY <2>3, <2>10, <2>11, <2>16, <3>1
    <3>3. c.listens = [d.listens EXCEPT ![e] = @ \ all]
      <4>1. c.listens = [x.listens EXCEPT ![e] = @ \ over]
        BY <2>6, <2>15
      <4>2. (d.listens[e] \ plain) \ over = d.listens[e] \ all
        BY <3>1
      <4> QED  BY <1>1, <2>4, <4>1, <4>2
    <3>4. c.attaches = IF "focusin" \in all THEN d.attaches - 1 ELSE d.attaches
      BY <2>3, <2>4, <2>6, <2>15, <3>1
    <3>5. /\ ListensFit([Table(d) EXCEPT ![e] = NoEvents], [d.listens EXCEPT ![e] = @ \ all],
                        IF "focusin" \in all THEN d.attaches - 1 ELSE d.attaches)
      <4>1. \A t \in Types : NoEvents[t] # <<>> => Table(d)[e][t] # <<>>
        BY <2>16
      <4> QED  BY <1>1, <2>16, <3>2, <4>1, ListensLess
    <3> QED  BY <2>15, <3>3, <3>4, <3>5
  <2> QED  BY <2>15, <2>17, <2>18 DEF DataInv, CoreInv
<1> QED
  BY <1>2, <1>3

(* add().                                                                  *)
LEMMA ListeningFacts ==
  ASSUME NEW d, DataTypes(d), NEW e \in Elements, NEW t \in Types,
         NEW c, c = Listening(d, e, t)
  PROVE  /\ DataTypes(c) /\ c.id = d.id /\ c.cache = d.cache
         /\ c.deleted = d.deleted /\ c.guid = d.guid
         /\ t = "focusin" => c.listens = d.listens /\ c.attaches = d.attaches + 1
         /\ t # "focusin" => /\ c.listens = [d.listens EXCEPT ![e] = @ \cup {t}]
                             /\ c.attaches = d.attaches
<1>1. /\ d = Data(d.id, d.cache, d.deleted, d.guid, d.listens, d.attaches)
      /\ d.id \in [Elements -> 0 .. Depth]
      /\ d.cache \in [Elements -> Entries \cup {Off}]
      /\ d.deleted \in Seq(Elements) /\ d.guid \in 1 .. Depth + 1
      /\ d.listens \in [Elements -> SUBSET Types] /\ d.attaches \in Int
  BY DataFields
<1>2. PICK l, a :
        /\ l = (IF t = "focusin" THEN d.listens ELSE [d.listens EXCEPT ![e] = @ \cup {t}])
        /\ a = (IF t = "focusin" THEN d.attaches + 1 ELSE d.attaches)
  OBVIOUS
<1>3. l \in [Elements -> SUBSET Types] /\ a \in Int
  BY <1>1, <1>2
<1>4. c = Data(d.id, d.cache, d.deleted, d.guid, l, a)
  BY <1>1, <1>2 DEF Listening, Data
<1>5. c.listens = l /\ c.attaches = a
  BY <1>4 DEF Data
<1>6. /\ DataTypes(c) /\ c.id = d.id /\ c.cache = d.cache
      /\ c.deleted = d.deleted /\ c.guid = d.guid
  BY <1>1, <1>3, <1>4 DEF Data, DataTypes
<1> QED
  BY <1>2, <1>5, <1>6

LEMMA AddedKeeps ==
  ASSUME NEW d, NEW b \in Nat, DataInv(d, b), NEW e \in Elements, NEW h \in Handler,
         h.n = b + 1, NEW c, c = Added(d, e, h)
  PROVE  /\ DataInv(c, b + 1)
         /\ \A f \in Elements : \A x :
              Bound(Table(c), f, x) => Bound(Table(d), f, x) \/ (f = e /\ x = h)
<1>1. /\ CoreInv(d, b) /\ ListensFit(Table(d), d.listens, d.attaches) /\ DataTypes(d)
      /\ TableFits(Table(d), b) /\ Table(d) \in Tables /\ IdsFit(d) /\ EntriesFit(d)
      /\ d.listens \in [Elements -> SUBSET Types] /\ d.attaches \in Int
  BY DataFields, TableFacts DEF DataInv, CoreInv
<1>2. PICK t, has, list, listed, hears :
        /\ t = h.type /\ has = WithData(d, e) /\ list = Handlers(has, e, t)
        /\ listed = (IF h.sel THEN InsertAt(list, Delegates(list) + 1, h)
                              ELSE Append(list, h))
        /\ hears = (IF list = <<>> THEN Listening(has, e, t) ELSE has)
  OBVIOUS
<1>3. t \in Types
  BY <1>2 DEF Handler
<1>4. /\ DataTypes(has) /\ IdsFit(has) /\ HasData(has, e) /\ Table(has) = Table(d)
      /\ has.listens = d.listens /\ has.attaches = d.attaches
      /\ has.id[e] \in Elements
      /\ \A j \in Elements \ {has.id[e]} : has.cache[j] = d.cache[j]
  BY <1>1, <1>2, WithDataFacts
<1>5. list = Table(d)[e][t] /\ list \in Seq(Handler) /\ InOrder(list)
  <2>1. list = Table(has)[e][t]
    BY <1>2, <1>3, <1>4, TableFacts
  <2> QED  BY <1>1, <1>3, <1>4, <2>1 DEF Tables, TableFits
<1>6. InOrder(listed) /\ \E p : PutIn(listed, list, p, h)
  BY <1>2, <1>5, Listed
<1>7. PICK p : PutIn(listed, list, p, h)
  BY <1>6
<1>8. listed \in Seq(Handler) /\ listed # <<>>
  <2>1. listed \in Seq(Handler) /\ Len(listed) = Len(list) + 1 /\ Len(list) \in Nat
    BY <1>5, <1>7 DEF PutIn
  <2> QED  BY <2>1
<1>9. /\ DataTypes(hears) /\ hears.id = has.id /\ hears.cache = has.cache
      /\ hears.deleted = has.deleted /\ hears.guid = has.guid
      /\ list # <<>> => hears.listens = has.listens /\ hears.attaches = has.attaches
      /\ list = <<>> =>
           /\ t = "focusin" => hears.listens = has.listens
                               /\ hears.attaches = has.attaches + 1
           /\ t # "focusin" => /\ hears.listens = [has.listens EXCEPT ![e] = @ \cup {t}]
                               /\ hears.attaches = has.attaches
  <2>1. CASE list = <<>>
    <3>1. hears = Listening(has, e, t)
      BY <1>2, <2>1
    <3> QED  BY <1>3, <1>4, <2>1, <3>1, ListeningFacts
  <2>2. CASE list # <<>>
    <3>1. hears = has
      BY <1>2, <2>2
    <3> QED  BY <1>4, <2>2, <3>1
  <2> QED  BY <2>1, <2>2
<1>10. IdsFit(hears) /\ HasData(hears, e) /\ Table(hears) = Table(d)
  <2>1. IdsFit(hears)
    BY <1>4, <1>9, SameIds
  <2>2. Table(hears) = Table(has)
    BY <1>9, SameTable
  <2> QED  BY <1>4, <1>9, <2>1, <2>2 DEF HasData
<1>11. PICK x : x = [hears.cache[has.id[e]] EXCEPT !.events[t] = listed, !.handle = TRUE]
  OBVIOUS
<1>12. /\ x \in Entries /\ x.events = [Table(d)[e] EXCEPT ![t] = listed]
       /\ x.handle = TRUE
  <2>1. has.cache[has.id[e]] \in Entries
    BY <1>4, EntryTypes DEF HasData
  <2>2. has.cache[has.id[e]].events = Table(d)[e]
    BY <1>4, TableFacts
  <2>3. [Table(d)[e] EXCEPT ![t] = listed] \in [Types -> Seq(Handler)]
    BY <1>1, <1>8 DEF Tables
  <2> QED  BY <1>9, <1>11, <2>1, <2>2, <2>3 DEF Entries
<1>13. NewEntry(c, hears, e, x)
  <2>1. c = [hears EXCEPT !.cache[has.id[e]] =
               [@ EXCEPT !.events[t] = listed, !.handle = TRUE]]
    BY <1>2 DEF Added
  <2> QED  BY <1>9, <1>11, <2>1 DEF NewEntry
<1>14. /\ DataTypes(c) /\ IdsFit(c) /\ HasData(c, e)
       /\ Table(c) = [Table(d) EXCEPT ![e] = [@ EXCEPT ![t] = listed]]
       /\ c.id = has.id /\ c.cache = [has.cache EXCEPT ![has.id[e]] = x]
       /\ c.listens = hears.listens /\ c.attaches = hears.attaches
  <2>1. /\ DataTypes(c) /\ IdsFit(c) /\ HasData(c, e)
        /\ Table(c) = [Table(hears) EXCEPT ![e] = x.events]
        /\ c.id = hears.id /\ c.cache = [hears.cache EXCEPT ![hears.id[e]] = x]
        /\ c.listens = hears.listens /\ c.attaches = hears.attaches
    BY <1>9, <1>10, <1>12, <1>13, EntryChanged
  <2> QED  BY <1>9, <1>10, <1>12, <2>1
<1>15. EntriesFit(c)
  <2> SUFFICES ASSUME NEW i \in Elements, c.cache[i] # Off PROVE EntryFits(c.cache[i])
    BY DEF EntriesFit
  <2>0. has.cache \in [Elements -> Entries \cup {Off}]
    BY <1>4, DataFields
  <2>1. CASE i = has.id[e]
    <3>1. c.cache[i] = x
      BY <1>14, <2>0, <2>1
    <3>2. x.events[t] # <<>>
      BY <1>1, <1>3, <1>8, <1>12 DEF Tables
    <3> QED  BY <1>3, <1>12, <3>1, <3>2 DEF EntryFits
  <2>2. CASE i # has.id[e]
    <3>1. c.cache[i] = d.cache[i]
      BY <1>4, <1>14, <2>0, <2>2
    <3> QED  BY <1>1, <3>1 DEF EntriesFit
  <2> QED  BY <2>1, <2>2
<1>16. /\ TableFits(Table(c), b + 1)
       /\ \A f \in Elements : \A y :
            Bound(Table(c), f, y) => Bound(Table(d), f, y) \/ (f = e /\ y = h)
  <2>1. PutIn(listed, Table(d)[e][t], p, h) /\ h.type = t
    BY <1>2, <1>5, <1>7
  <2>2. PICK U : U = Table(c)
    OBVIOUS
  <2>3. RowWith(U, Table(d), e, t, listed)
    BY <1>14, <2>2 DEF RowWith
  <2>4. /\ Table(d) \in Tables /\ TableFits(Table(d), b) /\ b \in Nat /\ e \in Elements
        /\ t \in Types /\ h \in Handler /\ h.n = b + 1 /\ InOrder(listed)
    BY <1>1, <1>3, <1>6
  <2>5. /\ TableFits(U, b + 1)
        /\ \A f \in Elements : \A y :
             Bound(U, f, y) => Bound(Table(d), f, y) \/ (f = e /\ y = h)
    BY ONLY <2>1, <2>3, <2>4, TableMore
  <2> QED  BY <2>2, <2>5
<1>17. ListensFit(Table(c), c.listens, c.attaches)
  <2>1. PICK U : U = [Table(d) EXCEPT ![e] = [@ EXCEPT ![t] = listed]]
    OBVIOUS
  <2>2. /\ list # <<>> => ListensFit(U, d.listens, d.attaches)
        /\ list = <<>> =>
             IF t = "focusin" THEN ListensFit(U, d.listens, d.attaches + 1)
             ELSE ListensFit(U, [d.listens EXCEPT ![e] = @ \cup {t}], d.attaches)
    BY <1>1, <1>3, <1>5, <1>8, <2>1, ListensMore
  <2> QED  BY <1>4, <1>9, <1>14, <2>1, <2>2
<1> QED
  BY <1>14, <1>15, <1>16, <1>17 DEF DataInv, CoreInv

(* data() and removeData(): the handlers are as before.                    *)
PublicSet(c, d, e) ==
  c = LET x == WithData(d, e) IN [x EXCEPT !.cache[x.id[e]].public = TRUE]
PublicRemoved(c, d, e) ==
  c = DestroyedIfEmpty([d EXCEPT !.cache[d.id[e]].public = FALSE], e)

LEMMA SetDataKeeps ==
  ASSUME NEW d, NEW b, DataInv(d, b), NEW e \in Elements, NEW c, PublicSet(c, d, e)
  PROVE  DataInv(c, b) /\ Table(c) = Table(d)
<1>1. /\ CoreInv(d, b) /\ ListensFit(Table(d), d.listens, d.attaches) /\ DataTypes(d)
      /\ TableFits(Table(d), b) /\ Table(d) \in Tables /\ IdsFit(d) /\ EntriesFit(d)
  BY TableFacts DEF DataInv, CoreInv
<1>2. PICK has : has = WithData(d, e)
  OBVIOUS
<1>3. /\ DataTypes(has) /\ IdsFit(has) /\ HasData(has, e) /\ Table(has) = Table(d)
      /\ has.listens = d.listens /\ has.attaches = d.attaches
      /\ has.id[e] \in Elements
      /\ \A j \in Elements \ {has.id[e]} : has.cache[j] = d.cache[j]
      /\ has.cache[has.id[e]] = IF HasData(d, e) THEN d.cache[has.id[e]] ELSE NoEntry
  BY <1>1, <1>2, WithDataFacts
<1>4. PICK x : x = [has.cache[has.id[e]] EXCEPT !.public = TRUE]
  OBVIOUS
<1>5. /\ has.cache[has.id[e]] \in Entries
      /\ has.cache[has.id[e]].events = Table(d)[e] /\ has.cache[has.id[e]] # Off
  BY <1>3, EntryTypes, TableFacts DEF HasData
<1>6. /\ x \in Entries /\ x.events = Table(d)[e] /\ x.public = TRUE
      /\ x.handle = has.cache[has.id[e]].handle
  BY <1>4, <1>5 DEF Entries
<1>7. NewEntry(c, has, e, x)
  BY <1>2, <1>4 DEF NewEntry, PublicSet
<1>8. /\ DataTypes(c) /\ IdsFit(c)
      /\ Table(c) = [Table(has) EXCEPT ![e] = x.events]
      /\ c.cache = [has.cache EXCEPT ![has.id[e]] = x]
      /\ c.listens = has.listens /\ c.attaches = has.attaches
  BY <1>3, <1>6, <1>7, EntryChanged
<1>9. Table(c) = Table(d)
  BY <1>1, <1>3, <1>6, <1>8 DEF Tables
<1>10. EntriesFit(c)
  <2> SUFFICES ASSUME NEW i \in Elements, c.cache[i] # Off PROVE EntryFits(c.cache[i])
    BY DEF EntriesFit
  <2>0. has.cache \in [Elements -> Entries \cup {Off}]
    BY <1>3, DataFields
  <2>1. CASE i = has.id[e]
    <3>1. c.cache[i] = x
      BY <1>8, <2>0, <2>1
    <3>2. has.cache[i].handle <=> \E t \in Types : has.cache[i].events[t] # <<>>
      <4>1. CASE HasData(d, e)
        <5>1. EntryFits(has.cache[i])
          BY <1>1, <1>3, <1>5, <2>1, <4>1 DEF EntriesFit
        <5> QED  BY <5>1 DEF EntryFits
      <4>2. CASE ~HasData(d, e)
        <5>1. has.cache[i] = NoEntry
          BY <1>3, <2>1, <4>2
        <5>2. NoEntry.handle = FALSE
          BY DEF NoEntry
        <5> QED  BY <5>1, <5>2, NoEntryFacts
      <4> QED  BY <4>1, <4>2
    <3> QED  BY <1>5, <1>6, <2>1, <3>1, <3>2 DEF EntryFits
  <2>2. CASE i # has.id[e]
    <3>1. c.cache[i] = d.cache[i]
      BY <1>3, <1>8, <2>0, <2>2
    <3> QED  BY <1>1, <3>1 DEF EntriesFit
  <2> QED  BY <2>1, <2>2
<1> QED
  BY <1>1, <1>3, <1>8, <1>9, <1>10 DEF DataInv, CoreInv

LEMMA RemoveDataKeeps ==
  ASSUME NEW d, NEW b, DataInv(d, b), NEW e \in Elements, HasData(d, e),
         NEW c, PublicRemoved(c, d, e)
  PROVE  DataInv(c, b) /\ Table(c) = Table(d)
<1>1. /\ CoreInv(d, b) /\ ListensFit(Table(d), d.listens, d.attaches) /\ DataTypes(d)
      /\ TableFits(Table(d), b) /\ Table(d) \in Tables /\ IdsFit(d) /\ EntriesFit(d)
  BY TableFacts DEF DataInv, CoreInv
<1>2. PICK x : x = [d.cache[d.id[e]] EXCEPT !.public = FALSE]
  OBVIOUS
<1>3. PICK y : y = [d EXCEPT !.cache[d.id[e]] = x]
  OBVIOUS
<1>4. /\ d.cache[d.id[e]] \in Entries /\ d.id[e] \in Elements
      /\ d.cache[d.id[e]].events = Table(d)[e] /\ d.cache[d.id[e]] # Off
  BY <1>1, EntryTypes, TableFacts DEF HasData
<1>5. /\ x \in Entries /\ x.events = Table(d)[e]
      /\ x.handle = d.cache[d.id[e]].handle
  BY <1>2, <1>4 DEF Entries
<1>6. /\ DataTypes(y) /\ IdsFit(y) /\ HasData(y, e)
      /\ Table(y) = [Table(d) EXCEPT ![e] = x.events]
      /\ y.id = d.id /\ y.cache = [d.cache EXCEPT ![d.id[e]] = x]
      /\ y.listens = d.listens /\ y.attaches = d.attaches
  <2>1. NewEntry(y, d, e, x)
    BY <1>3 DEF NewEntry
  <2> QED  BY <1>1, <1>5, <2>1, EntryChanged
<1>7. Table(y) = Table(d)
  BY <1>1, <1>5, <1>6 DEF Tables
<1>8. EntriesFitBut(y, e)
  <2> SUFFICES ASSUME NEW i \in Elements, y.cache[i] # Off
               PROVE  LET r == \E t \in Types : y.cache[i].events[t] # <<>>
                      IN  (y.cache[i].handle <=> r) /\ (i # y.id[e] => y.cache[i].public \/ r)
    BY DEF EntriesFitBut
  <2>0. d.cache \in [Elements -> Entries \cup {Off}]
    BY <1>1, DataFields
  <2>1. CASE i = d.id[e]
    <3>1. y.cache[i] = x /\ y.id[e] = i
      BY <1>6, <2>0, <2>1
    <3>2. EntryFits(d.cache[i])
      BY <1>1, <1>4, <2>1 DEF EntriesFit
    <3> QED  BY <1>4, <1>5, <2>1, <3>1, <3>2 DEF EntryFits
  <2>2. CASE i # d.id[e]
    <3>1. y.cache[i] = d.cache[i]
      BY <1>6, <2>0, <2>2
    <3> QED  BY <1>1, <3>1 DEF EntriesFit, EntryFits
  <2> QED  BY <2>1, <2>2
<1>9. c = DestroyedIfEmpty(y, e)
  BY <1>2, <1>3 DEF PublicRemoved
<1>10. /\ DataTypes(c) /\ IdsFit(c) /\ EntriesFit(c) /\ Table(c) = Table(y)
       /\ c.listens = y.listens /\ c.attaches = y.attaches
  BY <1>6, <1>8, <1>9, Emptied
<1> QED
  BY <1>1, <1>6, <1>7, <1>10 DEF DataInv, CoreInv

-----------------------------------------------------------------------------
(* The stack, from the top down.                                           *)
LEMMA FrameFacts ==
  ASSUME NEW x \in Frames
  PROVE  /\ x.runs \in {"native", "trigger", "default", "dispatch", "body", "clean"}
         /\ Tells(x) => /\ x.v \in 1 .. MaxDeeds /\ x.type \in Types
                        /\ x.target \in Elements /\ x.at \in 1 .. Depth + 1
                        /\ x.stopped \in BOOLEAN
         /\ x.runs = "dispatch" =>
              /\ x.v \in 1 .. MaxDeeds /\ x.type \in Types
              /\ x.target \in Elements /\ x.at \in Elements
              /\ x.rest \in Seq(Handler) /\ x.group \in BOOLEAN \cup {Off}
              /\ x.spaced \in BOOLEAN /\ x.stopped \in BOOLEAN
              /\ x.immediate \in BOOLEAN /\ x.prevented \in BOOLEAN
              /\ x.had \in SUBSET (1 .. MaxDeeds) /\ x.since \in 0 .. MaxDeeds
         /\ x.runs = "body" => x.h \in Handler
         /\ x.runs = "clean" => x.at \in Elements
BY DEF Frames, Tells

LEMMA HandlerFacts ==
  ASSUME NEW h \in Handler
  PROVE  h.n \in 1 .. MaxDeeds /\ h.n \in Nat /\ h.type \in Types /\ h.sel \in BOOLEAN
         /\ h.one \in BOOLEAN
BY Consts DEF Handler

LEMMA PushPlaces ==
  ASSUME NEW S, NEW x \in S, NEW b \in Seq(S), NEW s, s = <<x>> \o b
  PROVE  /\ s \in Seq(S) /\ Len(s) = Len(b) + 1 /\ s # <<>>
         /\ Head(s) = x /\ Tail(s) = b
         /\ 1 \in DOMAIN s /\ s[1] = x
         /\ \A j \in DOMAIN b : j \in Nat /\ j + 1 \in DOMAIN s /\ s[j + 1] = b[j]
         /\ \A i \in DOMAIN s : i \in Nat /\ (i = 1 \/ i - 1 \in DOMAIN b)
<1>1. Len(b) \in Nat /\ DOMAIN b = 1 .. Len(b)
  OBVIOUS
<1>2. s \in Seq(S) /\ Len(s) = Len(b) + 1 /\ s[1] = x
      /\ \A j \in 1 .. Len(b) : s[j + 1] = b[j]
  BY <1>1
<1>3. DOMAIN s = 1 .. Len(b) + 1
  BY <1>2
<1>4. /\ 1 \in DOMAIN s
      /\ \A j \in DOMAIN b : j \in Nat /\ j + 1 \in DOMAIN s
      /\ \A i \in DOMAIN s : i \in Nat /\ (i = 1 \/ i - 1 \in DOMAIN b)
  BY <1>1, <1>3
<1>5. s # <<>>
  BY <1>1, <1>2
<1>6. Head(s) = x
  BY <1>2, <1>5
<1>7. Tail(s) = b
  BY <1>1
<1> QED
  BY <1>1, <1>2, <1>4, <1>5, <1>6, <1>7

LEMMA PopPlaces ==
  ASSUME NEW S, NEW s \in Seq(S), s # <<>>
  PROVE  Head(s) \in S /\ Tail(s) \in Seq(S) /\ s = <<Head(s)>> \o Tail(s)
         /\ s[1] = Head(s)
OBVIOUS

(* What is asked of the top of a stack.                                    *)
Bottom == {"trigger", "default", "clean", "native"}
IsRetold(b) == b # <<>> /\ b[1].runs = "default"
OnTop(x, c, T, tr, b, ev, tm, sp, ne) ==
  /\ IF c = <<>> THEN x.runs \in Bottom ELSE Stands(x, c[1])
  /\ Tells(x) => \A j \in DOMAIN c : Tells(c[j]) => c[j].v # x.v
  /\ x.runs = "default" => tr = "click"
  /\ \A j \in DOMAIN c : c[j].runs = "default" => j = 1 /\ x.type = "click"
  /\ Tells(x) /\ ~IsRetold(c) => TellInv(x, T, tm, ev)
  /\ x.runs = "dispatch" =>
       /\ DispatchInv(x, T, tm, b)
       /\ \A j \in DOMAIN c : c[j].runs = "dispatch" => Agree(x, c[j])
  /\ ~ne =>
       /\ x.runs = "dispatch" =>
            /\ Unspent(x, sp)
            /\ \A j \in DOMAIN c : Tells(c[j]) /\ c[j].type = x.type => j = 1
       /\ Tells(x) => \A j \in DOMAIN c : c[j].runs = "dispatch" => c[j].type # x.type

LEMMA AgreeTurned ==
  ASSUME NEW x, NEW y, Agree(x, y) PROVE Agree(y, x)
BY DEF Agree

LEMMA AgreesWithItself ==
  ASSUME NEW x, NEW T, NEW tm, NEW b, DispatchInv(x, T, tm, b) PROVE Agree(x, x)
BY DEF Agree, DispatchInv

(* Where things are in a stack with one more.                              *)
Placed(s, x, c) ==
  /\ s \in Seq(Frames) /\ s # <<>> /\ 1 \in DOMAIN s /\ s[1] = x
  /\ Len(s) = Len(c) + 1 /\ Len(c) \in Nat /\ DOMAIN c = 1 .. Len(c)
  /\ DOMAIN s = 1 .. Len(c) + 1
  /\ \A j \in DOMAIN c : j \in Nat /\ j + 1 \in DOMAIN s /\ s[j + 1] = c[j]
  /\ \A i \in DOMAIN s : i = 1 \/ \E j \in DOMAIN c : i = j + 1
  /\ \A j \in DOMAIN c : Retold(s, j + 1) <=> Retold(c, j)
  /\ Retold(s, 1) <=> IsRetold(c)
  /\ c # <<>> <=> 1 \in DOMAIN c

LEMMA Places ==
  ASSUME NEW x \in Frames, NEW c \in Seq(Frames)
  PROVE  Placed(<<x>> \o c, x, c)
<1>0. PICK s : s = <<x>> \o c
  OBVIOUS
<1>1. /\ s \in Seq(Frames) /\ s # <<>> /\ 1 \in DOMAIN s /\ s[1] = x
      /\ Len(s) = Len(c) + 1
      /\ \A j \in DOMAIN c : j \in Nat /\ j + 1 \in DOMAIN s /\ s[j + 1] = c[j]
      /\ \A i \in DOMAIN s : i \in Nat /\ (i = 1 \/ i - 1 \in DOMAIN c)
  BY <1>0, PushPlaces
<1>2. Len(c) \in Nat /\ DOMAIN c = 1 .. Len(c) /\ DOMAIN s = 1 .. Len(c) + 1
  BY <1>1
<1>3. \A i \in DOMAIN s : i = 1 \/ \E j \in DOMAIN c : i = j + 1
  <2> TAKE i \in DOMAIN s
  <2>1. i - 1 \in DOMAIN c => i = (i - 1) + 1
    BY <1>1
  <2> QED  BY <1>1, <2>1
<1>4. c # <<>> <=> 1 \in DOMAIN c
  <2>1. c # <<>> <=> Len(c) # 0
    BY EmptySeq
  <2> QED  BY <1>2, <2>1
<1>5. ASSUME NEW j \in DOMAIN c PROVE Retold(s, j + 1) <=> Retold(c, j)
  <2>1. j + 1 + 1 \in DOMAIN s <=> j + 1 \in DOMAIN c
    BY <1>2
  <2>2. j + 1 \in DOMAIN c => s[j + 1 + 1] = c[j + 1]
    BY <1>1
  <2> QED  BY <2>1, <2>2 DEF Retold
<1>6. Retold(s, 1) <=> IsRetold(c)
  <2>1. 1 + 1 \in DOMAIN s <=> 1 \in DOMAIN c
    BY <1>2
  <2>2. 1 \in DOMAIN c => s[1 + 1] = c[1]
    BY <1>1
  <2> QED  BY <1>4, <2>1, <2>2 DEF Retold, IsRetold
<1>7. Placed(s, x, c)
  BY <1>1, <1>2, <1>3, <1>4, <1>5, <1>6 DEF Placed
<1> QED
  BY <1>0, <1>7

LEMMA Push ==
  ASSUME NEW x \in Frames, NEW c, NEW s, s = <<x>> \o c,
         NEW T, NEW tr, NEW b, NEW ev, NEW tm, NEW sp, NEW ne,
         StackInv(c, T, tr, b, ev, tm, sp, ne), OnTop(x, c, T, tr, b, ev, tm, sp, ne)
  PROVE  StackInv(s, T, tr, b, ev, tm, sp, ne)
<1>0. c \in Seq(Frames) /\ Stacked(c)
  BY DEF StackInv, Stacked
<1>1. /\ s \in Seq(Frames) /\ s # <<>> /\ 1 \in DOMAIN s /\ s[1] = x
      /\ Len(s) = Len(c) + 1 /\ Len(c) \in Nat /\ DOMAIN c = 1 .. Len(c)
      /\ DOMAIN s = 1 .. Len(c) + 1
      /\ \A j \in DOMAIN c : j \in Nat /\ j + 1 \in DOMAIN s /\ s[j + 1] = c[j]
      /\ \A i \in DOMAIN s : i = 1 \/ \E j \in DOMAIN c : i = j + 1
      /\ \A j \in DOMAIN c : Retold(s, j + 1) <=> Retold(c, j)
      /\ Retold(s, 1) <=> IsRetold(c)
      /\ c # <<>> <=> 1 \in DOMAIN c
  <2>1. Placed(<<x>> \o c, x, c)
    BY <1>0, Places
  <2> QED  BY <2>1 DEF Placed
<1>2. Stacked(s)
  <2>1. ASSUME NEW i \in DOMAIN s, i + 1 \in DOMAIN s PROVE Stands(s[i], s[i + 1])
    <3>1. CASE i = 1
      <4>1. 1 \in DOMAIN c /\ s[1 + 1] = c[1] /\ c # <<>>
        BY <1>1, <2>1, <3>1
      <4> QED  BY <1>1, <3>1, <4>1 DEF OnTop
    <3>2. ASSUME NEW j \in DOMAIN c, i = j + 1 PROVE Stands(s[i], s[i + 1])
      <4>1. j + 1 \in DOMAIN c
        BY <1>1, <2>1, <3>2
      <4>2. s[i] = c[j] /\ s[i + 1] = c[j + 1]
        BY <1>1, <3>2, <4>1
      <4> QED  BY <1>0, <4>1, <4>2 DEF Stacked
    <3> QED  BY <1>1, <3>1, <3>2
  <2>2. s[Len(s)].runs \in Bottom
    <3>1. CASE c = <<>>
      BY <1>1, <3>1 DEF OnTop
    <3>2. CASE c # <<>>
      <4>1. Len(c) \in DOMAIN c
        BY <1>1, <3>2
      <4> QED  BY <1>0, <1>1, <3>2, <4>1 DEF Stacked, Bottom
    <3> QED  BY <3>1, <3>2
  <2>3. ASSUME NEW i \in DOMAIN s, NEW j \in DOMAIN s, Tells(s[i]), Tells(s[j]),
               s[i].v = s[j].v
        PROVE  i = j
    <3>1. CASE i = 1
      BY <1>1, <2>3, <3>1 DEF OnTop
    <3>2. CASE j = 1
      BY <1>1, <2>3, <3>2 DEF OnTop
    <3>3. CASE i # 1 /\ j # 1
      <4>1. PICK k \in DOMAIN c, l \in DOMAIN c : i = k + 1 /\ j = l + 1
        BY <1>1, <3>3
      <4>2. s[i] = c[k] /\ s[j] = c[l]
        BY <1>1, <4>1
      <4> QED  BY <1>0, <2>3, <4>1, <4>2 DEF Stacked
    <3> QED  BY <3>1, <3>2, <3>3
  <2> QED  BY <1>1, <2>1, <2>2, <2>3 DEF Stacked, Bottom
<1>3. Defaults(s, tr)
  <2> SUFFICES ASSUME NEW i \in DOMAIN s, s[i].runs = "default"
               PROVE  tr = "click" /\ (i = 1 \/ (i = 2 /\ s[1].type = "click"))
    BY DEF Defaults
  <2>1. CASE i = 1
    BY <1>1, <2>1 DEF OnTop
  <2>2. CASE i # 1
    <3>1. PICK j \in DOMAIN c : i = j + 1
      BY <1>1, <2>2
    <3>2. c[j].runs = "default"
      BY <1>1, <3>1
    <3>3. j = 1 /\ x.type = "click" /\ tr = "click"
      BY <3>2 DEF OnTop, StackInv, Defaults
    <3> QED  BY <1>1, <3>1, <3>3
  <2> QED  BY <2>1, <2>2
<1>4. TellsFit(s, T, tm, ev)
  <2> SUFFICES ASSUME NEW i \in DOMAIN s, Tells(s[i]), ~Retold(s, i)
               PROVE  TellInv(s[i], T, tm, ev)
    BY DEF TellsFit
  <2>1. CASE i = 1
    BY <1>1, <2>1 DEF OnTop
  <2>2. CASE i # 1
    <3>1. PICK j \in DOMAIN c : i = j + 1
      BY <1>1, <2>2
    <3>2. s[i] = c[j] /\ ~Retold(c, j)
      BY <1>1, <3>1
    <3> QED  BY <3>2 DEF StackInv, TellsFit
  <2> QED  BY <2>1, <2>2
<1>5. RestsFit(s, T, tm, b)
  <2> SUFFICES ASSUME NEW i \in DOMAIN s, s[i].runs = "dispatch"
               PROVE  DispatchInv(s[i], T, tm, b)
    BY DEF RestsFit
  <2>1. CASE i = 1
    BY <1>1, <2>1 DEF OnTop
  <2>2. CASE i # 1
    <3>1. PICK j \in DOMAIN c : i = j + 1
      BY <1>1, <2>2
    <3> QED  BY <1>1, <3>1 DEF StackInv, RestsFit
  <2> QED  BY <2>1, <2>2
<1>6. RestsAgree(s)
  <2> SUFFICES ASSUME NEW i \in DOMAIN s, NEW j \in DOMAIN s,
                      s[i].runs = "dispatch", s[j].runs = "dispatch"
               PROVE  Agree(s[i], s[j])
    BY DEF RestsAgree
  <2>1. CASE i = 1 /\ j = 1
    <3>1. DispatchInv(x, T, tm, b)
      BY <1>1, <2>1 DEF OnTop
    <3> QED  BY <1>1, <2>1, <3>1, AgreesWithItself
  <2>2. CASE i = 1 /\ j # 1
    <3>1. PICK l \in DOMAIN c : j = l + 1
      BY <1>1, <2>2
    <3> QED  BY <1>1, <2>2, <3>1 DEF OnTop
  <2>3. CASE i # 1 /\ j = 1
    <3>1. PICK k \in DOMAIN c : i = k + 1
      BY <1>1, <2>3
    <3>2. Agree(x, c[k]) /\ s[i] = c[k] /\ s[j] = x
      BY <1>1, <2>3, <3>1 DEF OnTop
    <3> QED  BY <3>2, AgreeTurned
  <2>4. CASE i # 1 /\ j # 1
    <3>1. PICK k \in DOMAIN c, l \in DOMAIN c : i = k + 1 /\ j = l + 1
      BY <1>1, <2>4
    <3> QED  BY <1>1, <3>1 DEF StackInv, RestsAgree
  <2> QED  BY <2>1, <2>2, <2>3, <2>4
<1>7. OneInv(s, sp, ne)
  <2> SUFFICES ASSUME ~ne
               PROVE  /\ \A i \in DOMAIN s : s[i].runs = "dispatch" => Unspent(s[i], sp)
                      /\ \A i, j \in DOMAIN s :
                           Tells(s[i]) /\ s[j].runs = "dispatch"
                           /\ s[i].type = s[j].type => i = j + 1
    BY DEF OneInv
  <2>1. ASSUME NEW i \in DOMAIN s, s[i].runs = "dispatch" PROVE Unspent(s[i], sp)
    <3>1. CASE i = 1
      BY <1>1, <2>1, <3>1 DEF OnTop
    <3>2. CASE i # 1
      <4>1. PICK j \in DOMAIN c : i = j + 1
        BY <1>1, <3>2
      <4> QED  BY <1>1, <2>1, <4>1 DEF StackInv, OneInv
    <3> QED  BY <3>1, <3>2
  <2>2. ASSUME NEW i \in DOMAIN s, NEW j \in DOMAIN s, Tells(s[i]),
               s[j].runs = "dispatch", s[i].type = s[j].type
        PROVE  i = j + 1
    <3>1. CASE i = 1 /\ j = 1
      BY <2>2, <3>1 DEF Tells
    <3>2. CASE i = 1 /\ j # 1
      <4>1. PICK l \in DOMAIN c : j = l + 1
        BY <1>1, <3>2
      <4>2. c[l].runs = "dispatch" /\ Tells(x) /\ c[l].type = x.type
        BY <1>1, <2>2, <3>2, <4>1
      <4> QED  BY <4>2 DEF OnTop
    <3>3. CASE i # 1 /\ j = 1
      <4>1. PICK k \in DOMAIN c : i = k + 1
        BY <1>1, <3>3
      <4>2. k = 1
        BY <1>1, <2>2, <3>3, <4>1 DEF OnTop
      <4> QED  BY <3>3, <4>1, <4>2
    <3>4. CASE i # 1 /\ j # 1
      <4>1. PICK k \in DOMAIN c, l \in DOMAIN c : i = k + 1 /\ j = l + 1
        BY <1>1, <3>4
      <4>2. k = l + 1
        BY <1>1, <2>2, <4>1 DEF StackInv, OneInv
      <4> QED  BY <4>1, <4>2
    <3> QED  BY <3>1, <3>2, <3>3, <3>4
  <2> QED  BY <2>1, <2>2
<1> QED
  BY <1>2, <1>3, <1>4, <1>5, <1>6, <1>7 DEF StackInv

LEMMA Pop ==
  ASSUME NEW x \in Frames, NEW c \in Seq(Frames), NEW s, s = <<x>> \o c,
         NEW T, NEW tr, NEW b, NEW ev, NEW tm, NEW sp, NEW ne,
         StackInv(s, T, tr, b, ev, tm, sp, ne)
  PROVE  StackInv(c, T, tr, b, ev, tm, sp, ne) /\ OnTop(x, c, T, tr, b, ev, tm, sp, ne)
<1>1. /\ s \in Seq(Frames) /\ s # <<>> /\ 1 \in DOMAIN s /\ s[1] = x
      /\ Len(s) = Len(c) + 1 /\ Len(c) \in Nat /\ DOMAIN c = 1 .. Len(c)
      /\ DOMAIN s = 1 .. Len(c) + 1
      /\ \A j \in DOMAIN c : j \in Nat /\ j + 1 \in DOMAIN s /\ s[j + 1] = c[j]
      /\ \A j \in DOMAIN c : Retold(s, j + 1) <=> Retold(c, j)
      /\ Retold(s, 1) <=> IsRetold(c)
      /\ c # <<>> <=> 1 \in DOMAIN c
  <2>1. Placed(<<x>> \o c, x, c)
    BY Places
  <2> QED  BY <2>1 DEF Placed
<1>2. /\ \A i \in DOMAIN s : i + 1 \in DOMAIN s => Stands(s[i], s[i + 1])
      /\ s[Len(s)].runs \in Bottom
      /\ \A i, j \in DOMAIN s : Tells(s[i]) /\ Tells(s[j]) /\ s[i].v = s[j].v => i = j
  BY <1>1 DEF StackInv, Stacked, Bottom
<1>3. Stacked(c)
  <2>1. ASSUME NEW j \in DOMAIN c, j + 1 \in DOMAIN c PROVE Stands(c[j], c[j + 1])
    <3>1. j + 1 \in DOMAIN s /\ j + 1 + 1 \in DOMAIN s
          /\ s[j + 1] = c[j] /\ s[j + 1 + 1] = c[j + 1]
      BY <1>1, <2>1
    <3> QED  BY <1>2, <3>1
  <2>2. c # <<>> => c[Len(c)].runs \in Bottom
    <3> SUFFICES ASSUME c # <<>> PROVE c[Len(c)].runs \in Bottom
      OBVIOUS
    <3>1. Len(c) \in DOMAIN c
      BY <1>1
    <3> QED  BY <1>1, <1>2, <3>1
  <2>3. ASSUME NEW j \in DOMAIN c, NEW k \in DOMAIN c, Tells(c[j]), Tells(c[k]),
               c[j].v = c[k].v
        PROVE  j = k
    <3>1. /\ j + 1 \in DOMAIN s /\ s[j + 1] = c[j] /\ j \in Nat
          /\ k + 1 \in DOMAIN s /\ s[k + 1] = c[k] /\ k \in Nat
      BY <1>1
    <3>2. j + 1 = k + 1
      BY <1>2, <2>3, <3>1
    <3> QED  BY <3>1, <3>2
  <2> QED  BY <2>1, <2>2, <2>3 DEF Stacked, Bottom
<1>4. ASSUME NEW j \in DOMAIN c, c[j].runs = "default"
      PROVE  tr = "click" /\ j = 1 /\ x.type = "click"
  <2>1. s[j + 1].runs = "default" /\ j + 1 \in DOMAIN s
    BY <1>1, <1>4
  <2>2. tr = "click" /\ (j + 1 = 1 \/ (j + 1 = 2 /\ s[1].type = "click"))
    BY <2>1 DEF StackInv, Defaults
  <2> QED  BY <1>1, <2>2
<1>5. Defaults(c, tr)
  BY <1>4 DEF Defaults
<1>6. TellsFit(c, T, tm, ev)
  BY <1>1 DEF StackInv, TellsFit
<1>7. RestsFit(c, T, tm, b)
  BY <1>1 DEF StackInv, RestsFit
<1>8. RestsAgree(c)
  BY <1>1 DEF StackInv, RestsAgree
<1>9. OneInv(c, sp, ne)
  <2> SUFFICES ASSUME ~ne
               PROVE  /\ \A i \in DOMAIN c : c[i].runs = "dispatch" => Unspent(c[i], sp)
                      /\ \A i, j \in DOMAIN c :
                           Tells(c[i]) /\ c[j].runs = "dispatch"
                           /\ c[i].type = c[j].type => i = j + 1
    BY DEF OneInv
  <2>1. \A i \in DOMAIN c : c[i].runs = "dispatch" => Unspent(c[i], sp)
    BY <1>1 DEF StackInv, OneInv
  <2>2. ASSUME NEW i \in DOMAIN c, NEW j \in DOMAIN c, Tells(c[i]),
               c[j].runs = "dispatch", c[i].type = c[j].type
        PROVE  i = j + 1
    <3>1. /\ i + 1 \in DOMAIN s /\ s[i + 1] = c[i] /\ i \in Nat
          /\ j + 1 \in DOMAIN s /\ s[j + 1] = c[j] /\ j \in Nat
      BY <1>1
    <3>2. \A k, l \in DOMAIN s : Tells(s[k]) /\ s[l].runs = "dispatch"
                                /\ s[k].type = s[l].type => k = l + 1
      BY DEF StackInv, OneInv
    <3>3. i + 1 = j + 1 + 1
      BY <2>2, <3>1, <3>2
    <3> QED  BY <3>1, <3>3
  <2> QED  BY <2>1, <2>2
<1>10. IF c = <<>> THEN x.runs \in Bottom ELSE Stands(x, c[1])
  <2>1. CASE c = <<>>
    BY <1>1, <1>2, <2>1
  <2>2. CASE c # <<>>
    <3>1. 1 + 1 \in DOMAIN s /\ s[1 + 1] = c[1]
      BY <1>1, <2>2
    <3> QED  BY <1>1, <1>2, <2>2, <3>1
  <2> QED  BY <2>1, <2>2
<1>11. ASSUME Tells(x), NEW j \in DOMAIN c, Tells(c[j]) PROVE c[j].v # x.v
  <2>1. j + 1 # 1 /\ j + 1 \in DOMAIN s /\ s[j + 1] = c[j]
    BY <1>1
  <2> QED  BY <1>1, <1>2, <1>11, <2>1
<1>12. /\ x.runs = "default" => tr = "click"
       /\ Tells(x) /\ ~IsRetold(c) => TellInv(x, T, tm, ev)
       /\ x.runs = "dispatch" => DispatchInv(x, T, tm, b)
  BY <1>1 DEF StackInv, Defaults, TellsFit, RestsFit
<1>13. ASSUME x.runs = "dispatch", NEW j \in DOMAIN c, c[j].runs = "dispatch"
       PROVE  Agree(x, c[j])
  BY <1>1, <1>13 DEF StackInv, RestsAgree
<1>14. ASSUME ~ne
       PROVE  /\ x.runs = "dispatch" =>
                   /\ Unspent(x, sp)
                   /\ \A j \in DOMAIN c : Tells(c[j]) /\ c[j].type = x.type => j = 1
              /\ Tells(x) => \A j \in DOMAIN c : c[j].runs = "dispatch" => c[j].type # x.type
  <2>1. x.runs = "dispatch" => Unspent(x, sp)
    BY <1>1, <1>14 DEF StackInv, OneInv
  <2>2. ASSUME x.runs = "dispatch", NEW j \in DOMAIN c, Tells(c[j]), c[j].type = x.type
        PROVE  j = 1
    <3>1. j + 1 = 1 + 1
      BY <1>1, <1>14, <2>2 DEF StackInv, OneInv
    <3> QED  BY <1>1, <3>1
  <2>3. ASSUME Tells(x), NEW j \in DOMAIN c, c[j].runs = "dispatch", c[j].type = x.type
        PROVE  FALSE
    <3>1. \A k, l \in DOMAIN s : Tells(s[k]) /\ s[l].runs = "dispatch"
                                /\ s[k].type = s[l].type => k = l + 1
      BY <1>14 DEF StackInv, OneInv
    <3>2. j + 1 \in DOMAIN s /\ s[j + 1] = c[j] /\ 1 \in DOMAIN s /\ s[1] = x /\ j \in Nat
      BY <1>1
    <3>3. 1 = j + 1 + 1
      BY <2>3, <3>1, <3>2
    <3> QED  BY <3>2, <3>3
  <2> QED  BY <2>1, <2>2, <2>3
<1>15. StackInv(c, T, tr, b, ev, tm, sp, ne)
  BY <1>3, <1>5, <1>6, <1>7, <1>8, <1>9 DEF StackInv
<1>16. OnTop(x, c, T, tr, b, ev, tm, sp, ne)
  BY <1>4, <1>10, <1>11, <1>12, <1>13, <1>14 DEF OnTop
<1> QED
  BY <1>15, <1>16

(* The frames of a stack do not mind what does not concern them.           *)
LEMMA Shift ==
  ASSUME NEW s, NEW T, NEW tr, NEW b \in Nat, NEW ev \in Nat, NEW tm, NEW sp, NEW ne,
         StackInv(s, T, tr, b, ev, tm, sp, ne), TimesFit(tm, b, ev),
         NEW T2, NEW tr2, NEW b2 \in Nat, NEW ev2 \in Nat, NEW tm2, NEW sp2, NEW ne2,
         b <= b2, ev <= ev2, Defaults(s, tr2),
         \A e \in Elements, h \in Handler : Bound(T2, e, h) => Bound(T, e, h) \/ h.n > b,
         \A i \in DOMAIN s : Tells(s[i]) \/ s[i].runs = "dispatch" =>
           tm2[s[i].v] = tm[s[i].v],
         ~ne2 => ~ne /\ \A i \in DOMAIN s : s[i].runs = "dispatch" => Unspent(s[i], sp2)
  PROVE  StackInv(s, T2, tr2, b2, ev2, tm2, sp2, ne2)
<1>1. s \in Seq(Frames) /\ \A i \in DOMAIN s : s[i] \in Frames
  <2>1. s \in Seq(Frames)
    BY DEF StackInv, Stacked
  <2> QED  BY <2>1, ElementOfSeq
<1>2. TellsFit(s, T2, tm2, ev2)
  <2> SUFFICES ASSUME NEW i \in DOMAIN s, Tells(s[i]), ~Retold(s, i)
               PROVE  TellInv(s[i], T2, tm2, ev2)
    BY DEF TellsFit
  <2>1. PICK x \in Frames : x = s[i]
    BY <1>1
  <2>2. TellInv(x, T, tm, ev) /\ x.v \in 1 .. MaxDeeds /\ tm2[x.v] = tm[x.v]
    BY <2>1, FrameFacts DEF StackInv, TellsFit
  <2>3. x.v <= ev2
    <3>1. x.v <= ev /\ x.v \in Nat
      BY <2>2, Consts DEF TellInv
    <3> QED  BY <3>1
  <2>4. ASSUME NEW e \in Elements, NEW h \in Handler, x.at <= e, Bound(T2, e, h)
        PROVE  tm2[x.v][h.n] = 0
    <3>1. h.n \in 1 .. MaxDeeds /\ h.n \in Nat
      BY HandlerFacts
    <3>2. CASE Bound(T, e, h)
      BY <2>2, <2>4, <3>2 DEF TellInv
    <3>3. CASE h.n > b
      BY <2>2, <3>1, <3>3 DEF TimesFit
    <3> QED  BY <2>4, <3>2, <3>3
  <2> QED  BY <2>1, <2>3, <2>4 DEF TellInv
<1>3. RestsFit(s, T2, tm2, b2)
  <2> SUFFICES ASSUME NEW i \in DOMAIN s, s[i].runs = "dispatch"
               PROVE  DispatchInv(s[i], T2, tm2, b2)
    BY DEF RestsFit
  <2>1. PICK x \in Frames : x = s[i]
    BY <1>1
  <2>2. /\ DispatchInv(x, T, tm, b) /\ tm2[x.v] = tm[x.v]
        /\ x.since \in 0 .. MaxDeeds /\ x.rest \in Seq(Handler)
    BY <2>1, FrameFacts DEF StackInv, RestsFit
  <2>3. x.since <= b2
    <3>1. x.since <= b /\ x.since \in Nat
      BY <2>2, Consts DEF DispatchInv
    <3> QED  BY <3>1
  <2>4. ASSUME NEW e \in Elements, NEW h \in Handler, NEW k \in DOMAIN x.rest,
               Bound(T2, e, h), h.n = x.rest[k].n
        PROVE  e = x.at /\ h = x.rest[k]
    <3>1. h.n <= x.since /\ x.since <= b
      BY <2>2, <2>4 DEF DispatchInv
    <3>2. h.n \in Nat /\ x.since \in Nat
      BY <2>2, HandlerFacts, Consts
    <3>3. ~(h.n > b)
      BY <3>1, <3>2
    <3> QED  BY <2>2, <2>4, <3>3 DEF DispatchInv
  <2> QED  BY <2>1, <2>2, <2>3, <2>4 DEF DispatchInv
<1>4. OneInv(s, sp2, ne2)
  BY DEF StackInv, OneInv
<1> QED
  BY <1>2, <1>3, <1>4 DEF StackInv

(* What HaltedFit says of a stack, from the top down.                      *)
Under(x, c, ha) ==
  c # <<>> /\ Tells(c[1]) /\ ~Retold(c, 1) /\ ha[c[1].v] # Off =>
    \/ c[1].stopped
    \/ x.stopped /\ ha[c[1].v] = <<x.at, x.group>>
HaltedTop(x, c, ha) == Tells(x) /\ ~IsRetold(c) /\ ha[x.v] # Off => x.stopped
HaltedRest(c, ha) == \A j \in DOMAIN c : j > 1 => HaltedAt(c, j, ha)

LEMMA HaltedBelow ==
  ASSUME NEW x \in Frames, NEW c \in Seq(Frames), NEW ha
  PROVE  /\ HaltedRest(<<x>> \o c, ha) <=> Under(x, c, ha) /\ HaltedRest(c, ha)
         /\ HaltedAt(<<x>> \o c, 1, ha) <=> HaltedTop(x, c, ha)
<1>0. PICK s : s = <<x>> \o c
  OBVIOUS
<1>1. Placed(s, x, c)
  BY <1>0, Places
<1>2. ASSUME NEW j \in DOMAIN c
      PROVE  HaltedAt(s, j + 1, ha) <=>
               (Tells(c[j]) /\ ~Retold(c, j) /\ ha[c[j].v] # Off =>
                  c[j].stopped \/ (s[j].stopped /\ ha[c[j].v] = <<s[j].at, s[j].group>>))
  <2>1. s[j + 1] = c[j] /\ (Retold(s, j + 1) <=> Retold(c, j)) /\ j \in Nat /\ j >= 1
    BY <1>1 DEF Placed
  <2>2. j + 1 > 1 /\ j + 1 - 1 = j
    BY <2>1
  <2> QED  BY <2>1, <2>2 DEF HaltedAt
<1>3. ASSUME NEW j \in DOMAIN c, j > 1
      PROVE  HaltedAt(s, j + 1, ha) <=> HaltedAt(c, j, ha)
  <2>1. j \in Nat /\ j - 1 \in DOMAIN c
    BY <1>1, <1>3 DEF Placed
  <2>2. s[j - 1 + 1] = c[j - 1]
    BY <1>1, <2>1 DEF Placed
  <2>3. s[j] = c[j - 1]
    BY <2>1, <2>2
  <2> QED  BY <1>2, <1>3, <2>3 DEF HaltedAt
<1>4. c # <<>> => (HaltedAt(s, 2, ha) <=> Under(x, c, ha))
  <2> SUFFICES ASSUME c # <<>> PROVE HaltedAt(s, 2, ha) <=> Under(x, c, ha)
    OBVIOUS
  <2>1. 1 \in DOMAIN c /\ s[1] = x /\ 1 + 1 = 2
    BY <1>1 DEF Placed
  <2>2. HaltedAt(s, 1 + 1, ha) <=>
               (Tells(c[1]) /\ ~Retold(c, 1) /\ ha[c[1].v] # Off =>
                  c[1].stopped \/ (s[1].stopped /\ ha[c[1].v] = <<s[1].at, s[1].group>>))
    BY <1>2, <2>1
  <2> QED  BY <2>1, <2>2 DEF Under
<1>5. HaltedRest(s, ha) <=> Under(x, c, ha) /\ HaltedRest(c, ha)
  <2>1. ASSUME HaltedRest(s, ha) PROVE Under(x, c, ha) /\ HaltedRest(c, ha)
    <3>1. \A j \in DOMAIN c : HaltedAt(s, j + 1, ha)
      <4> TAKE j \in DOMAIN c
      <4>1. j + 1 \in DOMAIN s /\ j + 1 > 1
        BY <1>1 DEF Placed
      <4> QED  BY <2>1, <4>1 DEF HaltedRest
    <3>2. HaltedRest(c, ha)
      BY <1>3, <3>1 DEF HaltedRest
    <3>3. Under(x, c, ha)
      <4>1. CASE c = <<>>
        BY <4>1 DEF Under
      <4>2. CASE c # <<>>
        <5>1. 1 \in DOMAIN c /\ 1 + 1 = 2
          BY <1>1, <4>2 DEF Placed
        <5>2. HaltedAt(s, 2, ha)
          BY <3>1, <5>1
        <5> QED  BY <1>4, <4>2, <5>2
      <4> QED  BY <4>1, <4>2
    <3> QED  BY <3>2, <3>3
  <2>2. ASSUME Under(x, c, ha), HaltedRest(c, ha) PROVE HaltedRest(s, ha)
    <3> SUFFICES ASSUME NEW i \in DOMAIN s, i > 1 PROVE HaltedAt(s, i, ha)
      BY DEF HaltedRest
    <3>1. PICK j \in DOMAIN c : i = j + 1
      BY <1>1 DEF Placed
    <3>2. CASE j = 1
      <4>1. c # <<>> /\ i = 2
        BY <1>1, <3>1, <3>2 DEF Placed
      <4> QED  BY <1>4, <2>2, <4>1
    <3>3. CASE j # 1
      <4>1. j > 1
        BY <1>1, <3>3 DEF Placed
      <4> QED  BY <1>3, <2>2, <3>1, <4>1 DEF HaltedRest
    <3> QED  BY <3>2, <3>3
  <2> QED  BY <2>1, <2>2
<1>6. HaltedAt(s, 1, ha) <=> HaltedTop(x, c, ha)
  <2>1. s[1] = x /\ (Retold(s, 1) <=> IsRetold(c)) /\ ~(1 > 1)
    BY <1>1 DEF Placed
  <2> QED  BY <2>1 DEF HaltedAt, HaltedTop
<1> QED
  BY <1>0, <1>5, <1>6

LEMMA HaltedSplit ==
  ASSUME NEW x \in Frames, NEW c \in Seq(Frames), NEW ha, NEW ev
  PROVE  HaltedFit(<<x>> \o c, ha, ev) <=>
           /\ HaltedTypes(ha, ev) /\ HaltedTop(x, c, ha)
           /\ Under(x, c, ha) /\ HaltedRest(c, ha)
<1>0. PICK s : s = <<x>> \o c
  OBVIOUS
<1>1. DOMAIN s = 1 .. Len(c) + 1 /\ Len(c) \in Nat
  BY <1>0, Places DEF Placed
<1>2. (\A i \in DOMAIN s : HaltedAt(s, i, ha)) <=> HaltedAt(s, 1, ha) /\ HaltedRest(s, ha)
  BY <1>1 DEF HaltedRest
<1>3. /\ HaltedRest(s, ha) <=> Under(x, c, ha) /\ HaltedRest(c, ha)
      /\ HaltedAt(s, 1, ha) <=> HaltedTop(x, c, ha)
  BY <1>0, HaltedBelow
<1>4. HaltedFit(s, ha, ev) <=> /\ HaltedTypes(ha, ev) /\ HaltedTop(x, c, ha)
                               /\ Under(x, c, ha) /\ HaltedRest(c, ha)
  BY <1>2, <1>3 DEF HaltedFit
<1> QED
  BY <1>0, <1>4

(* What is below a frame that dispatches nothing is halted as it should be.*)
LEMMA HaltedPop ==
  ASSUME NEW x \in Frames, NEW c \in Seq(Frames), NEW ha, NEW ev,
         HaltedFit(<<x>> \o c, ha, ev), c # <<>> => Stands(x, c[1]),
         x.runs # "dispatch"
  PROVE  HaltedFit(c, ha, ev)
<1>1. HaltedTypes(ha, ev) /\ HaltedRest(c, ha)
  BY HaltedSplit
<1>2. ASSUME NEW i \in DOMAIN c PROVE HaltedAt(c, i, ha)
  <2>1. CASE i = 1
    <3>1. c # <<>>
      BY <2>1
    <3>2. ~Tells(c[1])
      BY <3>1 DEF Stands, Tells
    <3> QED  BY <2>1, <3>2 DEF HaltedAt
  <2>2. CASE i # 1
    <3>1. i > 1
      BY <2>2
    <3> QED  BY <1>1, <3>1 DEF HaltedRest
  <2> QED  BY <2>1, <2>2
<1> QED
  BY <1>1, <1>2 DEF HaltedFit

(* The stack of a state of the model, opened.                              *)
Rest(c) == StackInv(c, Table(data), triggered, bound, events, times, spent, nested)
TopFits(x, c) ==
  OnTop(x, c, Table(data), triggered, bound, events, times, spent, nested)

LEMMA Opened ==
  ASSUME IInv, calls # <<>>
  PROVE  \E x \in Frames, c \in Seq(Frames) :
           /\ x = Top /\ c = Below /\ calls = <<x>> \o c /\ calls[1] = x
           /\ Rest(c) /\ TopFits(x, c)
           /\ HaltedTypes(halted, events) /\ HaltedTop(x, c, halted)
           /\ Under(x, c, halted) /\ HaltedRest(c, halted)
<1>1. calls \in Seq(Frames)
  BY DEF IInv, StackInv, Stacked
<1>2. PICK x \in Frames, c \in Seq(Frames) :
        x = Top /\ c = Below /\ calls = <<x>> \o c /\ calls[1] = x
  BY <1>1, PopPlaces DEF Top, Below
<1>3. Rest(c) /\ TopFits(x, c)
  BY <1>2, Pop DEF IInv, Rest, TopFits
<1>4. /\ HaltedTypes(halted, events) /\ HaltedTop(x, c, halted)
      /\ Under(x, c, halted) /\ HaltedRest(c, halted)
  <2>1. HaltedFit(<<x>> \o c, halted, events)
    BY <1>2 DEF IInv
  <2> QED  BY <2>1, HaltedSplit
<1> QED
  BY <1>2, <1>3, <1>4

LEMMA Continued ==
  ASSUME NEW s, Continue(s), NEW T, NEW tr, NEW b, NEW ev, NEW sp, NEW ne,
         StackInv(s, T, tr, b, ev, times, sp, ne), HaltedFit(s, halted, ev),
         TimesFit(times, b, ev)
  PROVE  /\ calls' = s /\ StackInv(s, T, tr, b, ev, times', sp, ne)
         /\ HaltedFit(s, halted', ev) /\ TimesFit(times', b, ev)
<1>1. CASE s = <<>>
  <2>1. calls' = <<>> /\ times' = NoTimes /\ halted' = NotHalted
    BY <1>1 DEF Continue
  <2>2. StackInv(<<>>, T, tr, b, ev, NoTimes, sp, ne)
    BY <1>1 DEF StackInv, TellsFit, RestsFit
  <2>3. HaltedFit(<<>>, NotHalted, ev)
    BY DEF HaltedFit, HaltedTypes, NotHalted
  <2>4. TimesFit(NoTimes, b, ev)
    BY DEF TimesFit, NoTimes
  <2> QED  BY <1>1, <2>1, <2>2, <2>3, <2>4
<1>2. CASE s # <<>>
  BY <1>2 DEF Continue
<1> QED
  BY <1>1, <1>2

-----------------------------------------------------------------------------
(* The actions: a native event and trigger() on their way.                 *)
LEMMA TwoPushed ==
  ASSUME NEW f \in Frames, NEW y \in Frames, NEW c \in Seq(Frames)
  PROVE  <<f, y>> \o c = <<f>> \o (<<y>> \o c) /\ <<y>> \o c \in Seq(Frames)
<1>1. <<f, y>> = <<f>> \o <<y>>
  <2>1. PICK s, t : s = <<f>> \o <<y>> /\ t = <<f, y>>
    OBVIOUS
  <2>2. s \in Seq(Frames) /\ Len(s) = 2 /\ s[1] = f /\ s[2] = y
    BY <2>1
  <2>3. t \in Seq(Frames) /\ Len(t) = 2 /\ t[1] = f /\ t[2] = y
    BY <2>1
  <2>4. \A i \in 1 .. Len(s) : s[i] = t[i]
    BY <2>2, <2>3
  <2>5. s = t
    BY <2>2, <2>3, <2>4, SeqEqual
  <2> QED  BY <2>1, <2>5
<1>2. <<f>> \in Seq(Frames) /\ <<y>> \in Seq(Frames)
  OBVIOUS
<1>3. (<<f>> \o <<y>>) \o c = <<f>> \o (<<y>> \o c)
  BY <1>2, ConcatAssociative
<1> QED
  BY <1>1, <1>2, <1>3

LEMMA Upped ==
  ASSUME IInv, NEW x \in Frames, NEW c \in Seq(Frames), Rest(c), TopFits(x, c),
         HaltedTypes(halted, events), HaltedTop(x, c, halted), HaltedRest(c, halted),
         Tells(x), x.at \in Elements,
         NEW y, y = [x EXCEPT !.at = @ + 1]
  PROVE  /\ y \in Frames /\ y.runs = x.runs /\ y.v = x.v /\ y.type = x.type
         /\ y.at = x.at + 1 /\ y.stopped = x.stopped
         /\ TopFits(y, c) /\ Rest(<<y>> \o c)
         /\ Under(y, c, halted)
         /\ HaltedFit(<<y>> \o c, halted, events)
<1>1. /\ y \in Frames /\ y.runs = x.runs /\ y.v = x.v /\ y.type = x.type
      /\ y.at = x.at + 1 /\ y.stopped = x.stopped
  <2>1. x.at + 1 \in 1 .. Depth + 1
    BY Consts DEF Elements
  <2> QED  BY <2>1 DEF Frames, Tells
<1>2. x.at \in Nat /\ \A e \in Elements : e \in Nat
  BY Consts
<1>3. ~IsRetold(c) => TellInv(y, Table(data), times, events)
  <2>1. ~IsRetold(c) => TellInv(x, Table(data), times, events)
    BY DEF TopFits, OnTop
  <2>2. \A e \in Elements : y.at <= e => x.at <= e
    BY <1>1, <1>2
  <2> QED  BY <1>1, <2>1, <2>2 DEF TellInv
<1>4. Tells(y) /\ x.runs # "dispatch" /\ x.runs # "default"
  BY <1>1 DEF Tells
<1>5. c # <<>> => Stands(y, c[1])
  <2>1. c # <<>> => Stands(x, c[1])
    BY DEF TopFits, OnTop
  <2> QED  BY <1>1, <1>4, <2>1 DEF Stands
<1>6. TopFits(y, c)
  BY <1>1, <1>3, <1>4, <1>5 DEF TopFits, OnTop
<1>7. Rest(<<y>> \o c)
  BY <1>1, <1>6, Push DEF Rest, TopFits
<1>8. HaltedTop(y, c, halted)
  BY <1>1, <1>4 DEF HaltedTop
<1>9. Under(y, c, halted)
  <2>1. c # <<>> => ~Tells(c[1])
    BY <1>4, <1>5 DEF Stands, Tells
  <2> QED  BY <2>1 DEF Under
<1>10. HaltedFit(<<y>> \o c, halted, events)
  BY <1>1, <1>8, <1>9, HaltedSplit
<1> QED
  BY <1>1, <1>6, <1>7, <1>9, <1>10

LEMMA QueueFacts ==
  ASSUME IInv, NEW e \in Elements, NEW t \in Types, NEW target, NEW q,
         q = HandlerQueue(e, t, target)
  PROVE  /\ q \in Seq(Handler)
         /\ \A j \in DOMAIN q : Bound(Table(data), e, q[j]) /\ q[j].type = t
                                /\ q[j].n <= bound
         /\ \A j, k \in DOMAIN q : q[j].n = q[k].n => j = k
         /\ \A f \in Elements, h \in Handler, k \in DOMAIN q :
              Bound(Table(data), f, h) /\ h.n = q[k].n => f = e /\ h = q[k]
<1>1. DataTypes(data) /\ TableFits(Table(data), bound) /\ Table(data) \in Tables
  BY TableFacts DEF IInv, DataInv, CoreInv
<1>2. PICK list : list = Handlers(data, e, t)
  OBVIOUS
<1>3. list = Table(data)[e][t] /\ list \in Seq(Handler) /\ InOrder(list)
  <2>1. list = Table(data)[e][t]
    BY <1>1, <1>2, TableFacts
  <2> QED  BY <1>1, <2>1 DEF Tables, TableFits
<1>4. \E o \in Nat : /\ q \in Seq(Handler)
                     /\ \A j \in DOMAIN q : o + j \in DOMAIN list /\ q[j] = list[o + j]
  <2>1. CASE target = 1 /\ e # 1
    <3>1. q = list
      BY <1>2, <2>1 DEF HandlerQueue
    <3>2. \A j \in DOMAIN q : 0 + j = j
      BY <1>3, <3>1
    <3> QED  BY <1>3, <3>1, <3>2
  <2>2. CASE ~(target = 1 /\ e # 1)
    <3>1. PICK o : o = Delegates(list)
      OBVIOUS
    <3>2. q = SubSeq(list, o + 1, Len(list))
      BY <1>2, <2>2, <3>1 DEF HandlerQueue
    <3>3. o \in 0 .. Len(list) /\ Len(list) \in Nat
      BY <1>3, <3>1, DelegatesFacts
    <3>4. /\ o + 1 \in Int /\ Len(list) \in Int
          /\ \A k \in o + 1 .. Len(list) : list[k] \in Handler
      BY <1>3, <3>3
    <3>5. /\ q \in Seq(Handler)
          /\ Len(q) = IF o + 1 <= Len(list) THEN Len(list) - (o + 1) + 1 ELSE 0
          /\ \A k \in 1 .. Len(list) - (o + 1) + 1 : q[k] = list[o + 1 + k - 1]
      BY <3>2, <3>4, SubSeqProperties
    <3>6. DOMAIN q = 1 .. Len(list) - o
      BY <3>3, <3>5
    <3>7. \A j \in DOMAIN q : o + j \in DOMAIN list /\ q[j] = list[o + j]
      BY <1>3, <3>3, <3>5, <3>6
    <3> QED  BY <3>3, <3>5, <3>7
  <2> QED  BY <2>1, <2>2
<1>5. PICK o \in Nat : /\ q \in Seq(Handler)
                       /\ \A j \in DOMAIN q : o + j \in DOMAIN list /\ q[j] = list[o + j]
  BY <1>4
<1>6. \A j \in DOMAIN q : j \in Nat
  BY <1>5
<1>7. ASSUME NEW j \in DOMAIN q
      PROVE  Bound(Table(data), e, q[j]) /\ q[j].type = t /\ q[j].n <= bound
  BY <1>1, <1>3, <1>5 DEF Bound, TableFits
<1>8. ASSUME NEW j \in DOMAIN q, NEW k \in DOMAIN q, q[j].n = q[k].n PROVE j = k
  <2>1. o + j = o + k
    BY <1>1, <1>3, <1>5, <1>8 DEF TableFits
  <2> QED  BY <1>6, <2>1
<1>9. ASSUME NEW f \in Elements, NEW h \in Handler, NEW k \in DOMAIN q,
             Bound(Table(data), f, h), h.n = q[k].n
      PROVE  f = e /\ h = q[k]
  <2>1. PICK u \in Types : \E l \in DOMAIN Table(data)[f][u] : h = Table(data)[f][u][l]
    BY <1>9 DEF Bound
  <2>2. PICK l \in DOMAIN Table(data)[f][u] : h = Table(data)[f][u][l]
    BY <2>1
  <2>3. f = e /\ u = t /\ l = o + k
    BY <1>1, <1>3, <1>5, <1>9, <2>2 DEF TableFits
  <2> QED  BY <1>3, <1>5, <2>2, <2>3
<1> QED
  BY <1>5, <1>7, <1>8, <1>9

LEMMA Dispatched ==
  ASSUME IInv, NEW x \in Frames, NEW c \in Seq(Frames), Rest(c), TopFits(x, c),
         HaltedTypes(halted, events), HaltedTop(x, c, halted), HaltedRest(c, halted),
         Tells(x), x.at \in Elements, ~x.stopped, ~IsRetold(c),
         NEW y, y = [x EXCEPT !.at = @ + 1], NEW f, f = Dispatching(x, x.at)
  PROVE  Rest(<<f, y>> \o c) /\ HaltedFit(<<f, y>> \o c, halted, events)
<1>0. PICK T : T = Table(data)
  OBVIOUS
<1>1. /\ y \in Frames /\ y.runs = x.runs /\ y.v = x.v /\ y.type = x.type
      /\ y.at = x.at + 1 /\ y.stopped = x.stopped
      /\ TopFits(y, c) /\ Rest(<<y>> \o c)
      /\ Under(y, c, halted)
      /\ HaltedFit(<<y>> \o c, halted, events)
  BY Upped
<1>2. PICK s : s = <<y>> \o c
  OBVIOUS
<1>3. Placed(s, y, c)
  BY <1>1, <1>2, Places
<1>4. /\ x.v \in 1 .. MaxDeeds /\ x.type \in Types /\ x.target \in Elements
      /\ TellInv(x, T, times, events)
  <2>1. TellInv(x, T, times, events)
    BY <1>0 DEF TopFits, OnTop
  <2> QED  BY <2>1, FrameFacts
<1>5. PICK q : q = HandlerQueue(x.at, x.type, x.target)
  OBVIOUS
<1>6. /\ q \in Seq(Handler)
      /\ \A j \in DOMAIN q : Bound(T, x.at, q[j]) /\ q[j].type = x.type /\ q[j].n <= bound
      /\ \A j, k \in DOMAIN q : q[j].n = q[k].n => j = k
      /\ \A e \in Elements, h \in Handler, k \in DOMAIN q :
           Bound(T, e, h) /\ h.n = q[k].n => e = x.at /\ h = q[k]
  BY <1>0, <1>4, <1>5, QueueFacts
<1>7. \A j \in DOMAIN q : q[j] \in Handler /\ q[j].n \in 1 .. MaxDeeds
  <2>1. \A j \in DOMAIN q : q[j] \in Handler
    BY <1>6, ElementOfSeq
  <2> QED  BY <2>1, HandlerFacts
<1>8. PICK had : had = {h.n : h \in ToSet(q)}
  OBVIOUS
<1>9. had \in SUBSET (1 .. MaxDeeds) /\ \A n \in had : \E k \in DOMAIN q : q[k].n = n
  <2>1. \A h \in ToSet(q) : \E k \in DOMAIN q : h = q[k]
    BY <1>6 DEF ToSet
  <2> QED  BY <1>7, <1>8, <2>1
<1>10. bound \in 0 .. MaxDeeds /\ bound \in Nat /\ TimesFit(times, bound, events)
  BY Consts DEF IInv
<1>11. /\ f = [runs |-> "dispatch", v |-> x.v, type |-> x.type, target |-> x.target,
               at |-> x.at, rest |-> q, group |-> Off,
               spaced |-> (x.runs = "trigger" /\ x.spaced),
               stopped |-> FALSE, immediate |-> FALSE, prevented |-> FALSE,
               had |-> had, since |-> bound]
  BY <1>5, <1>8 DEF Dispatching
<1>12. /\ f.runs = "dispatch" /\ f.v = x.v /\ f.type = x.type /\ f.at = x.at
       /\ f.rest = q /\ f.stopped = FALSE /\ f.immediate = FALSE
       /\ f.had = had /\ f.since = bound
  BY <1>11
<1>13. f \in Frames
  <2>1. (x.runs = "trigger" /\ x.spaced) \in BOOLEAN
    BY DEF Frames
  <2> QED  BY <1>4, <1>6, <1>9, <1>10, <1>11, <2>1 DEF Frames
<1>14. \A k \in DOMAIN q : times[x.v][q[k].n] = 0
  <2>1. x.at \in Nat /\ x.at <= x.at
    BY Consts
  <2> QED  BY <1>4, <1>6, <1>7, <2>1 DEF TellInv
<1>15. DispatchInv(f, T, times, bound)
  <2>1. \A n \in 1 .. MaxDeeds : n > bound => times[x.v][n] = 0
    <3> TAKE n \in 1 .. MaxDeeds
    <3>1. times[x.v][n] # 0 => n <= bound
      BY <1>4, <1>10 DEF TimesFit
    <3> QED  BY <1>10, <3>1
  <2>2. bound <= bound
    BY <1>10
  <2> QED  BY <1>6, <1>9, <1>12, <1>14, <2>1, <2>2 DEF DispatchInv
<1>16. /\ Rest(s) /\ s # <<>> /\ s[1] = y /\ Tells(y) /\ ~Tells(f)
  BY <1>1, <1>2, <1>3, <1>12 DEF Placed, Tells
<1>17. Stands(f, s[1])
  BY <1>1, <1>12, <1>16 DEF Stands
<1>18. \A j \in DOMAIN s : s[j].runs = "default" => j = 1 /\ f.type = "click"
  <2> SUFFICES ASSUME NEW j \in DOMAIN s, s[j].runs = "default" PROVE FALSE
    OBVIOUS
  <2>1. j # 1
    BY <1>16 DEF Tells
  <2>2. PICK k \in DOMAIN c : j = k + 1
    BY <1>3, <2>1 DEF Placed
  <2>3. c[k].runs = "default" /\ k = 1
    BY <1>3, <2>2 DEF TopFits, OnTop, Placed
  <2>4. c # <<>>
    BY <1>3, <2>3 DEF Placed
  <2> QED  BY <2>3, <2>4 DEF IsRetold
<1>19. ASSUME NEW j \in DOMAIN s, s[j].runs = "dispatch" PROVE Agree(f, s[j])
  <2>1. DispatchInv(s[j], T, times, bound)
    BY <1>0, <1>16, <1>19 DEF Rest, StackInv, RestsFit
  <2>2. \A k \in DOMAIN q, l \in DOMAIN s[j].rest :
          q[k].n = s[j].rest[l].n => q[k] = s[j].rest[l]
    BY <1>6, <1>7, <2>1 DEF DispatchInv
  <2> QED  BY <1>12, <2>2 DEF Agree
<1>20. ASSUME ~nested
       PROVE  /\ Unspent(f, spent)
              /\ \A j \in DOMAIN s : Tells(s[j]) /\ s[j].type = f.type => j = 1
  <2>1. Unspent(f, spent)
    <3>1. \A k \in DOMAIN q : spent[q[k].n] = 0
      <4>1. \A e \in Elements, h \in Handler : Bound(T, e, h) => spent[h.n] = 0
        BY <1>0, <1>20 DEF IInv, SpentFit
      <4> QED  BY <1>6, <1>7, <4>1
    <3> QED  BY <1>12, <3>1 DEF Unspent
  <2>2. ASSUME NEW j \in DOMAIN s, Tells(s[j]), s[j].type = x.type, j # 1
        PROVE  FALSE
    <3>1. PICK k \in DOMAIN c : j = k + 1
      BY <1>3, <2>2 DEF Placed
    <3>2. s[j] = c[k] /\ k \in Nat /\ DOMAIN c = 1 .. Len(c) /\ Len(c) \in Nat
      BY <1>3, <3>1 DEF Placed
    <3>3. k # 1
      <4>1. k = 1 => Stands(x, c[1])
        <5>1. k = 1 => c # <<>>
          BY <1>3 DEF Placed
        <5> QED  BY <5>1 DEF TopFits, OnTop
      <4> QED  BY <2>2, <3>2, <4>1 DEF Stands, Tells
    <3>4. k - 1 \in DOMAIN c /\ (k - 1) + 1 = k /\ k \in DOMAIN c
      BY <3>2, <3>3
    <3>5. Stands(c[k - 1], c[k])
      <4>1. \A i \in DOMAIN c : i + 1 \in DOMAIN c => Stands(c[i], c[i + 1])
        BY DEF Rest, StackInv, Stacked
      <4> QED  BY <3>4, <4>1
    <3>6. c[k - 1].runs = "dispatch" /\ c[k - 1].type = c[k].type
      BY <2>2, <3>2, <3>5 DEF Stands, Tells
    <3>7. c[k - 1].type # x.type
      BY <1>20, <3>4, <3>6 DEF TopFits, OnTop
    <3> QED  BY <2>2, <3>2, <3>6, <3>7
  <2> QED  BY <1>12, <2>1, <2>2
<1>21. TopFits(f, s)
  BY <1>0, <1>12, <1>15, <1>16, <1>17, <1>18, <1>19, <1>20 DEF TopFits, OnTop
<1>22. s \in Seq(Frames)
  BY <1>3 DEF Placed
<1>23. Rest(<<f>> \o s)
  BY <1>13, <1>16, <1>21, Push DEF Rest, TopFits
<1>24. HaltedFit(<<f>> \o s, halted, events)
  <2>1. HaltedTop(f, s, halted)
    BY <1>16 DEF HaltedTop
  <2>2. Under(f, s, halted)
    <3>1. ~Retold(s, 1)
      BY <1>3 DEF Placed
    <3>2. halted[y.v] # Off => y.stopped
      BY <1>1 DEF HaltedTop
    <3> QED  BY <1>16, <3>2 DEF Under
  <2>3. HaltedRest(s, halted)
    BY <1>1, <1>2, HaltedBelow
  <2> QED  BY <1>13, <1>22, <2>1, <2>2, <2>3, HaltedSplit
<1>25. <<f, y>> \o c = <<f>> \o s
  BY <1>1, <1>2, <1>13, TwoPushed
<1> QED
  BY <1>23, <1>24, <1>25

-----------------------------------------------------------------------------
(* The steps that only change the stack.                                   *)
LEMMA StackKeeps ==
  ASSUME IInv, UNCHANGED <<data, bound, events, spent, nested>>,
         triggered' \in {Off, "click"}, TimesFit(times', bound, events),
         StackInv(calls', Table(data), triggered', bound, events, times', spent, nested),
         HaltedFit(calls', halted', events)
  PROVE  IInv'
BY DEF IInv

LEMMA Held ==
  ASSUME IInv
  PROVE  /\ triggered \in {Off, "click"} /\ TimesFit(times, bound, events)
         /\ bound \in 0 .. MaxDeeds /\ bound \in Nat
         /\ events \in 0 .. MaxDeeds /\ events \in Nat
         /\ DataInv(data, bound) /\ DataTypes(data)
         /\ SpentFit(Table(data), spent, nested, bound)
         /\ HaltedFit(calls, halted, events)
         /\ Rest(calls) /\ calls \in Seq(Frames)
BY Consts DEF IInv, DataInv, CoreInv, Rest, StackInv, Stacked

LEMMA NotRetold ==
  ASSUME NEW x \in Frames, NEW c \in Seq(Frames), Rest(c), TopFits(x, c),
         triggered # x.type
  PROVE  ~IsRetold(c)
<1> SUFFICES ASSUME IsRetold(c) PROVE FALSE
  OBVIOUS
<1>1. 1 \in DOMAIN c /\ c[1].runs = "default"
  <2>1. Len(c) \in Nat /\ DOMAIN c = 1 .. Len(c) /\ Len(c) # 0
    BY EmptySeq DEF IsRetold
  <2> QED  BY <2>1 DEF IsRetold
<1>2. triggered = "click"
  BY <1>1 DEF Rest, StackInv, Defaults
<1>3. x.type = "click"
  BY <1>1 DEF TopFits, OnTop
<1> QED
  BY <1>2, <1>3

LEMMA CallListenerKeeps == ASSUME IInv, CallListener PROVE IInv'
<1>1. PICK x \in Frames, c \in Seq(Frames) :
        /\ x = Top /\ c = Below /\ calls = <<x>> \o c /\ calls[1] = x
        /\ Rest(c) /\ TopFits(x, c)
        /\ HaltedTypes(halted, events) /\ HaltedTop(x, c, halted)
        /\ Under(x, c, halted) /\ HaltedRest(c, halted)
  BY Opened DEF CallListener, Running
<1>2. PICK y, f : y = [x EXCEPT !.at = @ + 1] /\ f = Dispatching(x, x.at)
  OBVIOUS
<1>3. PICK s : s = (IF x.at \notin Elements \/ x.stopped THEN c
                    ELSE IF x.type \in data.listens[x.at] /\ triggered # x.type
                    THEN <<f, y>> \o c ELSE <<y>> \o c)
  OBVIOUS
<1>4. /\ Continue(s) /\ x.runs = "native" /\ Tells(x)
      /\ UNCHANGED <<data, triggered, bound, events, spent, nested>>
  BY <1>1, <1>2, <1>3 DEF CallListener, Running, Tells
<1>5. Rest(s) /\ HaltedFit(s, halted, events)
  <2>1. CASE x.at \notin Elements \/ x.stopped
    <3>1. c # <<>> => Stands(x, c[1])
      BY <1>1 DEF TopFits, OnTop
    <3>2. HaltedFit(<<x>> \o c, halted, events)
      BY <1>1, Held
    <3>3. HaltedFit(c, halted, events)
      BY <1>4, <3>1, <3>2, HaltedPop
    <3> QED  BY <1>1, <1>3, <2>1, <3>3
  <2>2. CASE /\ x.at \in Elements /\ ~x.stopped
             /\ x.type \in data.listens[x.at] /\ triggered # x.type
    <3>1. ~IsRetold(c)
      BY <1>1, <2>2, NotRetold
    <3>2. Rest(<<f, y>> \o c) /\ HaltedFit(<<f, y>> \o c, halted, events)
      BY <1>1, <1>2, <1>4, <2>2, <3>1, Dispatched
    <3> QED  BY <1>3, <2>2, <3>2
  <2>3. CASE /\ x.at \in Elements /\ ~x.stopped
             /\ ~(x.type \in data.listens[x.at] /\ triggered # x.type)
    <3>1. Rest(<<y>> \o c) /\ HaltedFit(<<y>> \o c, halted, events)
      BY <1>1, <1>2, <1>4, <2>3, Upped
    <3> QED  BY <1>3, <2>3, <3>1
  <2> QED  BY <2>1, <2>2, <2>3
<1>6. /\ calls' = s
      /\ StackInv(s, Table(data), triggered, bound, events, times', spent, nested)
      /\ HaltedFit(s, halted', events) /\ TimesFit(times', bound, events)
  BY <1>4, <1>5, Held, Continued DEF Rest
<1> QED
  BY <1>4, <1>6, Held, StackKeeps

LEMMA WalkPathKeeps == ASSUME IInv, WalkPath PROVE IInv'
<1>1. PICK x \in Frames, c \in Seq(Frames) :
        /\ x = Top /\ c = Below /\ calls = <<x>> \o c /\ calls[1] = x
        /\ Rest(c) /\ TopFits(x, c)
        /\ HaltedTypes(halted, events) /\ HaltedTop(x, c, halted)
        /\ Under(x, c, halted) /\ HaltedRest(c, halted)
  BY Opened DEF WalkPath, Running
<1>2. PICK y, f : y = [x EXCEPT !.at = @ + 1] /\ f = Dispatching(x, x.at)
  OBVIOUS
<1>3. PICK s : s = (IF Handlers(data, x.at, x.type) # <<>> /\ triggered # x.type
                    THEN <<f, y>> \o c ELSE <<y>> \o c)
  OBVIOUS
<1>4. /\ calls' = s /\ x.runs = "trigger" /\ Tells(x) /\ x.at \in Elements /\ ~x.stopped
      /\ UNCHANGED <<data, triggered, bound, events, times, halted, spent, nested>>
  BY <1>1, <1>2, <1>3 DEF WalkPath, Running, Tells
<1>5. Rest(s) /\ HaltedFit(s, halted, events)
  <2>1. CASE Handlers(data, x.at, x.type) # <<>> /\ triggered # x.type
    <3>1. ~IsRetold(c)
      BY <1>1, <2>1, NotRetold
    <3>2. Rest(<<f, y>> \o c) /\ HaltedFit(<<f, y>> \o c, halted, events)
      BY <1>1, <1>2, <1>4, <3>1, Dispatched
    <3> QED  BY <1>3, <2>1, <3>2
  <2>2. CASE ~(Handlers(data, x.at, x.type) # <<>> /\ triggered # x.type)
    <3>1. Rest(<<y>> \o c) /\ HaltedFit(<<y>> \o c, halted, events)
      BY <1>1, <1>2, <1>4, Upped
    <3> QED  BY <1>3, <2>2, <3>1
  <2> QED  BY <2>1, <2>2
<1> QED
  BY <1>4, <1>5, Held, StackKeeps DEF Rest

(* Nothing is told within what stands on a handler.                        *)
LEMMA NoDefault ==
  ASSUME NEW x \in Frames, NEW c \in Seq(Frames), TopFits(x, c),
         x.runs \in {"trigger", "default", "clean"}
  PROVE  \A j \in DOMAIN c : c[j].runs # "default"
<1> SUFFICES ASSUME NEW j \in DOMAIN c, c[j].runs = "default" PROVE FALSE
  OBVIOUS
<1>1. j = 1 /\ c # <<>>
  BY DEF TopFits, OnTop
<1>2. Stands(x, c[1])
  BY <1>1 DEF TopFits, OnTop
<1> QED
  BY <1>1, <1>2 DEF Stands, Tells

LEMMA TurnedOver ==
  ASSUME IInv, NEW c \in Seq(Frames), Rest(c),
         \A j \in DOMAIN c : c[j].runs # "default", NEW tr
  PROVE  StackInv(c, Table(data), tr, bound, events, times, spent, nested)
<1>1. Defaults(c, tr)
  BY DEF Defaults
<1> QED
  BY <1>1 DEF Rest, StackInv

LEMMA EndTriggerKeeps == ASSUME IInv, EndTrigger PROVE IInv'
<1>1. PICK x \in Frames, c \in Seq(Frames) :
        /\ x = Top /\ c = Below /\ calls = <<x>> \o c /\ calls[1] = x
        /\ Rest(c) /\ TopFits(x, c)
        /\ HaltedTypes(halted, events) /\ HaltedTop(x, c, halted)
        /\ Under(x, c, halted) /\ HaltedRest(c, halted)
  BY Opened DEF EndTrigger, Running
<1>2. /\ x.runs = "trigger" /\ Tells(x)
      /\ UNCHANGED <<data, bound, events, spent, nested>>
  BY <1>1 DEF EndTrigger, Running, Tells
<1>3. c # <<>> => c[1].runs = "body" /\ ~Tells(c[1])
  BY <1>1, <1>2 DEF TopFits, OnTop, Stands, Tells
<1>4. \A j \in DOMAIN c : c[j].runs # "default"
  BY <1>1, <1>2, NoDefault
<1>5. CASE x.type = "click" /\ ~x.prevented
  <2>1. PICK n, d, u, s : /\ n = Native(x.v, "click", x.target) /\ d = Default
                          /\ u = <<d>> \o c /\ s = <<n, d>> \o c
    OBVIOUS
  <2>2. triggered' = "click" /\ Continue(s)
    BY <1>1, <1>5, <2>1 DEF EndTrigger
  <2>3. /\ d \in Frames /\ d.runs = "default" /\ ~Tells(d)
        /\ n \in Frames /\ n.runs = "native" /\ Tells(n) /\ n.v = x.v /\ n.type = "click"
    <3>1. /\ x.v \in 1 .. MaxDeeds /\ x.type \in Types /\ x.target \in Elements
          /\ x.target \in 1 .. Depth + 1
      BY <1>2, FrameFacts, Consts DEF Elements
    <3> QED  BY <1>5, <2>1, <3>1 DEF Default, Native, Frames, Tells
  <2>4. StackInv(c, Table(data), "click", bound, events, times, spent, nested)
    BY <1>1, <1>4, TurnedOver
  <2>5. OnTop(d, c, Table(data), "click", bound, events, times, spent, nested)
    BY <1>3, <1>4, <2>3 DEF OnTop, Stands, Bottom, Tells
  <2>6. StackInv(u, Table(data), "click", bound, events, times, spent, nested)
    BY <2>1, <2>3, <2>4, <2>5, Push
  <2>7. Placed(u, d, c)
    BY <2>1, <2>3, Places
  <2>8. \A j \in DOMAIN u : \/ j = 1 /\ u[j] = d
                            \/ \E k \in DOMAIN c : j = k + 1 /\ u[j] = c[k]
    BY <2>7 DEF Placed
  <2>9. OnTop(n, u, Table(data), "click", bound, events, times, spent, nested)
    <3>1. u # <<>> /\ u[1] = d /\ Stands(n, d) /\ IsRetold(u)
      BY <2>3, <2>7 DEF Placed, Stands, IsRetold
    <3>2. ASSUME NEW j \in DOMAIN u, Tells(u[j]) PROVE u[j].v # n.v
      <4>1. PICK k \in DOMAIN c : u[j] = c[k]
        BY <2>3, <2>8, <3>2
      <4> QED  BY <1>1, <1>2, <2>3, <3>2, <4>1 DEF TopFits, OnTop
    <3>3. \A j \in DOMAIN u : u[j].runs = "default" => j = 1
      BY <1>4, <2>8
    <3>4. ASSUME ~nested, NEW j \in DOMAIN u, u[j].runs = "dispatch"
          PROVE  u[j].type # n.type
      <4>1. PICK k \in DOMAIN c : u[j] = c[k]
        BY <2>3, <2>8, <3>4
      <4> QED  BY <1>1, <1>2, <1>5, <2>3, <3>4, <4>1 DEF TopFits, OnTop
    <3> QED  BY <2>3, <3>1, <3>2, <3>3, <3>4 DEF OnTop
  <2>10. u \in Seq(Frames) /\ s = <<n>> \o u
    BY <2>1, <2>3, TwoPushed
  <2>11. StackInv(s, Table(data), "click", bound, events, times, spent, nested)
    BY <2>3, <2>6, <2>9, <2>10, Push
  <2>12. HaltedFit(s, halted, events)
    <3>1. HaltedTop(n, u, halted) /\ Under(n, u, halted)
      BY <2>3, <2>7 DEF HaltedTop, Under, IsRetold, Placed
    <3>2. Under(d, c, halted)
      BY <1>3 DEF Under
    <3>3. HaltedRest(u, halted)
      BY <1>1, <2>1, <2>3, <3>2, HaltedBelow
    <3> QED  BY <1>1, <2>3, <2>10, <3>1, <3>3, HaltedSplit
  <2>13. /\ calls' = s
         /\ StackInv(s, Table(data), "click", bound, events, times', spent, nested)
         /\ HaltedFit(s, halted', events) /\ TimesFit(times', bound, events)
    BY <2>2, <2>11, <2>12, Held, Continued
  <2> QED  BY <1>2, <2>2, <2>13, StackKeeps
<1>6. CASE ~(x.type = "click" /\ ~x.prevented)
  <2>1. Continue(c) /\ UNCHANGED triggered
    BY <1>1, <1>6 DEF EndTrigger
  <2>2. HaltedFit(c, halted, events)
    <3>1. HaltedFit(<<x>> \o c, halted, events)
      BY <1>1, Held
    <3>2. c # <<>> => Stands(x, c[1])
      BY <1>1 DEF TopFits, OnTop
    <3> QED  BY <1>2, <3>1, <3>2, HaltedPop
  <2>3. /\ calls' = c
        /\ StackInv(c, Table(data), triggered, bound, events, times', spent, nested)
        /\ HaltedFit(c, halted', events) /\ TimesFit(times', bound, events)
    BY <1>1, <2>1, <2>2, Held, Continued DEF Rest
  <2> QED  BY <1>2, <2>1, <2>3, Held, StackKeeps
<1> QED
  BY <1>5, <1>6

LEMMA EndDefaultKeeps == ASSUME IInv, EndDefault PROVE IInv'
<1>1. PICK x \in Frames, c \in Seq(Frames) :
        /\ x = Top /\ c = Below /\ calls = <<x>> \o c /\ calls[1] = x
        /\ Rest(c) /\ TopFits(x, c)
        /\ HaltedTypes(halted, events) /\ HaltedTop(x, c, halted)
        /\ Under(x, c, halted) /\ HaltedRest(c, halted)
  BY Opened DEF EndDefault, Running
<1>2. /\ x.runs = "default" /\ Continue(c) /\ triggered' = Off
      /\ UNCHANGED <<data, bound, events, spent, nested>>
  BY <1>1 DEF EndDefault, Running
<1>3. StackInv(c, Table(data), Off, bound, events, times, spent, nested)
  <2>1. \A j \in DOMAIN c : c[j].runs # "default"
    BY <1>1, <1>2, NoDefault
  <2> QED  BY <1>1, <2>1, TurnedOver
<1>4. HaltedFit(c, halted, events)
  <2>1. HaltedFit(<<x>> \o c, halted, events)
    BY <1>1, Held
  <2>2. c # <<>> => Stands(x, c[1])
    BY <1>1 DEF TopFits, OnTop
  <2> QED  BY <1>2, <2>1, <2>2, HaltedPop
<1>5. /\ calls' = c
      /\ StackInv(c, Table(data), Off, bound, events, times', spent, nested)
      /\ HaltedFit(c, halted', events) /\ TimesFit(times', bound, events)
  BY <1>2, <1>3, <1>4, Held, Continued
<1> QED
  BY <1>2, <1>5, StackKeeps

(* The steps that change the data, and the page's new events.              *)
LEMMA DataKeeps ==
  ASSUME IInv, NEW s, calls' = s, Rest(s), HaltedFit(s, halted, events),
         UNCHANGED <<triggered, events, times, halted, spent, nested>>,
         bound' \in 0 .. MaxDeeds, bound <= bound', DataInv(data', bound'),
         \A e \in Elements, h \in Handler :
           Bound(Table(data'), e, h) => Bound(Table(data), e, h) \/ h.n > bound
  PROVE  IInv'
<1>0. PICK T, T2, b2 : T = Table(data) /\ T2 = Table(data') /\ b2 = bound'
  OBVIOUS
<1>1. b2 \in Nat /\ bound \in Nat /\ events \in Nat /\ bound <= b2 /\ events <= events
  BY <1>0, Held, Consts
<1>2. TimesFit(times, b2, events)
  <2>1. TimesFit(times, bound, events)
    BY Held
  <2>2. \A n \in 1 .. MaxDeeds : n <= bound => n <= b2
    BY <1>1, Consts
  <2> QED  BY <2>1, <2>2 DEF TimesFit
<1>3. SpentFit(T2, spent, nested, b2)
  <2>1. SpentFit(T, spent, nested, bound)
    BY <1>0, Held
  <2>2. \A n \in 1 .. MaxDeeds : n <= bound => n <= b2
    BY <1>1, Consts
  <2>3. ASSUME ~nested, NEW e \in Elements, NEW h \in Handler, Bound(T2, e, h)
        PROVE  spent[h.n] = 0
    <3>1. h.n \in 1 .. MaxDeeds /\ h.n \in Nat
      BY HandlerFacts
    <3>2. Bound(T, e, h) \/ h.n > bound
      BY <1>0, <2>3
    <3>3. CASE Bound(T, e, h)
      BY <2>1, <2>3, <3>3 DEF SpentFit
    <3>4. CASE h.n > bound
      BY <1>1, <2>1, <3>1, <3>4 DEF SpentFit
    <3> QED  BY <3>2, <3>3, <3>4
  <2> QED  BY <2>1, <2>2, <2>3 DEF SpentFit
<1>4. StackInv(s, T2, triggered, b2, events, times, spent, nested)
  <2>1. StackInv(s, T, triggered, bound, events, times, spent, nested)
    BY <1>0 DEF Rest
  <2>2. TimesFit(times, bound, events)
    BY Held
  <2>3. \A e \in Elements, h \in Handler : Bound(T2, e, h) => Bound(T, e, h) \/ h.n > bound
    BY <1>0
  <2>4. Defaults(s, triggered)
    BY <2>1 DEF StackInv
  <2>5. ~nested => ~nested /\ \A i \in DOMAIN s : s[i].runs = "dispatch" => Unspent(s[i], spent)
    BY <2>1 DEF StackInv, OneInv
  <2> QED  BY ONLY <1>1, <2>1, <2>2, <2>3, <2>4, <2>5, Shift
<1> QED
  BY <1>0, <1>2, <1>3, <1>4 DEF IInv

LEMMA OnKeeps ==
  ASSUME IInv, NEW e \in Elements, NEW t \in Types, NEW f \in Fn,
         NEW sel \in BOOLEAN, NEW one \in BOOLEAN, On(e, t, f, sel, one)
  PROVE  IInv'
<1>1. PICK h, c : /\ h = [n |-> bound + 1, type |-> t, fn |-> f, sel |-> sel, one |-> one]
                  /\ c = Added(data, e, h)
  OBVIOUS
<1>2. /\ data' = c /\ bound' = bound + 1 /\ bound + events < MaxDeeds
      /\ UNCHANGED <<triggered, calls, events, times, halted, spent, nested>>
  BY <1>1 DEF On
<1>3. bound \in Nat /\ events \in Nat /\ MaxDeeds \in Nat /\ DataInv(data, bound)
  BY Held, Consts
<1>4. bound + 1 \in 0 .. MaxDeeds /\ bound + 1 \in 1 .. MaxDeeds /\ bound <= bound + 1
      /\ bound + 1 > bound
  BY <1>2, <1>3
<1>5. h \in Handler /\ h.n = bound + 1
  BY <1>1, <1>4 DEF Handler
<1>6. /\ DataInv(c, bound + 1)
      /\ \A g \in Elements : \A x :
           Bound(Table(c), g, x) => Bound(Table(data), g, x) \/ (g = e /\ x = h)
  BY <1>1, <1>3, <1>5, AddedKeeps
<1>7. \A g \in Elements, x \in Handler :
        Bound(Table(c), g, x) => Bound(Table(data), g, x) \/ x.n > bound
  BY <1>4, <1>5, <1>6
<1> QED
  BY <1>2, <1>4, <1>6, <1>7, Held, DataKeeps

LEMMA UnbindKeeps ==
  ASSUME IInv, NEW e \in Elements, NEW ts \in SUBSET Types, NEW fs, Unbind(e, ts, fs)
  PROVE  IInv'
<1>1. PICK gone, c : /\ gone = {h \in AllOf(data, e, ts) : h.fn \in fs}
                     /\ c = Removed(data, e, ts, gone)
  OBVIOUS
<1>2. /\ data' = c
      /\ UNCHANGED <<triggered, calls, bound, events, times, halted, spent, nested>>
  BY <1>1 DEF Unbind
<1>3. /\ DataInv(c, bound)
      /\ \A f \in Elements : \A h : Bound(Table(c), f, h) => Bound(Table(data), f, h)
  BY <1>1, Held, RemovedKeeps
<1>4. bound <= bound
  BY Held
<1> QED
  BY <1>2, <1>3, <1>4, Held, DataKeeps

LEMMA SetDataActs == ASSUME IInv, NEW e \in WithPublic, SetData(e) PROVE IInv'
<1>1. PICK c : c = data'
  OBVIOUS
<1>2. /\ PublicSet(c, data, e) /\ e \in Elements
      /\ UNCHANGED <<triggered, calls, bound, events, times, halted, spent, nested>>
  BY <1>1, Consts DEF SetData, PublicSet
<1>3. DataInv(c, bound) /\ Table(c) = Table(data)
  BY <1>2, Held, SetDataKeeps
<1>4. bound <= bound
  BY Held
<1> QED
  BY <1>1, <1>2, <1>3, <1>4, Held, DataKeeps

LEMMA RemoveDataActs == ASSUME IInv, NEW e \in WithPublic, RemoveData(e) PROVE IInv'
<1>1. PICK c : c = data'
  OBVIOUS
<1>2. /\ PublicRemoved(c, data, e) /\ e \in Elements /\ HasData(data, e)
      /\ UNCHANGED <<triggered, calls, bound, events, times, halted, spent, nested>>
  BY <1>1, Consts DEF RemoveData, PublicRemoved
<1>3. DataInv(c, bound) /\ Table(c) = Table(data)
  BY <1>2, Held, RemoveDataKeeps
<1>4. bound <= bound
  BY Held
<1> QED
  BY <1>1, <1>2, <1>3, <1>4, Held, DataKeeps

LEMMA UserStack ==
  ASSUME IInv, UserCode
  PROVE  /\ calls # <<>> => calls[1].runs = "body"
         /\ \A j \in DOMAIN calls : calls[j].runs # "default"
<1>1. /\ calls \in Seq(Frames) /\ Defaults(calls, triggered)
      /\ \A i \in DOMAIN calls : i + 1 \in DOMAIN calls => Stands(calls[i], calls[i + 1])
  BY Held DEF Rest, StackInv, Stacked
<1>2. calls # <<>> => calls[1].runs = "body"
  BY <1>1, PopPlaces DEF UserCode, Running, Top
<1>3. ASSUME NEW j \in DOMAIN calls, calls[j].runs = "default" PROVE FALSE
  <2>1. Len(calls) \in Nat /\ DOMAIN calls = 1 .. Len(calls)
    BY <1>1
  <2>2. calls # <<>> /\ 1 \in DOMAIN calls
    <3>1. Len(calls) # 0
      BY <2>1
    <3> QED  BY <2>1, <3>1
  <2>3. j = 1 \/ j = 2
    BY <1>1, <1>3 DEF Defaults
  <2>4. j = 2 => 1 + 1 \in DOMAIN calls /\ 1 + 1 = 2
    BY <1>3
  <2>5. j = 2 => Stands(calls[1], calls[2])
    BY <1>1, <2>2, <2>4
  <2> QED  BY <1>2, <1>3, <2>2, <2>3, <2>5 DEF Stands
<1> QED
  BY <1>2, <1>3

LEMMA Pushed ==
  ASSUME IInv, NEW x \in Frames, x.runs = "clean", NEW c \in Seq(Frames), Rest(c),
         HaltedFit(c, halted, events), c # <<>> => c[1].runs = "body",
         \A j \in DOMAIN c : c[j].runs # "default"
  PROVE  Rest(<<x>> \o c) /\ HaltedFit(<<x>> \o c, halted, events)
<1>1. OnTop(x, c, Table(data), triggered, bound, events, times, spent, nested)
  BY DEF OnTop, Stands, Bottom, Tells
<1>2. Rest(<<x>> \o c)
  BY <1>1, Push DEF Rest
<1>3. HaltedTop(x, c, halted) /\ Under(x, c, halted)
  BY DEF HaltedTop, Under, Tells
<1>4. HaltedTypes(halted, events) /\ HaltedRest(c, halted)
  BY DEF HaltedFit, HaltedRest
<1> QED
  BY <1>2, <1>3, <1>4, HaltedSplit

LEMMA CleaningFacts ==
  ASSUME NEW e \in Elements
  PROVE  Cleaning(e) \in Frames /\ Cleaning(e).runs = "clean"
BY DEF Cleaning, Frames

LEMMA CleanKeeps == ASSUME IInv, NEW e \in Elements, Clean(e) PROVE IInv'
<1>1. PICK x : x = Cleaning(e)
  OBVIOUS
<1>2. PICK s : s = <<x>> \o calls
  OBVIOUS
<1>3. /\ x \in Frames /\ x.runs = "clean" /\ calls' = s
      /\ UNCHANGED <<data, triggered, bound, events, times, halted, spent, nested>>
  BY <1>1, <1>2, CleaningFacts DEF Clean
<1>4. Rest(s) /\ HaltedFit(s, halted, events)
  <2>1. /\ calls # <<>> => calls[1].runs = "body"
        /\ \A j \in DOMAIN calls : calls[j].runs # "default"
    BY UserStack DEF Clean
  <2> QED  BY <1>2, <1>3, <2>1, Held, Pushed
<1> QED
  BY <1>3, <1>4, Held, StackKeeps DEF Rest

LEMMA CleanElementKeeps == ASSUME IInv, CleanElement PROVE IInv'
<1>1. PICK x \in Frames, c \in Seq(Frames) :
        /\ x = Top /\ c = Below /\ calls = <<x>> \o c /\ calls[1] = x
        /\ Rest(c) /\ TopFits(x, c)
        /\ HaltedTypes(halted, events) /\ HaltedTop(x, c, halted)
        /\ Under(x, c, halted) /\ HaltedRest(c, halted)
  BY Opened DEF CleanElement, Running
<1>2. PICK d : d = Cleaned(data, x.at)
  OBVIOUS
<1>3. PICK y : y = Cleaning(x.at - 1)
  OBVIOUS
<1>4. PICK s : s = (IF x.at = 1 THEN c ELSE <<y>> \o c)
  OBVIOUS
<1>5. /\ x.runs = "clean" /\ data' = d /\ calls' = s
      /\ UNCHANGED <<triggered, bound, events, times, halted, spent, nested>>
  BY <1>1, <1>2, <1>3, <1>4 DEF CleanElement, Running
<1>6. x.at \in Elements
  BY <1>5, FrameFacts
<1>7. /\ DataInv(d, bound)
      /\ \A f \in Elements : \A h : Bound(Table(d), f, h) => Bound(Table(data), f, h)
  BY <1>2, <1>6, Held, CleanedKeeps
<1>8. Rest(s) /\ HaltedFit(s, halted, events)
  <2>1. HaltedFit(c, halted, events)
    <3>1. HaltedFit(<<x>> \o c, halted, events)
      BY <1>1, Held
    <3>2. c # <<>> => Stands(x, c[1])
      BY <1>1 DEF TopFits, OnTop
    <3> QED  BY <1>5, <3>1, <3>2, HaltedPop
  <2>2. CASE x.at = 1
    BY <1>1, <1>4, <2>1, <2>2
  <2>3. CASE x.at # 1
    <3>1. x.at - 1 \in Elements
      BY <1>6, <2>3, Consts DEF Elements
    <3>2. y \in Frames /\ y.runs = "clean"
      BY <1>3, <3>1, CleaningFacts
    <3>3. c # <<>> => c[1].runs = "body"
      BY <1>1, <1>5 DEF TopFits, OnTop, Stands, Tells
    <3>4. \A j \in DOMAIN c : c[j].runs # "default"
      BY <1>1, <1>5, NoDefault
    <3> QED  BY <1>1, <1>4, <2>1, <2>3, <3>2, <3>3, <3>4, Pushed
  <2> QED  BY <2>2, <2>3
<1>9. bound <= bound
  BY Held
<1> QED
  BY <1>5, <1>7, <1>8, <1>9, Held, DataKeeps

(* An event that nothing has been told of yet.                             *)
NewEvent(x, ne) ==
  /\ bound + events < MaxDeeds /\ Tells(x) /\ x.v = events + 1 /\ ~x.stopped
  /\ x.runs = "native" => calls = <<>>
  /\ events' = events + 1 /\ calls' = <<x>> \o calls /\ nested' = ne
  /\ ~ne => ~nested /\ \A i \in DOMAIN calls :
                         calls[i].runs = "dispatch" => calls[i].type # x.type
  /\ UNCHANGED <<data, triggered, bound, times, halted, spent>>

LEMMA NewEventKeeps ==
  ASSUME IInv, UserCode, NEW x \in Frames, NEW ne \in BOOLEAN, NewEvent(x, ne)
  PROVE  IInv'
<1>0. PICK T, s, ev : T = Table(data) /\ s = <<x>> \o calls /\ ev = events + 1
  OBVIOUS
<1>1. /\ calls # <<>> => calls[1].runs = "body"
      /\ \A j \in DOMAIN calls : calls[j].runs # "default"
  BY UserStack
<1>2. /\ bound \in Nat /\ events \in Nat /\ MaxDeeds \in Nat
      /\ TimesFit(times, bound, events) /\ SpentFit(T, spent, nested, bound)
      /\ HaltedFit(calls, halted, events) /\ calls \in Seq(Frames)
      /\ StackInv(calls, T, triggered, bound, events, times, spent, nested)
  BY <1>0, Held, Consts DEF Rest
<1>3. /\ ev \in 0 .. MaxDeeds /\ ev \in 1 .. MaxDeeds /\ events <= ev /\ ev \in Nat
      /\ ~(ev <= events) /\ bound <= bound
      /\ \A v \in 1 .. MaxDeeds : v <= events => v <= ev
  BY <1>0, <1>2 DEF NewEvent
<1>4. /\ x.v = ev /\ Tells(x) /\ ~x.stopped /\ events' = ev /\ calls' = s /\ nested' = ne
      /\ x.runs # "dispatch" /\ x.runs # "default"
      /\ UNCHANGED <<data, triggered, bound, times, halted, spent>>
  BY <1>0 DEF NewEvent, Tells
<1>5. TimesFit(times, bound, ev)
  BY <1>2, <1>3 DEF TimesFit
<1>6. SpentFit(T, spent, ne, bound)
  BY <1>2 DEF SpentFit, NewEvent
<1>7. StackInv(calls, T, triggered, bound, ev, times, spent, ne)
  <2>1. Defaults(calls, triggered)
    BY <1>2 DEF StackInv
  <2>2. ~ne => ~nested /\ \A i \in DOMAIN calls :
                            calls[i].runs = "dispatch" => Unspent(calls[i], spent)
    BY <1>2 DEF NewEvent, StackInv, OneInv
  <2> QED  BY ONLY <1>2, <1>3, <2>1, <2>2, Shift
<1>8. ~IsRetold(calls)
  <2>1. calls # <<>> => calls[1].runs # "default"
    BY <1>1
  <2> QED  BY <2>1 DEF IsRetold
<1>9. OnTop(x, calls, T, triggered, bound, ev, times, spent, ne)
  <2>1. IF calls = <<>> THEN x.runs \in Bottom ELSE Stands(x, calls[1])
    BY <1>1, <1>4 DEF Bottom, Stands, Tells, NewEvent
  <2>2. ASSUME NEW j \in DOMAIN calls, Tells(calls[j]) PROVE calls[j].v # x.v
    <3>1. ~Retold(calls, j)
      BY <1>1 DEF Retold
    <3>2. TellInv(calls[j], T, times, events)
      BY <1>2, <2>2, <3>1 DEF StackInv, TellsFit
    <3> QED  BY <1>3, <1>4, <3>2 DEF TellInv
  <2>3. TellInv(x, T, times, ev)
    <3>1. \A n \in 1 .. MaxDeeds : times[ev][n] = 0
      BY <1>2, <1>3 DEF TimesFit
    <3>2. \A h \in Handler : h.n \in 1 .. MaxDeeds
      BY HandlerFacts
    <3>3. ev <= ev
      BY <1>3
    <3> QED  BY <1>4, <3>1, <3>2, <3>3 DEF TellInv
  <2> QED  BY <1>1, <1>4, <2>1, <2>2, <2>3 DEF OnTop, NewEvent
<1>10. StackInv(s, T, triggered, bound, ev, times, spent, ne)
  BY <1>0, <1>7, <1>9, Push
<1>11. HaltedFit(s, halted, ev)
  <2>1. HaltedTypes(halted, ev) /\ halted[ev] = Off
    BY <1>2, <1>3 DEF HaltedFit, HaltedTypes
  <2>2. HaltedTop(x, calls, halted)
    BY <1>4, <2>1 DEF HaltedTop
  <2>3. Under(x, calls, halted)
    BY <1>1 DEF Under, Tells
  <2>4. HaltedRest(calls, halted)
    BY <1>2 DEF HaltedFit, HaltedRest
  <2> QED  BY <1>0, <1>2, <2>1, <2>2, <2>3, <2>4, HaltedSplit
<1> QED
  BY <1>0, <1>3, <1>4, <1>5, <1>6, <1>10, <1>11 DEF IInv

LEMMA TriggerKeeps ==
  ASSUME IInv, NEW e \in Elements, NEW t \in Types, NEW spaced \in BOOLEAN,
         Trigger(e, t, spaced)
  PROVE  IInv'
<1>1. PICK x, ne : /\ x = Triggering(events + 1, t, e, spaced)
                   /\ ne = (nested \/ \E i \in DOMAIN calls :
                              calls[i].runs = "dispatch" /\ calls[i].type = t)
  OBVIOUS
<1>2. /\ bound \in Nat /\ events \in Nat /\ MaxDeeds \in Nat /\ nested \in BOOLEAN
      /\ bound + events < MaxDeeds
  BY Held, Consts DEF Trigger, SpentFit
<1>3. events + 1 \in 1 .. MaxDeeds /\ e \in 1 .. Depth + 1
  BY <1>2, Consts DEF Elements
<1>4. /\ x \in Frames /\ x.runs = "trigger" /\ x.v = events + 1 /\ x.type = t
      /\ x.stopped = FALSE
  BY <1>1, <1>3 DEF Triggering, Frames
<1>5. ne \in BOOLEAN
  BY <1>1, <1>2
<1>6. NewEvent(x, ne)
  BY <1>1, <1>2, <1>4 DEF Trigger, NewEvent, Tells
<1> QED
  BY <1>4, <1>5, <1>6, NewEventKeeps DEF Trigger

LEMMA UserEventKeeps ==
  ASSUME IInv, NEW e \in Elements, NEW t \in Types, UserEvent(e, t)
  PROVE  IInv'
<1>1. /\ bound \in Nat /\ events \in Nat /\ MaxDeeds \in Nat /\ nested \in BOOLEAN
      /\ bound + events < MaxDeeds /\ calls = <<>> /\ UserCode
  BY Held, Consts DEF UserEvent, SpentFit, UserCode
<1>2. events + 1 \in 1 .. MaxDeeds /\ e \in 1 .. Depth + 1
  BY <1>1, Consts DEF Elements
<1>3. PICK x : x = (IF t # "focusin" THEN Native(events + 1, t, e)
                    ELSE Triggering(events + 1, t, e, FALSE))
  OBVIOUS
<1>4. /\ x \in Frames /\ Tells(x) /\ x.v = events + 1 /\ x.stopped = FALSE
  BY <1>2, <1>3 DEF Triggering, Native, Frames, Tells
<1>5. CASE t # "focusin" \/ data.attaches > 0
  <2>1. calls' = <<x>>
    BY <1>3, <1>5 DEF UserEvent
  <2>2. <<x>> = <<x>> \o calls
    BY <1>1, <1>4
  <2>3. /\ ~nested => ~nested /\ \A i \in DOMAIN calls :
                                   calls[i].runs = "dispatch" => calls[i].type # x.type
    BY <1>1
  <2>4. NewEvent(x, nested)
    BY <1>1, <1>4, <2>1, <2>2, <2>3 DEF UserEvent, NewEvent
  <2> QED  BY <1>1, <1>4, <2>4, NewEventKeeps
<1>6. CASE ~(t # "focusin" \/ data.attaches > 0)
  <2>1. PICK ev : ev = events + 1
    OBVIOUS
  <2>2. /\ calls' = <<>> /\ events' = ev
        /\ UNCHANGED <<data, triggered, bound, times, halted, spent, nested>>
    BY <1>6, <2>1 DEF UserEvent
  <2>3. /\ ev \in 0 .. MaxDeeds /\ \A v \in 1 .. MaxDeeds : v <= events => v <= ev
    BY <1>1, <2>1
  <2>4. TimesFit(times, bound, ev)
    BY <2>3, Held DEF TimesFit
  <2>5. HaltedFit(calls, halted, ev)
    BY <1>1, <2>3, Held DEF HaltedFit, HaltedTypes
  <2>6. StackInv(calls, Table(data), triggered, bound, ev, times, spent, nested)
    BY <1>1, Held DEF Rest, StackInv, TellsFit, RestsFit
  <2> QED  BY <1>1, <2>2, <2>3, <2>4, <2>5, <2>6, Held DEF IInv
<1> QED
  BY <1>5, <1>6

-----------------------------------------------------------------------------
(* dispatch() and its handlers.                                            *)
LEMMA EndDispatchKeeps == ASSUME IInv, EndDispatch PROVE IInv'
<1>1. PICK x \in Frames, c \in Seq(Frames) :
        /\ x = Top /\ c = Below /\ calls = <<x>> \o c /\ calls[1] = x
        /\ Rest(c) /\ TopFits(x, c)
        /\ HaltedTypes(halted, events) /\ HaltedTop(x, c, halted)
        /\ Under(x, c, halted) /\ HaltedRest(c, halted)
  BY Opened DEF EndDispatch, Running
<1>2. x.runs = "dispatch" /\ x.stopped \in BOOLEAN /\ x.prevented \in BOOLEAN
  <2>1. x.runs = "dispatch"
    BY <1>1 DEF EndDispatch, Running
  <2> QED  BY <2>1, FrameFacts
<1>3. c # <<>> /\ Stands(x, c[1]) /\ Tells(c[1]) /\ ~c[1].stopped
  BY <1>1, <1>2 DEF TopFits, OnTop, Stands, Bottom
<1>4. PICK y \in Frames, d \in Seq(Frames) : y = c[1] /\ d = Tail(c) /\ c = <<y>> \o d
  BY <1>3, PopPlaces
<1>5. calls[2] = y
  <2>1. Placed(calls, x, c)
    BY <1>1, Places
  <2>2. 1 \in DOMAIN c
    BY <1>3, <2>1 DEF Placed
  <2>3. calls[1 + 1] = y
    BY <1>4, <2>1, <2>2 DEF Placed
  <2> QED  BY <2>3
<1>6. PICK z : z = (IF y.runs = "native" THEN [y EXCEPT !.stopped = x.stopped]
                    ELSE [y EXCEPT !.stopped = x.stopped,
                                   !.prevented = @ \/ x.prevented])
  OBVIOUS
<1>7. PICK s : s = <<z>> \o d
  OBVIOUS
<1>8. /\ calls' = s
      /\ UNCHANGED <<data, triggered, bound, events, times, halted, spent, nested>>
  BY <1>1, <1>4, <1>5, <1>6, <1>7 DEF EndDispatch
<1>9. /\ z \in Frames /\ z.runs = y.runs /\ z.v = y.v /\ z.type = y.type /\ z.at = y.at
      /\ z.stopped = x.stopped /\ Tells(y) /\ Tells(z)
  <2>1. CASE y.runs = "native"
    BY <1>2, <1>3, <1>4, <1>6, <2>1 DEF Frames, Tells
  <2>2. CASE y.runs = "trigger"
    <3>1. y.prevented \in BOOLEAN
      BY <2>2 DEF Frames
    <3>2. PICK p \in BOOLEAN : p = (y.prevented \/ x.prevented)
      OBVIOUS
    <3>3. z = [y EXCEPT !.stopped = x.stopped, !.prevented = p]
      BY <1>6, <2>2, <3>2
    <3>4. y \in Frames
      OBVIOUS
    <3> QED  BY ONLY <1>2, <2>2, <3>2, <3>3, <3>4 DEF Frames, Tells
  <2> QED  BY <1>3, <1>4, <2>1, <2>2 DEF Tells
<1>10. Rest(d) /\ TopFits(y, d)
  BY <1>1, <1>4, Pop DEF Rest, TopFits
<1>11. TopFits(z, d)
  <2>1. Tells(y) /\ ~IsRetold(d) => TellInv(z, Table(data), times, events)
    BY <1>9, <1>10 DEF TopFits, OnTop, TellInv
  <2>2. d # <<>> => Stands(z, d[1])
    <3>1. d # <<>> => Stands(y, d[1])
      BY <1>10 DEF TopFits, OnTop
    <3> QED  BY <1>9, <3>1 DEF Stands, Tells
  <2> QED  BY <1>9, <1>10, <2>1, <2>2 DEF TopFits, OnTop, Tells
<1>12. Rest(s)
  BY <1>7, <1>9, <1>10, <1>11, Push DEF Rest, TopFits
<1>13. HaltedFit(s, halted, events)
  <2>1. HaltedTop(z, d, halted)
    <3>1. Placed(c, y, d)
      BY <1>4, Places
    <3>2. Retold(c, 1) <=> IsRetold(d)
      BY <3>1 DEF Placed
    <3>3. ~IsRetold(d) /\ halted[y.v] # Off => x.stopped
      BY <1>1, <1>3, <1>4, <3>2 DEF Under
    <3> QED  BY <1>9, <3>3 DEF HaltedTop
  <2>2. Under(z, d, halted)
    <3>1. d # <<>> => Stands(y, d[1])
      BY <1>10 DEF TopFits, OnTop
    <3>2. d # <<>> => ~Tells(d[1])
      BY <1>9, <3>1 DEF Stands, Tells
    <3> QED  BY <3>2 DEF Under
  <2>3. HaltedRest(d, halted)
    <3>1. HaltedRest(<<y>> \o d, halted)
      BY <1>1, <1>4
    <3> QED  BY <3>1, HaltedBelow
  <2> QED  BY <1>1, <1>7, <1>9, <2>1, <2>2, <2>3, HaltedSplit
<1> QED
  BY <1>8, <1>12, <1>13, Held, StackKeeps DEF Rest

LEMMA ReturnKeeps == ASSUME IInv, NEW how, Return(how) PROVE IInv'
<1>1. PICK x \in Frames, c \in Seq(Frames) :
        /\ x = Top /\ c = Below /\ calls = <<x>> \o c /\ calls[1] = x
        /\ Rest(c) /\ TopFits(x, c)
        /\ HaltedTypes(halted, events) /\ HaltedTop(x, c, halted)
        /\ Under(x, c, halted) /\ HaltedRest(c, halted)
  BY Opened DEF Return, Running
<1>2. x.runs = "body" /\ x.h \in Handler
  <2>1. x.runs = "body"
    BY <1>1 DEF Return, Running
  <2> QED  BY <2>1, FrameFacts
<1>3. /\ c # <<>> /\ c[1].runs = "dispatch" /\ x.h.sel = c[1].group
  BY <1>1, <1>2 DEF TopFits, OnTop, Stands, Bottom, Tells
<1>4. PICK y \in Frames, d \in Seq(Frames) : y = c[1] /\ d = Tail(c) /\ c = <<y>> \o d
  BY <1>3, PopPlaces
<1>5. calls[2] = y
  <2>1. Placed(calls, x, c)
    BY <1>1, Places
  <2>2. 1 \in DOMAIN c
    BY <1>3, <2>1 DEF Placed
  <2>3. calls[1 + 1] = y
    BY <1>4, <2>1, <2>2 DEF Placed
  <2> QED  BY <2>3
<1>6. PICK stops, now, pre \in BOOLEAN :
        /\ stops = (how \in {"stop", "stop at once", "false"})
        /\ now = (how = "stop at once")
        /\ pre = (how \in {"prevent", "false"})
  <2>1. /\ (how \in {"stop", "stop at once", "false"}) \in BOOLEAN
        /\ (how = "stop at once") \in BOOLEAN
        /\ (how \in {"prevent", "false"}) \in BOOLEAN
    OBVIOUS
  <2> QED  BY <2>1, Zenon
<1>7. stops \in BOOLEAN /\ now \in BOOLEAN /\ pre \in BOOLEAN /\ (now => stops)
  <2>1. stops \in BOOLEAN /\ now \in BOOLEAN /\ pre \in BOOLEAN
    OBVIOUS
  <2>2. now => stops
    BY <1>6, Zenon
  <2> QED  BY <2>1, <2>2
<1>8. PICK z : z = [y EXCEPT !.stopped = @ \/ stops, !.immediate = @ \/ now,
                             !.prevented = @ \/ pre]
  OBVIOUS
<1>9. PICK s, ha : /\ s = <<z>> \o d
                   /\ ha = (IF stops THEN [halted EXCEPT ![y.v] = <<y.at, x.h.sel>>]
                                     ELSE halted)
  OBVIOUS
<1>10. /\ calls' = s
       /\ UNCHANGED <<data, triggered, bound, events, times, spent, nested>>
  BY <1>1, <1>4, <1>5, <1>6, <1>8, <1>9 DEF Return
<1>11. halted' = ha
  <2>1. calls[1 + 1] = y
    BY <1>5
  <2> QED  BY <1>1, <1>5, <1>6, <1>9, <2>1 DEF Return, Place
<1>12. /\ y.v \in 1 .. MaxDeeds /\ y.at \in Elements /\ y.stopped \in BOOLEAN
       /\ y.immediate \in BOOLEAN /\ y.prevented \in BOOLEAN
  BY <1>3, <1>4, FrameFacts
<1>13. /\ z \in Frames /\ z.runs = "dispatch" /\ z.v = y.v /\ z.type = y.type
       /\ z.at = y.at /\ z.rest = y.rest /\ z.had = y.had /\ z.since = y.since
       /\ z.group = y.group /\ z.spaced = y.spaced
       /\ z.stopped = (y.stopped \/ stops) /\ z.immediate = (y.immediate \/ now)
  <2>1. PICK p, q, r \in BOOLEAN : /\ p = (y.stopped \/ stops)
                                  /\ q = (y.immediate \/ now)
                                  /\ r = (y.prevented \/ pre)
    BY <1>7, <1>12, Zenon
  <2>2. z = [y EXCEPT !.stopped = p, !.immediate = q, !.prevented = r]
    BY <1>8, <2>1, Zenon
  <2>3. y.runs = "dispatch"
    BY <1>3, <1>4
  <2>4. /\ y \in Frames /\ p \in BOOLEAN /\ q \in BOOLEAN /\ r \in BOOLEAN
    BY <2>1
  <2>5. /\ z \in Frames /\ z.runs = "dispatch" /\ z.stopped = p /\ z.immediate = q
    <3> DEFINE D == [runs : {"dispatch"}, v : 1 .. MaxDeeds, type : Types,
                     target : Elements, at : Elements, rest : Seq(Handler),
                     group : BOOLEAN \cup {Off}, spaced : BOOLEAN,
                     stopped : BOOLEAN, immediate : BOOLEAN,
                     prevented : BOOLEAN, had : SUBSET (1 .. MaxDeeds),
                     since : 0 .. MaxDeeds]
    <3>1. y \in D
      BY ONLY <2>3, <2>4 DEF Frames
    <3>2. z \in D /\ z.runs = "dispatch" /\ z.stopped = p /\ z.immediate = q
      BY ONLY <2>2, <2>3, <2>4, <3>1
    <3> QED  BY ONLY <3>2 DEF Frames
  <2>6. /\ z.v = y.v /\ z.type = y.type /\ z.at = y.at /\ z.rest = y.rest
        /\ z.had = y.had /\ z.since = y.since /\ z.group = y.group /\ z.spaced = y.spaced
    BY ONLY <2>2, <2>3, <2>4 DEF Frames
  <2> QED  BY <2>1, <2>5, <2>6
<1>14. Rest(d) /\ TopFits(y, d)
  BY <1>1, <1>4, Pop DEF Rest, TopFits
<1>15. TopFits(z, d)
  <2>1. DispatchInv(y, Table(data), times, bound)
    BY <1>3, <1>4, <1>14 DEF TopFits, OnTop
  <2>2. DispatchInv(z, Table(data), times, bound)
    BY <1>7, <1>12, <1>13, <2>1 DEF DispatchInv
  <2>3. d # <<>> /\ Stands(y, d[1])
    BY <1>3, <1>4, <1>14 DEF TopFits, OnTop, Bottom
  <2>4. Stands(z, d[1])
    BY <1>3, <1>4, <1>13, <2>3 DEF Stands, Tells
  <2>5. ASSUME NEW j \in DOMAIN d, d[j].runs = "dispatch" PROVE Agree(z, d[j])
    <3>1. Agree(y, d[j])
      BY <1>3, <1>4, <1>14, <2>5 DEF TopFits, OnTop
    <3> QED  BY <1>13, <3>1 DEF Agree
  <2>6. ~nested => Unspent(z, spent)
    BY <1>3, <1>4, <1>13, <1>14 DEF TopFits, OnTop, Unspent
  <2>7. ~Tells(z)
    BY <1>13 DEF Tells
  <2> QED  BY <1>3, <1>4, <1>13, <1>14, <2>2, <2>3, <2>4, <2>5, <2>6, <2>7 DEF TopFits, OnTop
<1>16. Rest(s)
  BY <1>9, <1>13, <1>14, <1>15, Push DEF Rest, TopFits
<1>17. /\ d # <<>> /\ Tells(d[1]) /\ d[1].v = y.v /\ ~IsRetold(d)
       /\ \A j \in DOMAIN d : j # 1 /\ Tells(d[j]) => d[j].v # y.v
       /\ y.v <= events /\ 1 \in DOMAIN d
  <2>1. d # <<>> /\ Tells(d[1]) /\ d[1].v = y.v
    BY <1>3, <1>4, <1>14 DEF TopFits, OnTop, Stands, Bottom, Tells
  <2>2. 1 \in DOMAIN d /\ Len(d) \in Nat /\ DOMAIN d = 1 .. Len(d)
    <3>1. Len(d) # 0 /\ Len(d) \in Nat /\ DOMAIN d = 1 .. Len(d)
      BY <2>1, EmptySeq
    <3> QED  BY <3>1
  <2>3. \A j \in DOMAIN d : j # 1 /\ Tells(d[j]) => d[j].v # y.v
    BY <1>14, <2>1, <2>2 DEF Rest, StackInv, Stacked
  <2>4. \A j \in DOMAIN d : d[j].runs = "default" => j = 1
    BY <1>14 DEF TopFits, OnTop
  <2>5. ~Retold(d, 1) /\ ~IsRetold(d)
    <3>1. ~Retold(d, 1)
      BY <2>2, <2>4 DEF Retold
    <3>2. d[1].runs # "default"
      BY <2>1 DEF Tells
    <3> QED  BY <3>1, <3>2 DEF IsRetold
  <2>6. TellInv(d[1], Table(data), times, events)
    BY <1>14, <2>1, <2>2, <2>5 DEF Rest, StackInv, TellsFit
  <2> QED  BY <2>1, <2>2, <2>3, <2>5, <2>6 DEF TellInv
<1>18. HaltedFit(s, ha, events)
  <2>1. HaltedTypes(ha, events)
    <3>1. CASE stops
      <4>1. <<y.at, x.h.sel>> \in (Elements \X BOOLEAN) \cup {Off}
        BY <1>2, <1>12, HandlerFacts
      <4> QED  BY <1>1, <1>9, <1>12, <1>17, <3>1, <4>1 DEF HaltedTypes
    <3>2. CASE ~stops
      BY <1>1, <1>9, <3>2
    <3> QED  BY <3>1, <3>2
  <2>2. Under(y, d, halted) /\ HaltedRest(d, halted)
    <3>1. HaltedRest(<<y>> \o d, halted)
      BY <1>1, <1>4
    <3> QED  BY <3>1, HaltedBelow
  <2>3. HaltedTop(z, d, ha)
    BY <1>13 DEF HaltedTop, Tells
  <2>4. Under(z, d, ha)
    <3>1. CASE stops
      <4>1. ha[y.v] = <<y.at, x.h.sel>>
        BY <1>1, <1>9, <1>12, <3>1 DEF HaltedTypes
      <4>2. z.stopped /\ ha[d[1].v] = <<z.at, z.group>>
        BY <1>3, <1>4, <1>13, <1>17, <3>1, <4>1
      <4> QED  BY <4>2 DEF Under
    <3>2. CASE ~stops
      <4>1. z.stopped = y.stopped /\ ha = halted
        BY <1>9, <1>12, <1>13, <3>2
      <4> QED  BY <1>13, <2>2, <4>1 DEF Under
    <3> QED  BY <3>1, <3>2
  <2>5. HaltedRest(d, ha)
    <3> SUFFICES ASSUME NEW j \in DOMAIN d, j > 1 PROVE HaltedAt(d, j, ha)
      BY DEF HaltedRest
    <3>1. HaltedAt(d, j, halted)
      BY <2>2 DEF HaltedRest
    <3>2. Tells(d[j]) => d[j].v # y.v
      BY <1>17
    <3>3. Tells(d[j]) => d[j].v \in 1 .. MaxDeeds
      <4>1. d[j] \in Frames
        BY ElementOfSeq
      <4> QED  BY <4>1, FrameFacts
    <3>4. Tells(d[j]) => ha[d[j].v] = halted[d[j].v]
      BY <1>1, <1>9, <1>12, <3>2, <3>3 DEF HaltedTypes
    <3> QED  BY <3>1, <3>4 DEF HaltedAt
  <2> QED  BY <1>9, <1>13, <2>1, <2>3, <2>4, <2>5, HaltedSplit
<1> QED
  BY <1>10, <1>11, <1>16, <1>18, Held, StackKeeps DEF Rest

(* The next handler is taken from what dispatch() holds.                   *)
Advanced(x, n, h) ==
  h = Head(x.rest) /\ n = [x EXCEPT !.rest = Tail(@), !.group = h.sel]
Follows(n, x, h) ==
  /\ 1 \in DOMAIN x.rest /\ h = x.rest[1] /\ h \in Handler
  /\ \A k \in DOMAIN n.rest : k \in Nat /\ k + 1 # 1 /\ k + 1 \in DOMAIN x.rest
                              /\ n.rest[k] = x.rest[k + 1] /\ n.rest[k] \in Handler
  /\ \A k \in DOMAIN x.rest : k = 1 \/ \E j \in DOMAIN n.rest : k = j + 1
  /\ n.runs = "dispatch" /\ n.v = x.v /\ n.type = x.type /\ n.at = x.at
  /\ n.had = x.had /\ n.since = x.since /\ n.group = h.sel /\ n.spaced = x.spaced
  /\ n.stopped = x.stopped /\ n.immediate = x.immediate

LEMMA AdvancedFacts ==
  ASSUME NEW x \in Frames, x.runs = "dispatch", x.rest # <<>>, NEW n, NEW h,
         Advanced(x, n, h)
  PROVE  n \in Frames /\ Follows(n, x, h)
<1>1. PICK r, q : r = x.rest /\ q = Tail(r)
  OBVIOUS
<1>2. r \in Seq(Handler) /\ r # <<>>
  BY <1>1, FrameFacts
<1>3. /\ q \in Seq(Handler) /\ Len(q) = Len(r) - 1 /\ Len(r) \in Nat /\ Len(r) # 0
      /\ \A k \in 1 .. Len(q) : q[k] = r[k + 1]
  BY <1>1, <1>2
<1>4. Len(q) \in Nat /\ DOMAIN q = 1 .. Len(q) /\ DOMAIN r = 1 .. Len(r)
  BY <1>2, <1>3
<1>5. 1 \in DOMAIN r /\ h = r[1] /\ h \in Handler
  <2>1. 1 \in DOMAIN r
    BY <1>3, <1>4
  <2>2. h = r[1]
    BY <1>1, <1>2 DEF Advanced
  <2> QED  BY <1>2, <2>1, <2>2, ElementOfSeq
<1>6. \A k \in DOMAIN q : k \in Nat /\ k + 1 # 1 /\ k + 1 \in DOMAIN r
  BY <1>3, <1>4
<1>7. \A k \in DOMAIN q : q[k] = r[k + 1] /\ q[k] \in Handler
  BY <1>3, <1>4, ElementOfSeq
<1>8. \A k \in DOMAIN r : k = 1 \/ \E j \in DOMAIN q : k = j + 1
  <2> SUFFICES ASSUME NEW k \in DOMAIN r, k # 1 PROVE \E j \in DOMAIN q : k = j + 1
    OBVIOUS
  <2>1. k - 1 \in DOMAIN q /\ k = (k - 1) + 1
    BY <1>3, <1>4
  <2> QED  BY <2>1
<1>9. n = [x EXCEPT !.rest = q, !.group = h.sel] /\ h.sel \in BOOLEAN
  BY <1>1, <1>5, HandlerFacts DEF Advanced
<1>10. /\ n \in Frames /\ n.rest = q /\ n.runs = "dispatch" /\ n.v = x.v
       /\ n.type = x.type /\ n.at = x.at /\ n.had = x.had /\ n.since = x.since
       /\ n.group = h.sel /\ n.spaced = x.spaced
       /\ n.stopped = x.stopped /\ n.immediate = x.immediate
  BY <1>3, <1>9 DEF Frames
<1>11. Follows(n, x, h)
  BY <1>1, <1>5, <1>6, <1>7, <1>8, <1>10 DEF Follows
<1> QED
  BY <1>10, <1>11

(* What is left of the bound, and what is noted of the event.              *)
Fewer(T2, T) == \A e \in Elements, g \in Handler : Bound(T2, e, g) => Bound(T, e, g)
NotedFor(x, h, tm2, tm) ==
  /\ \A m \in 1 .. MaxDeeds : m # h.n => tm2[x.v][m] = tm[x.v][m]
  /\ x.spaced \/ tm2[x.v][h.n] = 1
StillHeld(n, x, h) ==
  /\ \A k \in DOMAIN n.rest : n.rest[k].n # h.n
  /\ \A y : Agree(x, y) => Agree(n, y)
  /\ \A sp : Unspent(x, sp) => Unspent(n, sp)

LEMMA AdvancedInv ==
  ASSUME NEW x \in Frames, x.runs = "dispatch", NEW n, NEW h, Follows(n, x, h),
         NEW T, NEW tm, NEW b, DispatchInv(x, T, tm, b),
         NEW T2, Fewer(T2, T), NEW tm2, NotedFor(x, h, tm2, tm)
  PROVE  DispatchInv(n, T2, tm2, b) /\ StillHeld(n, x, h)
<1>0. /\ \A e \in Elements, g \in Handler : Bound(T2, e, g) => Bound(T, e, g)
      /\ \A m \in 1 .. MaxDeeds : m # h.n => tm2[x.v][m] = tm[x.v][m]
      /\ x.spaced \/ tm2[x.v][h.n] = 1
  BY DEF Fewer, NotedFor
<1>1. ASSUME NEW k \in DOMAIN n.rest
      PROVE  /\ n.rest[k].n # h.n /\ n.rest[k].n \in 1 .. MaxDeeds
             /\ n.rest[k].type = n.type /\ n.rest[k].n <= n.since
             /\ tm2[n.v][n.rest[k].n] = 0
  <2>1. /\ k + 1 # 1 /\ k + 1 \in DOMAIN x.rest /\ n.rest[k] = x.rest[k + 1]
        /\ 1 \in DOMAIN x.rest /\ h = x.rest[1] /\ n.rest[k] \in Handler
    BY DEF Follows
  <2>2. n.rest[k].n # h.n
    BY <2>1 DEF DispatchInv
  <2>3. n.rest[k].n \in 1 .. MaxDeeds
    BY <2>1, HandlerFacts
  <2>4. n.rest[k].type = x.type /\ n.rest[k].n <= x.since /\ tm[x.v][n.rest[k].n] = 0
    BY <2>1 DEF DispatchInv
  <2> QED  BY <1>0, <2>2, <2>3, <2>4 DEF Follows
<1>2. ASSUME NEW j \in DOMAIN n.rest, NEW k \in DOMAIN n.rest, n.rest[j].n = n.rest[k].n
      PROVE  j = k
  <2>1. /\ j \in Nat /\ j + 1 \in DOMAIN x.rest /\ n.rest[j] = x.rest[j + 1]
        /\ k \in Nat /\ k + 1 \in DOMAIN x.rest /\ n.rest[k] = x.rest[k + 1]
    BY DEF Follows
  <2>2. j + 1 = k + 1
    BY <1>2, <2>1 DEF DispatchInv
  <2> QED  BY <2>1, <2>2
<1>3. ASSUME NEW e \in Elements, NEW g \in Handler, NEW k \in DOMAIN n.rest,
             Bound(T2, e, g), g.n = n.rest[k].n
      PROVE  e = n.at /\ g = n.rest[k]
  <2>1. k + 1 \in DOMAIN x.rest /\ n.rest[k] = x.rest[k + 1] /\ n.at = x.at
    BY DEF Follows
  <2>2. Bound(T, e, g) /\ g.n = x.rest[k + 1].n
    BY <1>0, <1>3, <2>1
  <2> QED  BY <2>1, <2>2 DEF DispatchInv
<1>4. h.n \in 1 .. MaxDeeds /\ h.n <= x.since /\ h.n \in Nat
  <2>1. h \in Handler /\ h.n <= x.since
    BY DEF Follows, DispatchInv
  <2> QED  BY <2>1, HandlerFacts
<1>5. ASSUME ~n.stopped, ~n.spaced, NEW m \in n.had
      PROVE  tm2[n.v][m] = 1 \/ \E k \in DOMAIN n.rest : n.rest[k].n = m
  <2>1. ~x.stopped /\ ~x.spaced /\ m \in x.had /\ n.v = x.v
    BY <1>5 DEF Follows
  <2>2. m \in 1 .. MaxDeeds
    BY <2>1, FrameFacts
  <2>3. tm[x.v][m] = 1 \/ \E k \in DOMAIN x.rest : x.rest[k].n = m
    BY <2>1 DEF DispatchInv
  <2>4. CASE m = h.n
    BY <1>0, <2>1, <2>4
  <2>5. CASE m # h.n /\ tm[x.v][m] = 1
    BY <1>0, <2>1, <2>2, <2>5
  <2>6. ASSUME m # h.n, NEW k \in DOMAIN x.rest, x.rest[k].n = m
        PROVE  \E j \in DOMAIN n.rest : n.rest[j].n = m
    <3>1. k # 1
      BY <2>6 DEF Follows
    <3>2. PICK j \in DOMAIN n.rest : k = j + 1
      BY <3>1 DEF Follows
    <3>3. n.rest[j] = x.rest[j + 1]
      BY DEF Follows
    <3> QED  BY <2>6, <3>2, <3>3
  <2> QED  BY <2>3, <2>4, <2>5, <2>6
<1>6. ASSUME NEW m \in 1 .. MaxDeeds, m > n.since PROVE tm2[n.v][m] = 0
  <2>1. n.since = x.since /\ n.v = x.v /\ x.since \in 0 .. MaxDeeds
    BY FrameFacts DEF Follows
  <2>2. x.since \in Nat /\ m \in Nat
    BY <2>1, Consts
  <2>3. m # h.n
    BY <1>4, <1>6, <2>1, <2>2
  <2> QED  BY <1>0, <1>6, <2>1, <2>3 DEF DispatchInv
<1>7. n.since <= b /\ (n.immediate => n.stopped)
  BY DEF DispatchInv, Follows
<1>8. DispatchInv(n, T2, tm2, b)
  BY <1>1, <1>2, <1>3, <1>5, <1>6, <1>7 DEF DispatchInv
<1>9. ASSUME NEW y, Agree(x, y) PROVE Agree(n, y)
  <2> SUFFICES ASSUME NEW k \in DOMAIN n.rest, NEW l \in DOMAIN y.rest,
                      n.rest[k].n = y.rest[l].n
               PROVE  n.rest[k] = y.rest[l]
    BY DEF Agree
  <2>1. k + 1 \in DOMAIN x.rest /\ n.rest[k] = x.rest[k + 1]
    BY DEF Follows
  <2> QED  BY <1>9, <2>1 DEF Agree
<1>10. ASSUME NEW sp, Unspent(x, sp) PROVE Unspent(n, sp)
  <2> SUFFICES ASSUME NEW k \in DOMAIN n.rest PROVE sp[n.rest[k].n] = 0
    BY DEF Unspent
  <2>1. k + 1 \in DOMAIN x.rest /\ n.rest[k] = x.rest[k + 1]
    BY DEF Follows
  <2> QED  BY <1>10, <2>1 DEF Unspent
<1> QED
  BY <1>1, <1>8, <1>9, <1>10 DEF StillHeld

(* What a call of a handler does to what was noted of the events.          *)
CallNoted(x, h, T2, tm2, sp2) ==
  /\ \A e \in Elements, g \in Handler : Bound(T2, e, g) => Bound(Table(data), e, g)
  /\ tm2 = [times EXCEPT ![x.v][h.n] = @ + 1]
  /\ \A m \in 1 .. MaxDeeds : m # h.n => sp2[m] = spent[m]

LEMMA HeldUnder ==
  ASSUME IInv, NEW x \in Frames, NEW c \in Seq(Frames), Rest(c), TopFits(x, c),
         x.runs = "dispatch",
         NEW y \in Frames, NEW d \in Seq(Frames), c = <<y>> \o d, y = c[1]
  PROVE  /\ Tells(y) /\ y.v = x.v /\ y.type = x.type /\ y.at = x.at + 1 /\ ~y.stopped
         /\ Rest(d) /\ TopFits(y, d) /\ ~IsRetold(d) /\ Placed(c, y, d)
         /\ \A j \in DOMAIN c : c[j].runs # "default"
         /\ TellInv(y, Table(data), times, events)
         /\ DispatchInv(x, Table(data), times, bound)
<1>1. Placed(c, y, d)
  <2>1. Placed(<<y>> \o d, y, d)
    BY Places
  <2> QED  BY <2>1
<1>2. c # <<>> /\ Stands(x, c[1])
  BY <1>1 DEF Placed, TopFits, OnTop
<1>3. Tells(y) /\ y.v = x.v /\ y.type = x.type /\ y.at = x.at + 1 /\ ~y.stopped
  BY <1>2 DEF Stands
<1>4. Rest(d) /\ TopFits(y, d)
  BY Pop DEF Rest, TopFits
<1>5. \A j \in DOMAIN c : c[j].runs # "default"
  <2> SUFFICES ASSUME NEW j \in DOMAIN c, c[j].runs = "default" PROVE FALSE
    OBVIOUS
  <2>1. j = 1
    BY DEF TopFits, OnTop
  <2> QED  BY <1>3, <2>1 DEF Tells
<1>6. ~IsRetold(d)
  <2> SUFFICES ASSUME IsRetold(d) PROVE FALSE
    OBVIOUS
  <2>1. 1 \in DOMAIN d /\ d[1].runs = "default"
    BY <1>1, Len(d) # 0, EmptySeq DEF IsRetold, Placed
  <2>2. 1 + 1 \in DOMAIN c /\ c[1 + 1] = d[1]
    BY <1>1, <2>1 DEF Placed
  <2> QED  BY <1>5, <2>1, <2>2
<1>7. TellInv(y, Table(data), times, events) /\ DispatchInv(x, Table(data), times, bound)
  BY <1>3, <1>4, <1>6 DEF TopFits, OnTop
<1> QED
  BY <1>1, <1>3, <1>4, <1>5, <1>6, <1>7

LEMMA NotedTimes ==
  ASSUME IInv, NEW x \in Frames, x.runs = "dispatch", NEW h \in Handler,
         times[x.v][h.n] = 0, h.n <= bound, x.v <= events,
         NEW T2, NEW tm2, NEW sp2, CallNoted(x, h, T2, tm2, sp2)
  PROVE  /\ TimesFit(tm2, bound, events) /\ tm2[x.v][h.n] = 1
         /\ \A m \in 1 .. MaxDeeds : m # h.n => tm2[x.v][m] = times[x.v][m]
         /\ \A v \in 1 .. MaxDeeds : v # x.v => tm2[v] = times[v]
<1>1. x.v \in 1 .. MaxDeeds /\ h.n \in 1 .. MaxDeeds
  BY FrameFacts, HandlerFacts
<1>2. /\ times \in [1 .. MaxDeeds -> [1 .. MaxDeeds -> 0 .. 1]]
      /\ \A v, n \in 1 .. MaxDeeds : times[v][n] # 0 => v <= events /\ n <= bound
  BY Held DEF TimesFit
<1>3. PICK r : r = [times[x.v] EXCEPT ![h.n] = 1]
  OBVIOUS
<1>4. tm2 = [times EXCEPT ![x.v] = r]
  <2>1. tm2 = [times EXCEPT ![x.v] = [times[x.v] EXCEPT ![h.n] = times[x.v][h.n] + 1]]
    BY DEF CallNoted
  <2>2. times[x.v][h.n] + 1 = 1
    OBVIOUS
  <2> QED  BY <1>3, <2>1, <2>2
<1>5. /\ r \in [1 .. MaxDeeds -> 0 .. 1] /\ r[h.n] = 1
      /\ \A m \in 1 .. MaxDeeds : m # h.n => r[m] = times[x.v][m]
  <2>1. times[x.v] \in [1 .. MaxDeeds -> 0 .. 1] /\ 1 \in 0 .. 1
    BY <1>1, <1>2
  <2> QED  BY <1>1, <1>3, <2>1
<1>6. /\ tm2 \in [1 .. MaxDeeds -> [1 .. MaxDeeds -> 0 .. 1]] /\ tm2[x.v] = r
      /\ \A v \in 1 .. MaxDeeds : v # x.v => tm2[v] = times[v]
  BY <1>1, <1>2, <1>4, <1>5
<1>7. \A v, n \in 1 .. MaxDeeds : tm2[v][n] # 0 => v <= events /\ n <= bound
  <2> SUFFICES ASSUME NEW v \in 1 .. MaxDeeds, NEW n \in 1 .. MaxDeeds, tm2[v][n] # 0
               PROVE  v <= events /\ n <= bound
    OBVIOUS
  <2>1. CASE v # x.v
    BY <1>2, <1>6, <2>1
  <2>2. CASE v = x.v /\ n # h.n
    BY <1>2, <1>5, <1>6, <2>2
  <2>3. CASE v = x.v /\ n = h.n
    BY <2>3
  <2> QED  BY <2>1, <2>2, <2>3
<1> QED
  BY <1>5, <1>6, <1>7 DEF TimesFit

LEMMA CalledStack ==
  ASSUME IInv, NEW x \in Frames, NEW c \in Seq(Frames), Rest(c), TopFits(x, c),
         HaltedTypes(halted, events), Under(x, c, halted), HaltedRest(c, halted),
         x.runs = "dispatch", x.rest # <<>>, NEW n, NEW h, Advanced(x, n, h),
         x.stopped => h.sel = x.group,
         NEW T2, NEW tm2, NEW sp2, CallNoted(x, h, T2, tm2, sp2)
  PROVE  /\ StackInv(<<Body(h), n>> \o c, T2, triggered, bound, events, tm2, sp2, nested)
         /\ HaltedFit(<<Body(h), n>> \o c, halted, events)
         /\ TimesFit(tm2, bound, events)
         /\ h \in Handler /\ x.at \in Elements /\ h.n <= bound
         /\ \A e \in Elements, g \in Handler :
              Bound(Table(data), e, g) /\ g.n = h.n => e = x.at /\ g = h
         /\ ~nested => spent[h.n] = 0
<1>0. PICK T : T = Table(data)
  OBVIOUS
<1>1. n \in Frames /\ Follows(n, x, h)
  BY AdvancedFacts
<1>2. /\ h \in Handler /\ 1 \in DOMAIN x.rest /\ h = x.rest[1] /\ n.group = h.sel
      /\ n.runs = "dispatch" /\ n.v = x.v /\ n.type = x.type /\ n.at = x.at
      /\ n.stopped = x.stopped
  BY <1>1 DEF Follows
<1>3. c # <<>>
  BY DEF TopFits, OnTop, Bottom
<1>4. PICK y \in Frames, d \in Seq(Frames) : y = c[1] /\ d = Tail(c) /\ c = <<y>> \o d
  <2>1. Head(c) \in Frames /\ Tail(c) \in Seq(Frames) /\ c = <<Head(c)>> \o Tail(c)
        /\ c[1] = Head(c)
    BY <1>3, PopPlaces
  <2> QED  BY <2>1
<1>5. /\ Tells(y) /\ y.v = x.v /\ y.type = x.type /\ y.at = x.at + 1 /\ ~y.stopped
      /\ Rest(d) /\ TopFits(y, d) /\ ~IsRetold(d) /\ Placed(c, y, d)
      /\ \A j \in DOMAIN c : c[j].runs # "default"
      /\ TellInv(y, T, times, events) /\ DispatchInv(x, T, times, bound)
  <2>1. c = <<y>> \o d /\ y = c[1]
    BY <1>4
  <2>2. /\ Tells(y) /\ y.v = x.v /\ y.type = x.type /\ y.at = x.at + 1 /\ ~y.stopped
        /\ Rest(d) /\ TopFits(y, d) /\ ~IsRetold(d) /\ Placed(c, y, d)
        /\ \A j \in DOMAIN c : c[j].runs # "default"
        /\ TellInv(y, Table(data), times, events)
        /\ DispatchInv(x, Table(data), times, bound)
    BY <2>1, HeldUnder
  <2> QED  BY <1>0, <2>2
<1>6. /\ x.v \in 1 .. MaxDeeds /\ x.at \in Elements /\ x.type \in Types
      /\ h.n \in 1 .. MaxDeeds /\ bound \in Nat /\ events \in Nat
  BY <1>2, FrameFacts, HandlerFacts, Held
<1>7. /\ h.type = x.type /\ h.n <= x.since /\ times[x.v][h.n] = 0 /\ x.v <= events
      /\ x.since <= bound
      /\ \A e \in Elements, g \in Handler : Bound(T, e, g) /\ g.n = h.n => e = x.at /\ g = h
  BY <1>2, <1>5 DEF DispatchInv, TellInv
<1>8. h.n <= bound
  <2>1. x.since \in Nat /\ h.n \in Nat
    BY <1>2, FrameFacts, HandlerFacts, Consts
  <2> QED  BY <1>6, <1>7, <2>1
<1>9. /\ TimesFit(tm2, bound, events) /\ tm2[x.v][h.n] = 1
      /\ \A m \in 1 .. MaxDeeds : m # h.n => tm2[x.v][m] = times[x.v][m]
      /\ \A v \in 1 .. MaxDeeds : v # x.v => tm2[v] = times[v]
  BY <1>2, <1>7, <1>8, NotedTimes
<1>10. /\ \A e \in Elements, g \in Handler : Bound(T2, e, g) => Bound(T, e, g)
       /\ \A m \in 1 .. MaxDeeds : m # h.n => sp2[m] = spent[m]
  BY <1>0 DEF CallNoted
<1>11. \A j \in DOMAIN d : d[j] \in Frames
  BY ElementOfSeq
<1>12. \A j \in DOMAIN d : d[j].runs = "dispatch" => j + 1 \in DOMAIN d
  <2> SUFFICES ASSUME NEW j \in DOMAIN d, d[j].runs = "dispatch" PROVE j + 1 \in DOMAIN d
    OBVIOUS
  <2>1. DOMAIN d = 1 .. Len(d) /\ Len(d) \in Nat
    BY <1>5 DEF Placed
  <2>2. d # <<>> /\ d[Len(d)].runs # "dispatch"
    <3>1. d # <<>>
      BY <1>4, Len(d) # 0, EmptySeq, <2>1
    <3> QED  BY <1>5, <3>1 DEF Rest, StackInv, Stacked
  <2>3. j # Len(d)
    BY <2>2
  <2> QED  BY <2>1, <2>3
<1>13. ASSUME NEW j \in DOMAIN d, Tells(d[j]) PROVE d[j].v # x.v /\ d[j].v \in 1 .. MaxDeeds
  BY <1>5, <1>11, <1>13, FrameFacts DEF TopFits, OnTop
<1>14. ASSUME NEW j \in DOMAIN d, d[j].runs = "dispatch"
       PROVE  d[j].v # x.v /\ d[j].v \in 1 .. MaxDeeds
  <2>1. j + 1 \in DOMAIN d
    BY <1>12, <1>14
  <2>2. Stands(d[j], d[j + 1])
    BY <1>5, <2>1 DEF Rest, StackInv, Stacked
  <2>3. Tells(d[j + 1]) /\ d[j + 1].v = d[j].v
    BY <1>14, <2>2 DEF Stands
  <2> QED  BY <1>13, <2>1, <2>3
<1>15. ASSUME ~nested, NEW j \in DOMAIN d, d[j].runs = "dispatch"
       PROVE  Unspent(d[j], sp2)
  <2>1. j + 1 \in DOMAIN c /\ c[j + 1] = d[j]
    BY <1>5 DEF Placed
  <2>2. Agree(x, d[j])
    <3>1. c[j + 1].runs = "dispatch"
      BY <1>15, <2>1
    <3>2. Agree(x, c[j + 1])
      BY <2>1, <3>1 DEF TopFits, OnTop
    <3> QED  BY <2>1, <3>2
  <2>3. d[j].type # x.type
    BY <1>5, <1>15 DEF TopFits, OnTop
  <2>4. Unspent(d[j], spent) /\ DispatchInv(d[j], T, times, bound)
    BY <1>0, <1>5, <1>15 DEF Rest, StackInv, OneInv, RestsFit
  <2>5. ASSUME NEW k \in DOMAIN d[j].rest
        PROVE  d[j].rest[k].n # h.n /\ d[j].rest[k].n \in 1 .. MaxDeeds
    <3>1. d[j].rest[k].type = d[j].type
      BY <2>4 DEF DispatchInv
    <3>2. d[j].rest[k].n = h.n => d[j].rest[k] = h
      BY <1>2, <2>2 DEF Agree
    <3>3. d[j].rest[k] \in Handler
      BY <1>11, <1>15, FrameFacts, ElementOfSeq
    <3> QED  BY <1>7, <2>3, <3>1, <3>2, <3>3, HandlerFacts
  <2> QED  BY <1>10, <2>4, <2>5 DEF Unspent
<1>16. StackInv(d, T2, triggered, bound, events, tm2, sp2, nested)
  <2>1. StackInv(d, T, triggered, bound, events, times, spent, nested)
        /\ TimesFit(times, bound, events)
    BY <1>0, <1>5, Held DEF Rest
  <2>2. Defaults(d, triggered)
    BY <2>1 DEF StackInv
  <2>3. bound <= bound /\ events <= events
    BY <1>6
  <2>4. \A e \in Elements, g \in Handler : Bound(T2, e, g) => Bound(T, e, g) \/ g.n > bound
    BY <1>10
  <2>5. \A i \in DOMAIN d : Tells(d[i]) \/ d[i].runs = "dispatch" =>
          tm2[d[i].v] = times[d[i].v]
    BY <1>9, <1>13, <1>14
  <2>6. ~nested => ~nested /\ \A i \in DOMAIN d : d[i].runs = "dispatch" => Unspent(d[i], sp2)
    BY <1>15
  <2> QED  BY ONLY <1>6, <2>1, <2>2, <2>3, <2>4, <2>5, <2>6, Shift
<1>17. TellInv(y, T2, tm2, events)
  <2>1. ASSUME NEW e \in Elements, NEW g \in Handler, y.at <= e, Bound(T2, e, g)
        PROVE  tm2[y.v][g.n] = 0
    <3>1. Bound(T, e, g) /\ times[x.v][g.n] = 0
      BY <1>5, <1>10, <2>1 DEF TellInv
    <3>2. e # x.at
      <4>1. x.at \in Nat /\ e \in Nat
        BY <1>6, Consts
      <4> QED  BY <1>5, <2>1, <4>1
    <3>3. g.n # h.n /\ g.n \in 1 .. MaxDeeds
      BY <1>7, <3>1, <3>2, HandlerFacts
    <3> QED  BY <1>5, <1>9, <3>1, <3>3
  <2> QED  BY <1>5, <2>1 DEF TellInv
<1>18. OnTop(y, d, T2, triggered, bound, events, tm2, sp2, nested)
  <2>1. y.runs # "dispatch" /\ y.runs # "default"
    BY <1>5 DEF Tells
  <2> QED  BY <1>5, <1>17, <2>1 DEF TopFits, OnTop
<1>19. StackInv(c, T2, triggered, bound, events, tm2, sp2, nested)
  BY <1>4, <1>16, <1>18, Push
<1>20. /\ DispatchInv(n, T2, tm2, bound)
       /\ \A k \in DOMAIN n.rest : n.rest[k].n # h.n
       /\ \A z : Agree(x, z) => Agree(n, z)
       /\ \A sp : Unspent(x, sp) => Unspent(n, sp)
  <2>1. DispatchInv(x, T, times, bound) /\ Follows(n, x, h)
    BY <1>1, <1>5
  <2>2. Fewer(T2, T)
    BY <1>10 DEF Fewer
  <2>3. NotedFor(x, h, tm2, times)
    BY <1>9 DEF NotedFor
  <2>4. DispatchInv(n, T2, tm2, bound) /\ StillHeld(n, x, h)
    BY <2>1, <2>2, <2>3, AdvancedInv
  <2> QED  BY <2>4 DEF StillHeld
<1>21. ASSUME ~nested PROVE Unspent(n, sp2) /\ spent[h.n] = 0
  <2>1. Unspent(x, spent)
    BY <1>21 DEF TopFits, OnTop
  <2>2. Unspent(n, spent) /\ spent[h.n] = 0
    BY <1>2, <1>20, <2>1 DEF Unspent
  <2>3. \A k \in DOMAIN n.rest : n.rest[k].n \in 1 .. MaxDeeds
    BY <1>1, HandlerFacts DEF Follows
  <2> QED  BY <1>10, <1>20, <2>2, <2>3 DEF Unspent
<1>22. OnTop(n, c, T2, triggered, bound, events, tm2, sp2, nested)
  <2>1. Stands(n, c[1])
    BY <1>2, <1>4, <1>5 DEF Stands
  <2>2. ~Tells(n)
    BY <1>2 DEF Tells
  <2>3. \A j \in DOMAIN c : c[j].runs = "dispatch" => Agree(n, c[j])
    BY <1>20 DEF TopFits, OnTop
  <2>4. ~nested => \A j \in DOMAIN c : Tells(c[j]) /\ c[j].type = n.type => j = 1
    BY <1>2 DEF TopFits, OnTop
  <2> QED  BY <1>2, <1>3, <1>5, <1>20, <1>21, <2>1, <2>2, <2>3, <2>4 DEF OnTop
<1>23. PICK s, z : s = <<n>> \o c /\ z = Body(h)
  OBVIOUS
<1>24. StackInv(s, T2, triggered, bound, events, tm2, sp2, nested)
  BY <1>1, <1>19, <1>22, <1>23, Push
<1>25. z \in Frames /\ z.runs = "body" /\ z.h = h /\ ~Tells(z)
  BY <1>2, <1>23 DEF Body, Frames, Tells
<1>26. Placed(s, n, c) /\ s \in Seq(Frames)
  <2>1. Placed(<<n>> \o c, n, c)
    BY <1>1, Places
  <2> QED  BY <1>23, <2>1 DEF Placed
<1>27. OnTop(z, s, T2, triggered, bound, events, tm2, sp2, nested)
  <2>1. s # <<>> /\ s[1] = n /\ Stands(z, n)
    BY <1>2, <1>25, <1>26 DEF Placed, Stands
  <2>2. \A j \in DOMAIN s : s[j].runs # "default"
    <3> TAKE j \in DOMAIN s
    <3>1. j = 1 \/ \E k \in DOMAIN c : j = k + 1 /\ s[j] = c[k]
      BY <1>26 DEF Placed
    <3> QED  BY <1>2, <1>5, <2>1, <3>1
  <2> QED  BY <1>25, <2>1, <2>2 DEF OnTop
<1>28. StackInv(<<z>> \o s, T2, triggered, bound, events, tm2, sp2, nested)
  BY <1>24, <1>25, <1>27, Push
<1>29. HaltedFit(<<z>> \o s, halted, events)
  <2>1. HaltedTop(z, s, halted)
    BY <1>25 DEF HaltedTop
  <2>2. Under(z, s, halted)
    <3>1. s[1] = n
      BY <1>26 DEF Placed
    <3> QED  BY <1>2, <3>1 DEF Under, Tells
  <2>3. Under(n, c, halted)
    BY <1>2 DEF Under
  <2>4. HaltedRest(s, halted)
    BY <1>1, <1>23, <2>3, HaltedBelow
  <2> QED  BY <1>25, <1>26, <2>1, <2>2, <2>4, HaltedSplit
<1>30. <<Body(h), n>> \o c = <<z>> \o s
  <2>1. <<z, n>> \o c = <<z>> \o (<<n>> \o c)
    BY <1>1, <1>25, TwoPushed
  <2> QED  BY <1>23, <2>1
<1> QED
  BY <1>0, <1>2, <1>6, <1>7, <1>8, <1>9, <1>21, <1>28, <1>29, <1>30

LEMMA PassedOver ==
  ASSUME IInv, NEW x \in Frames, NEW c \in Seq(Frames), Rest(c), TopFits(x, c),
         HaltedTypes(halted, events), Under(x, c, halted), HaltedRest(c, halted),
         x.runs = "dispatch", x.rest # <<>>, x.spaced, NEW n, NEW h, Advanced(x, n, h),
         x.stopped => h.sel = x.group
  PROVE  Rest(<<n>> \o c) /\ HaltedFit(<<n>> \o c, halted, events)
<1>0. PICK T : T = Table(data)
  OBVIOUS
<1>1. n \in Frames /\ Follows(n, x, h)
  BY AdvancedFacts
<1>2. /\ n.group = h.sel /\ n.runs = "dispatch" /\ n.v = x.v /\ n.type = x.type
      /\ n.at = x.at /\ n.stopped = x.stopped /\ ~Tells(n)
  BY <1>1 DEF Follows, Tells
<1>3. DispatchInv(n, T, times, bound) /\ StillHeld(n, x, h)
  <2>1. DispatchInv(x, T, times, bound)
    BY <1>0 DEF TopFits, OnTop
  <2>2. Fewer(T, T) /\ NotedFor(x, h, times, times)
    BY DEF Fewer, NotedFor
  <2> QED  BY <1>1, <2>1, <2>2, AdvancedInv
<1>4. OnTop(n, c, T, triggered, bound, events, times, spent, nested)
  <2>1. IF c = <<>> THEN n.runs \in Bottom ELSE Stands(n, c[1])
    <3>1. c # <<>> /\ Stands(x, c[1])
      BY DEF TopFits, OnTop, Bottom
    <3> QED  BY <1>2, <3>1 DEF Stands, Tells
  <2>2. \A j \in DOMAIN c : c[j].runs = "dispatch" => Agree(n, c[j])
    BY <1>3 DEF TopFits, OnTop, StillHeld
  <2>3. ~nested => Unspent(n, spent)
    BY <1>3 DEF TopFits, OnTop, StillHeld
  <2>4. ~nested => \A j \in DOMAIN c : Tells(c[j]) /\ c[j].type = n.type => j = 1
    BY <1>2 DEF TopFits, OnTop
  <2>5. \A j \in DOMAIN c : c[j].runs = "default" => j = 1 /\ n.type = "click"
    BY <1>2 DEF TopFits, OnTop
  <2> QED  BY <1>2, <1>3, <2>1, <2>2, <2>3, <2>4, <2>5 DEF OnTop
<1>5. Rest(<<n>> \o c)
  BY <1>0, <1>1, <1>4, Push DEF Rest
<1>6. HaltedTop(n, c, halted) /\ Under(n, c, halted)
  BY <1>2 DEF HaltedTop, Under
<1> QED
  BY <1>1, <1>5, <1>6, HaltedSplit

LEMMA CallHandlerKeeps == ASSUME IInv, CallHandler PROVE IInv'
<1>1. PICK x \in Frames, c \in Seq(Frames) :
        /\ x = Top /\ c = Below /\ calls = <<x>> \o c /\ calls[1] = x
        /\ Rest(c) /\ TopFits(x, c)
        /\ HaltedTypes(halted, events) /\ HaltedTop(x, c, halted)
        /\ Under(x, c, halted) /\ HaltedRest(c, halted)
  BY Opened DEF CallHandler, Running
<1>2. PICK h, n : h = Head(x.rest) /\ n = [x EXCEPT !.rest = Tail(@), !.group = h.sel]
  OBVIOUS
<1>3. /\ x.runs = "dispatch" /\ x.rest # <<>> /\ Advanced(x, n, h)
      /\ x.stopped => h.sel = x.group
      /\ UNCHANGED <<triggered, bound, events, halted, nested>>
  BY <1>1, <1>2 DEF CallHandler, Running, HasNext, Advanced
<1>4. CASE x.spaced /\ h.fn \notin Spaced
  <2>1. PICK s : s = <<n>> \o c
    OBVIOUS
  <2>2. calls' = s /\ UNCHANGED <<data, times, spent>>
    BY <1>1, <1>2, <1>4, <2>1 DEF CallHandler
  <2>3. Rest(s) /\ HaltedFit(s, halted, events)
    BY <1>1, <1>3, <1>4, <2>1, PassedOver
  <2> QED  BY <1>3, <2>2, <2>3, Held, StackKeeps DEF Rest
<1>5. CASE ~(x.spaced /\ h.fn \notin Spaced)
  <2>1. PICK same : same = {z \in ToSet(Handlers(data, x.at, h.type)) :
                              z.fn = h.fn /\ (h.sel => z.sel)}
    OBVIOUS
  <2>2. PICK d, tm, sp, s :
          /\ d = (IF h.one THEN Removed(data, x.at, {h.type}, same) ELSE data)
          /\ tm = [times EXCEPT ![x.v][h.n] = @ + 1]
          /\ sp = (IF h.one THEN [spent EXCEPT ![h.n] = @ + 1] ELSE spent)
          /\ s = <<Body(h), n>> \o c
    OBVIOUS
  <2>3. data' = d /\ times' = tm /\ spent' = sp /\ calls' = s
    BY <1>1, <1>2, <1>5, <2>1, <2>2 DEF CallHandler
  <2>4. PICK T, T2 : T = Table(data) /\ T2 = Table(d)
    OBVIOUS
  <2>5. /\ h \in Handler /\ x.at \in Elements
    BY <1>3, AdvancedFacts, FrameFacts DEF Follows
  <2>6. h.n \in 1 .. MaxDeeds /\ h.type \in Types
    BY <2>5, HandlerFacts
  <2>7. /\ DataInv(d, bound)
        /\ \A f \in Elements : \A g : Bound(T2, f, g) => Bound(T, f, g)
        /\ h.one => \A k \in DOMAIN T2[x.at][h.type] : T2[x.at][h.type][k] \notin same
    <3>1. CASE h.one
      <4>1. d = Removed(data, x.at, {h.type}, same) /\ {h.type} \in SUBSET Types
        BY <2>2, <2>6, <3>1
      <4>2. DataInv(data, bound)
        BY Held
      <4> QED  BY <2>4, <2>5, <4>1, <4>2, RemovedKeeps
    <3>2. CASE ~h.one
      <4>1. d = data
        BY <2>2, <3>2
      <4> QED  BY <2>4, <3>2, <4>1, Held
    <3> QED  BY <3>1, <3>2
  <2>8. CallNoted(x, h, T2, tm, sp)
    <3>1. SpentFit(T, spent, nested, bound)
      BY <2>4, Held
    <3>2. \A m \in 1 .. MaxDeeds : m # h.n => sp[m] = spent[m]
      BY <2>2, <2>6, <3>1 DEF SpentFit
    <3> QED  BY <2>2, <2>4, <2>7, <3>2 DEF CallNoted
  <2>9. /\ StackInv(<<Body(h), n>> \o c, T2, triggered, bound, events, tm, sp, nested)
        /\ HaltedFit(<<Body(h), n>> \o c, halted, events)
        /\ TimesFit(tm, bound, events) /\ h.n <= bound
        /\ \A e \in Elements, g \in Handler :
              Bound(Table(data), e, g) /\ g.n = h.n => e = x.at /\ g = h
        /\ ~nested => spent[h.n] = 0
    BY <1>1, <1>3, <2>8, CalledStack
  <2>10. SpentFit(T2, sp, nested, bound)
    <3>1. SpentFit(T, spent, nested, bound)
      BY <2>4, Held
    <3>2. CASE ~h.one
      <4>1. sp = spent
        BY <2>2, <3>2
      <4> QED  BY <2>7, <3>1, <4>1 DEF SpentFit
    <3>3. CASE h.one
      <4>1. /\ sp = [spent EXCEPT ![h.n] = spent[h.n] + 1]
            /\ spent \in [1 .. MaxDeeds -> Nat]
        BY <2>2, <3>1, <3>3 DEF SpentFit
      <4>2. sp \in [1 .. MaxDeeds -> Nat] /\ nested \in BOOLEAN
        BY <2>6, <3>1, <4>1 DEF SpentFit
      <4>3. \A m \in 1 .. MaxDeeds : sp[m] # 0 => m <= bound
        BY <2>6, <2>9, <3>1, <4>1 DEF SpentFit
      <4>4. ASSUME ~nested, NEW m \in 1 .. MaxDeeds PROVE sp[m] <= 1
        BY <2>6, <2>9, <3>1, <4>1, <4>4 DEF SpentFit
      <4>5. ASSUME ~nested, NEW e \in Elements, NEW g \in Handler, Bound(T2, e, g)
            PROVE  sp[g.n] = 0
        <5>1. Bound(T, e, g) /\ spent[g.n] = 0 /\ g.n \in 1 .. MaxDeeds
          BY <2>7, <3>1, <4>5, HandlerFacts DEF SpentFit
        <5>2. g.n # h.n
          <6> SUFFICES ASSUME g.n = h.n PROVE FALSE
            OBVIOUS
          <6>1. e = x.at /\ g = h
            BY <2>4, <2>9, <5>1
          <6>2. PICK t \in Types : \E k \in DOMAIN T2[x.at][t] : h = T2[x.at][t][k]
            BY <4>5, <6>1 DEF Bound
          <6>3. PICK k \in DOMAIN T2[x.at][t] : h = T2[x.at][t][k]
            BY <6>2
          <6>4. t = h.type
            <7>1. TableFits(T2, bound)
              BY <2>4, <2>7 DEF DataInv, CoreInv
            <7> QED  BY <2>5, <6>3, <7>1 DEF TableFits
          <6>5. h \notin same
            BY <2>7, <3>3, <6>3, <6>4
          <6>6. h \in ToSet(Handlers(data, x.at, h.type))
            <7>1. PICK u \in Types : \E l \in DOMAIN T[x.at][u] : h = T[x.at][u][l]
              BY <5>1, <6>1 DEF Bound
            <7>2. PICK l \in DOMAIN T[x.at][u] : h = T[x.at][u][l]
              BY <7>1
            <7>3. u = h.type
              <8>1. TableFits(T, bound)
                BY <2>4, Held DEF DataInv, CoreInv
              <8> QED  BY <2>5, <7>2, <8>1 DEF TableFits
            <7>4. T[x.at][u] = Handlers(data, x.at, h.type)
              BY <2>4, <2>5, <7>3, Held, TableFacts
            <7> QED  BY <7>2, <7>4 DEF ToSet
          <6> QED  BY <2>1, <6>5, <6>6
        <5> QED  BY <4>1, <2>6, <5>1, <5>2
      <4> QED  BY <4>2, <4>3, <4>4, <4>5 DEF SpentFit
    <3> QED  BY <3>2, <3>3
  <2> QED  BY <1>3, <2>2, <2>3, <2>4, <2>7, <2>9, <2>10, Held DEF IInv
<1> QED
  BY <1>4, <1>5

-----------------------------------------------------------------------------
(* The invariant, and what follows of it.                                  *)
LEMMA InitInv == ASSUME Init PROVE IInv
<1>1. /\ data.id = [e \in Elements |-> 0] /\ data.cache = [i \in Elements |-> Off]
      /\ data.deleted = <<>> /\ data.guid = 1
      /\ data.listens = [e \in Elements |-> {}] /\ data.attaches = 0
      /\ triggered = Off /\ calls = <<>> /\ bound = 0 /\ events = 0
      /\ times = NoTimes /\ halted = NotHalted
      /\ spent = [n \in 1 .. MaxDeeds |-> 0] /\ nested = FALSE
  BY DEF Init
<1>2. DataTypes(data)
  <2>1. /\ 0 \in 0 .. Depth /\ 1 \in 1 .. Depth + 1 /\ 0 \in Int
    BY Consts
  <2> QED  BY <2>1 DEF Init, DataTypes
<1>3. IdsFit(data)
  <2>1. DOMAIN data.deleted = {}
    BY <1>1
  <2>2. \A i \in Elements : ~(i < 1)
    BY Consts DEF Elements
  <2> QED  BY <1>1, <2>1, <2>2 DEF IdsFit
<1>4. EntriesFit(data)
  BY <1>1 DEF EntriesFit
<1>5. \A e \in Elements, t \in Types : Table(data)[e][t] = <<>>
  BY <1>1 DEF Table, Handlers, HasData
<1>6. TableFits(Table(data), 0)
  <2>1. \A e \in Elements, t \in Types : DOMAIN Table(data)[e][t] = {}
    BY <1>5
  <2> QED  BY <2>1 DEF TableFits, InOrder
<1>7. ListensFit(Table(data), data.listens, data.attaches)
  <2>1. Wanting(Table(data)) = {}
    BY <1>5 DEF Wanting
  <2> QED  BY <1>1, <1>5, <2>1, FS_EmptySet DEF ListensFit
<1>8. DataInv(data, bound)
  BY <1>1, <1>2, <1>3, <1>4, <1>6, <1>7 DEF DataInv, CoreInv
<1>9. TimesFit(times, bound, events)
  BY <1>1 DEF TimesFit, NoTimes
<1>10. SpentFit(Table(data), spent, nested, bound)
  <2>1. \A h \in Handler : h.n \in 1 .. MaxDeeds
    BY HandlerFacts
  <2>2. /\ spent \in [1 .. MaxDeeds -> Nat] /\ nested \in BOOLEAN
        /\ \A n \in 1 .. MaxDeeds : spent[n] = 0 /\ spent[n] <= 1
    <3>1. spent \in [1 .. MaxDeeds -> Nat] /\ \A n \in 1 .. MaxDeeds : spent[n] = 0
      <4>1. spent = [n \in 1 .. MaxDeeds |-> 0]
        BY <1>1
      <4> QED  BY ONLY <4>1
    <3>2. nested \in BOOLEAN
      BY <1>1
    <3>3. \A n \in 1 .. MaxDeeds : spent[n] <= 1
      BY ONLY <3>1
    <3> QED  BY <3>1, <3>2, <3>3
  <2>3. \A h \in Handler : spent[h.n] = 0
    BY <2>1, <2>2
  <2> QED  BY <2>2, <2>3 DEF SpentFit
<1>11. StackInv(calls, Table(data), triggered, bound, events, times, spent, nested)
  <2>1. DOMAIN calls = {} /\ calls \in Seq(Frames)
    BY <1>1
  <2> QED  BY <1>1, <2>1 DEF StackInv, Stacked, Defaults, TellsFit, RestsFit, RestsAgree, OneInv
<1>12. HaltedFit(calls, halted, events)
  BY <1>1 DEF HaltedFit, HaltedTypes, NotHalted
<1>13. bound \in 0 .. MaxDeeds /\ events \in 0 .. MaxDeeds /\ triggered \in {Off, "click"}
  BY <1>1, Consts
<1> QED
  BY <1>8, <1>9, <1>10, <1>11, <1>12, <1>13 DEF IInv

LEMMA StepKeeps == ASSUME IInv, [Next]_vars PROVE IInv'
<1>1. CASE LibraryStep
  BY <1>1, CallListenerKeeps, WalkPathKeeps, EndTriggerKeeps, EndDefaultKeeps,
     CallHandlerKeeps, EndDispatchKeeps, CleanElementKeeps DEF LibraryStep
<1>2. CASE PageStep
  <2>1. ASSUME NEW e \in Elements, NEW t \in Types, NEW f \in Fn, NEW sel \in BOOLEAN,
               NEW one \in BOOLEAN, On(e, t, f, sel, one)
        PROVE  IInv'
    BY <2>1, OnKeeps
  <2>2. ASSUME NEW e \in Elements, NEW t \in Types,
               (\E f \in Fn : Unbind(e, {t}, {f})) \/ Unbind(e, {t}, Fn)
        PROVE  IInv'
    <3>1. {t} \in SUBSET Types
      OBVIOUS
    <3> QED  BY <2>2, <3>1, UnbindKeeps
  <2>3. ASSUME NEW e \in Elements, NEW t \in Types, NEW spaced \in BOOLEAN,
               Trigger(e, t, spaced)
        PROVE  IInv'
    BY <2>3, TriggerKeeps
  <2>4. ASSUME NEW e \in Elements, NEW t \in Types, UserEvent(e, t) PROVE IInv'
    BY <2>4, UserEventKeeps
  <2>5. ASSUME NEW e \in Elements, Unbind(e, Types, Spaced) PROVE IInv'
    <3>1. Types \in SUBSET Types
      OBVIOUS
    <3> QED  BY <2>5, <3>1, UnbindKeeps
  <2>6. ASSUME NEW e \in Elements, Clean(e) PROVE IInv'
    BY <2>6, CleanKeeps
  <2>7. ASSUME NEW e \in WithPublic, SetData(e) \/ RemoveData(e) PROVE IInv'
    BY <2>7, SetDataActs, RemoveDataActs
  <2>8. ASSUME NEW how, Return(how) PROVE IInv'
    BY <2>8, ReturnKeeps
  <2> QED  BY <1>2, <2>1, <2>2, <2>3, <2>4, <2>5, <2>6, <2>7, <2>8 DEF PageStep
<1>3. CASE UNCHANGED vars
  BY <1>3 DEF IInv, vars
<1> QED
  BY <1>1, <1>2, <1>3 DEF Next

LEMMA InvOfSpec == Spec => []IInv
BY InitInv, StepKeeps, PTL DEF Spec

LEMMA IdsAndTypes == ASSUME IInv PROVE TypeOK /\ IdsAreUnique
<1>1. /\ DataTypes(data) /\ IdsFit(data) /\ EntriesFit(data)
      /\ TableFits(Table(data), bound) /\ Table(data) \in Tables
      /\ ListensFit(Table(data), data.listens, data.attaches)
      /\ triggered \in {Off, "click"}
  BY TableFacts DEF IInv, DataInv, CoreInv
<1>2. /\ data.id \in [Elements -> 0 .. Depth]
      /\ data.cache \in [Elements -> Entries \cup {Off}]
      /\ data.deleted \in Seq(Elements)
  BY <1>1, DataFields
<1>3. data.attaches \in 0 .. Depth
  <2>1. Wanting(Table(data)) \subseteq Elements
    BY DEF Wanting
  <2>2. /\ IsFiniteSet(Wanting(Table(data)))
        /\ Cardinality(Wanting(Table(data))) <= Depth
    BY <2>1, Consts, FS_Subset
  <2>3. Cardinality(Wanting(Table(data))) \in Nat
    BY <2>2, FS_CardinalityType
  <2> QED  BY <1>1, <2>2, <2>3, Consts DEF ListensFit
<1>4. ASSUME NEW i \in Elements, data.cache[i] # Off, NEW t \in Types
      PROVE  InOrder(data.cache[i].events[t]) /\ data.cache[i].events[t] \in Seq(Handler)
  <2>1. PICK e \in Elements : data.id[e] = i
    BY <1>1, <1>4 DEF IdsFit
  <2>2. HasData(data, e)
    BY <1>4, <2>1, Consts DEF HasData
  <2>3. Table(data)[e] = data.cache[i].events
    BY <1>1, <2>1, <2>2, TableFacts
  <2>4. InOrder(Table(data)[e][t]) /\ Table(data)[e][t] \in Seq(Handler)
    BY <1>1 DEF TableFits, Tables
  <2> QED  BY <2>3, <2>4
<1>5. ASSUME NEW i \in Elements, data.cache[i] # Off, NEW t \in Types,
             NEW j \in 1 .. MaxDeeds, NEW k \in 1 .. MaxDeeds, j < k,
             k <= Len(data.cache[i].events[t]), data.cache[i].events[t][k].sel
      PROVE  data.cache[i].events[t][j].sel
  <2>1. PICK list : list = data.cache[i].events[t]
    OBVIOUS
  <2>2. list \in Seq(Handler) /\ InOrder(list)
    BY <1>4, <1>5, <2>1
  <2>3. j \in DOMAIN list /\ k \in DOMAIN list
    BY <1>5, <2>1, <2>2, Consts
  <2> QED  BY <1>5, <2>1, <2>2, <2>3 DEF InOrder
<1>6. TypeOK
  BY <1>1, <1>2, <1>3, <1>5 DEF TypeOK
<1>7. IsInjective(data.deleted)
  BY <1>1 DEF IdsFit, IsInjective
<1>8. ASSUME NEW e \in Elements PROVE ~Contains(data.deleted, data.id[e])
  <2> SUFFICES ASSUME NEW k \in 1 .. Len(data.deleted), data.deleted[k] = data.id[e]
               PROVE  FALSE
    BY DEF Contains
  <2>1. k \in DOMAIN data.deleted /\ data.deleted[k] \in Elements
    BY <1>2, ElementOfSeq
  <2>2. data.id[e] # 0
    BY <2>1, Consts
  <2> QED  BY <1>1, <2>1, <2>2 DEF IdsFit
<1>9. \A i \in Elements : data.cache[i] # Off =>
        \/ data.cache[i].public
        \/ \E t \in Types : data.cache[i].events[t] # <<>>
  BY <1>1 DEF EntriesFit, EntryFits
<1>10. \A e, f \in Elements : data.id[e] = data.id[f] /\ e # f => data.id[e] = 0
  BY <1>1 DEF IdsFit
<1> QED
  BY <1>6, <1>7, <1>8, <1>9, <1>10 DEF IdsAreUnique

LEMMA Listeners == ASSUME IInv PROVE ListenersFit
<1>1. /\ \A e \in Elements, t \in Types : Table(data)[e][t] = Handlers(data, e, t)
      /\ ListensFit(Table(data), data.listens, data.attaches)
  BY TableFacts DEF IInv, DataInv, CoreInv
<1>2. \A e \in Elements : data.listens[e] = {t \in Types \ {"focusin"} :
                                               Handlers(data, e, t) # <<>>}
  BY <1>1 DEF ListensFit
<1>3. Wanting(Table(data)) = {e \in Elements :
        "focusin" \in Types /\ Handlers(data, e, "focusin") # <<>>}
  BY <1>1 DEF Wanting
<1> QED
  BY <1>1, <1>2, <1>3 DEF ListensFit, ListenersFit

LEMMA StoppedHere == ASSUME IInv PROVE StoppedIsStopped
<1> SUFFICES ASSUME NEW i \in DOMAIN calls, calls[i].runs = "body",
                    halted[calls[i + 1].v] # Off
             PROVE  halted[calls[i + 1].v] = Place(i)
  BY DEF StoppedIsStopped
<1>1. /\ calls \in Seq(Frames) /\ Defaults(calls, triggered)
      /\ \A j \in DOMAIN calls : j + 1 \in DOMAIN calls => Stands(calls[j], calls[j + 1])
      /\ calls # <<>> => calls[Len(calls)].runs \in Bottom
      /\ HaltedFit(calls, halted, events)
  BY Held DEF Rest, StackInv, Stacked, Bottom
<1>2. Len(calls) \in Nat /\ DOMAIN calls = 1 .. Len(calls) /\ i \in Nat /\ calls # <<>>
  BY <1>1
<1>3. \A j \in DOMAIN calls : calls[j].runs \in {"body", "dispatch"} => j + 1 \in DOMAIN calls
  <2> SUFFICES ASSUME NEW j \in DOMAIN calls, calls[j].runs \in {"body", "dispatch"}
               PROVE  j + 1 \in DOMAIN calls
    OBVIOUS
  <2>1. j # Len(calls)
    BY <1>1, <1>2 DEF Bottom
  <2> QED  BY <1>2, <2>1
<1>4. /\ i + 1 \in DOMAIN calls /\ calls[i + 1].runs = "dispatch"
      /\ calls[i].h.sel = calls[i + 1].group
  BY <1>1, <1>3 DEF Stands, Tells
<1>5. PICK k : k = i + 1 + 1
  OBVIOUS
<1>6. /\ k \in DOMAIN calls /\ Tells(calls[k]) /\ calls[k].v = calls[i + 1].v
      /\ ~calls[k].stopped
  BY <1>1, <1>3, <1>4, <1>5 DEF Stands
<1>7. k > 2 /\ k - 1 = i + 1 /\ k \in Nat /\ k > 1
  BY <1>2, <1>4, <1>5
<1>8. ~Retold(calls, k)
  <2>1. k + 1 # 1 /\ k + 1 # 2
    BY <1>7
  <2> QED  BY <1>1, <2>1 DEF Retold, Defaults
<1>9. halted[calls[k].v] = <<calls[i + 1].at, calls[i + 1].group>>
  <2>1. HaltedAt(calls, k, halted)
    BY <1>1, <1>6 DEF HaltedFit
  <2> QED  BY <1>6, <1>7, <1>8, <2>1 DEF HaltedAt
<1> QED
  BY <1>4, <1>6, <1>9 DEF Place

(* The data and what the browser listens to: the identifiers are of one    *)
(* element each, no entry outlives what it was made for, and an element is *)
(* listened to exactly while it has a handler, whatever is bound, removed  *)
(* and cleaned, in handlers or elsewhere (jquery-1.9.1.js:1551-1730,       *)
(* 2718-2899, 6564-6615).                                                  *)
THEOREM DataAgrees == Spec => []DataFits
<1>1. ASSUME IInv PROVE DataFits
  BY <1>1, IdsAndTypes, Listeners DEF DataFits
<1> QED
  BY <1>1, InvOfSpec, PTL

(* No handler is called twice for an event, nor again after one() unless   *)
(* events are nested, nor when the event was stopped elsewhere, also when  *)
(* handlers trigger, bind, remove and clean (jquery-1.9.1.js:2902-3137).   *)
THEOREM CallsAreFew == Spec => []CallsFit
<1>1. ASSUME IInv PROVE CallsFit
  <2>1. CalledOnce
    <3> SUFFICES ASSUME NEW v \in 1 .. MaxDeeds, NEW n \in 1 .. MaxDeeds
                 PROVE  times[v][n] <= 1
      BY DEF CalledOnce
    <3>1. times[v][n] \in 0 .. 1
      BY <1>1, Held DEF TimesFit
    <3> QED  BY <3>1
  <2>2. OneIsOnce
    BY <1>1, Held DEF SpentFit, OneIsOnce
  <2> QED  BY <1>1, <2>1, <2>2, StoppedHere DEF CallsFit
<1> QED
  BY <1>1, InvOfSpec, PTL

(* When dispatch() ends and was not stopped, it has called each handler    *)
(* that was bound when it began, once, and none that was bound since       *)
(* (jquery-1.9.1.js:3039-3095).                                            *)
THEOREM BoundAreCalled == Spec => AllBoundAreCalled
<1>1. ASSUME IInv, EndDispatch, ~Top.stopped, ~Top.spaced, NEW n \in 1 .. MaxDeeds
      PROVE  /\ n \in Top.had => times[Top.v][n] = 1
             /\ n > Top.since => times[Top.v][n] = 0
  <2>1. PICK x \in Frames, c \in Seq(Frames) : x = Top /\ TopFits(x, c)
    BY <1>1, Opened DEF EndDispatch, Running
  <2>2. x.runs = "dispatch" /\ DispatchInv(x, Table(data), times, bound)
    BY <1>1, <2>1 DEF EndDispatch, Running, TopFits, OnTop
  <2>3. x.rest = <<>>
    BY <1>1, <2>1, <2>2 DEF EndDispatch, HasNext, DispatchInv
  <2>4. DOMAIN x.rest = {}
    BY <2>3
  <2> QED  BY <1>1, <2>1, <2>2, <2>4 DEF DispatchInv
<1>2. ASSUME IInv
      PROVE  [(EndDispatch /\ ~Top.stopped /\ ~Top.spaced) =>
                \A n \in 1 .. MaxDeeds :
                  /\ n \in Top.had => times[Top.v][n] = 1
                  /\ n > Top.since => times[Top.v][n] = 0]_vars
  BY <1>1, <1>2
<1> QED
  BY <1>2, InvOfSpec, PTL DEF AllBoundAreCalled
=============================================================================
