---------------------------- MODULE DerivedProofs ----------------------------
(***************************************************************************)
(* More about Deferred: what then() and when() return, the notifications,  *)
(* and the bounds of the lists, for every set of deferreds and functions.  *)
(* Three invariants on top of DInv: VInv, that what is still to be done    *)
(* for a derived deferred is somewhere in the lists or on the stack; NInv, *)
(* that what a list for the progress has called and what it will call are  *)
(* in order; and DeedsFit, that there are no more values than deeds.       *)
(***************************************************************************)
EXTENDS DeferredProofs, FiniteSetTheorems

(* What is derived.  For this the stack and the lists are seen as the sets *)
(* of what will be done with a derived deferred, m: its links, which are   *)
(* in a list and not called yet, or still to be added to one; the actions  *)
(* and the checks that are about to be called, and the filters that run;   *)
(* and which deferreds went which way.                                     *)
IsLink(x) == x.does \in {"forward", "filter", "count"}
Links ==
  [at : {"list", "stack"}, d : Deferreds, a : Settling, i : Nat, j : Nat,
   x : Others(Deferreds)]

Went(m, d, a) == <<d, a>> \in m.went
Over(m, d) == \E a \in Settling : Went(m, d, a)
Dead(m, n) == \E d \in m.follows[n] : Went(m, d, "reject")
Busy(m, n) == \E b \in m.bodies : b.d = n
ToFire(m, n, a) == <<n, a>> \in m.fires
Live(m, y) == ~Went(m, y.d, Opposite(y.a))
LinksOf(m, n) == {y \in m.links : y.x.d = n}
Counts(x) == x.does = "count"
Filters(x) == x.does = "filter" /\ x.f # Off
Tokens(m, n) == {y \in LinksOf(m, n) : Counts(y.x) /\ Live(m, y)}
Counted(m, n) == Tokens(m, n) # {} \/ n \in m.checks

Reason(m, n, a) ==
  IF a = "resolve" THEN \A d \in m.follows[n] : Went(m, d, a) ELSE Dead(m, n)

(* How large a small set is.                                               *)
Size(T, r) ==
  \/ r = 0 /\ T = {}
  \/ r = 1 /\ \E x : T = {x}
  \/ r = 2 /\ \E x, y : x # y /\ T = {x, y}

Shape(m) ==
  /\ m.links \subseteq Links
  /\ \A y \in m.links :
       /\ IsLink(y.x) /\ y.x.d \in m.derived
       /\ IF Counts(y.x) THEN y.a = "resolve" ELSE y.x.a = y.a
  /\ m.fires \subseteq m.derived \X Settling
  /\ m.checks \subseteq m.derived
  /\ \A b \in m.bodies : b.d \in m.derived /\ b.a \in Settling
  /\ m.derived \subseteq Deferreds
  /\ m.went \subseteq Deferreds \X Settling
  /\ \A d \in Deferreds, a \in Settling : Went(m, d, a) => ~Went(m, d, Opposite(a))
  /\ \A n \in m.derived : m.follows[n] # {} /\ m.follows[n] \subseteq Deferreds
  /\ m.thrown \in BOOLEAN

(* What is still to be counted of n is not more than remaining[n]; it is   *)
(* less when something that n goes by was rejected.                        *)
SizeFits(m) ==
  \A n \in m.derived : \E r \in 0 .. 2 :
    /\ Size(Tokens(m, n), r) /\ r <= m.remaining[n] /\ m.remaining[n] \in 0 .. 2
    /\ ~m.thrown => /\ Counted(m, n) /\ Dead(m, n) => r < m.remaining[n]
                    /\ ~Dead(m, n) => r = m.remaining[n]

LinksFit(m) ==
  \A y \in m.links : Live(m, y) =>
    /\ y.d \in m.follows[y.x.d]
    /\ ~Counts(y.x) /\ y.a = "resolve" => m.follows[y.x.d] = {y.d}

ReasonsFit(m) ==
  \A n \in m.derived, a \in Settling :
    ToFire(m, n, a) \/ Went(m, n, a) => Reason(m, n, a)

(* A filter will be, or is, the only one to settle what it was made for.   *)
FilterFits(m, y) ==
  LET n == y.x.d
  IN  /\ ~Over(m, n) /\ ~Busy(m, n) /\ ~ToFire(m, n, y.a) /\ n \notin m.checks
      /\ m.follows[n] = {y.d} /\ m.remaining[n] = 0
      /\ \A z \in LinksOf(m, n) :
           ~Counts(z.x) /\ (Live(m, z) /\ z.a = y.a => z = y)
BodyFits(m, b) ==
  LET n == b.d
  IN  /\ ~Over(m, n) /\ n \notin m.checks /\ m.remaining[n] = 0
      /\ \A a \in Settling : ~ToFire(m, n, a)
      /\ \E d \in Deferreds : m.follows[n] = {d} /\ Went(m, d, b.a)
      /\ \A y \in LinksOf(m, n) : ~Live(m, y) /\ ~Counts(y.x)
      /\ \A c \in m.bodies : c.d = n => c = b
FiltersFit(m) ==
  \A y \in m.links : Live(m, y) /\ Filters(y.x) => FilterFits(m, y)
BodiesFit(m) == \A b \in m.bodies : BodyFits(m, b)

(* What is counted waits for every one that has not gone either way.       *)
CountsFit(m) ==
  \A n \in m.derived : Counted(m, n) =>
    \A d \in m.follows[n] : Over(m, d) \/ \E y \in Tokens(m, n) : y.d = d

(* Something will settle what is derived.                                  *)
WillReject(m) ==
  \A n \in m.derived : \A d \in m.follows[n] :
    \/ Went(m, d, "resolve") \/ Over(m, n) \/ Busy(m, n) \/ ToFire(m, n, "reject")
    \/ \E y \in LinksOf(m, n) : y.d = d /\ y.a = "reject"
WillResolve(m) ==
  \A n \in m.derived :
    \/ Dead(m, n) \/ Over(m, n) \/ Busy(m, n) \/ ToFire(m, n, "resolve")
    \/ n \in m.checks \/ m.remaining[n] > 0
    \/ \E y \in LinksOf(m, n) :
         y.d \in m.follows[n] /\ y.a = "resolve" /\ ~Counts(y.x)

AllFit(m) ==
  /\ Shape(m) /\ SizeFits(m)
  /\ ~m.thrown => /\ LinksFit(m) /\ ReasonsFit(m) /\ FiltersFit(m) /\ BodiesFit(m)
                  /\ CountsFit(m) /\ WillReject(m) /\ WillResolve(m)

LEMMA SizeShrinks ==
  ASSUME NEW T, NEW r \in 0 .. 2, Size(T, r), NEW U, U \subseteq T
  PROVE  \E k \in 0 .. r : Size(U, k) /\ (U # T => k < r)
<1>1. CASE r = 0
  BY <1>1 DEF Size
<1>2. CASE r = 1
  <2>1. PICK x : T = {x}
    BY <1>2 DEF Size
  <2>2. U = {} \/ U = {x}
    BY <2>1
  <2> QED  BY <1>2, <2>1, <2>2 DEF Size
<1>3. CASE r = 2
  <2>1. PICK x, y : x # y /\ T = {x, y}
    BY <1>3 DEF Size
  <2>2. U = {} \/ U = {x} \/ U = {y} \/ U = {x, y}
    BY <2>1
  <2>3. Size(U, 0) \/ Size(U, 1) \/ U = T
    BY <2>1, <2>2 DEF Size
  <2> QED  BY <1>3, <2>3
<1> QED
  BY <1>1, <1>2, <1>3 DEF Size

LEMMA SizeLess ==
  ASSUME NEW T, NEW r \in 0 .. 2, Size(T, r), NEW x \in T
  PROVE  r >= 1 /\ r - 1 \in 0 .. 2 /\ Size(T \ {x}, r - 1)
<1>1. CASE r = 0
  BY <1>1 DEF Size
<1>2. CASE r = 1
  <2>1. T \ {x} = {}
    BY <1>2 DEF Size
  <2> QED  BY <1>2, <2>1 DEF Size
<1>3. CASE r = 2
  <2>0. \E y, z : y # z /\ T = {y, z}
    BY ONLY <1>3, Size(T, r) DEF Size
  <2>1. PICK y, z : y # z /\ T = {y, z}
    BY <2>0
  <2>2. T \ {x} = {y} \/ T \ {x} = {z}
    BY <2>1
  <2>3. \E w : T \ {x} = {w}
    BY <2>2
  <2>4. Size(T \ {x}, 1)
    BY <2>3 DEF Size
  <2> QED  BY <1>3, <2>4
<1> QED
  BY <1>1, <1>2, <1>3 DEF Size

LEMMA SizeMoves ==
  ASSUME NEW T, NEW r \in 0 .. 2, Size(T, r), NEW x \in T, NEW y, y \notin T
  PROVE  Size((T \ {x}) \cup {y}, r)
<1>1. CASE r = 0
  BY <1>1 DEF Size
<1>2. CASE r = 1
  <2>1. (T \ {x}) \cup {y} = {y}
    BY <1>2 DEF Size
  <2> QED  BY <1>2, <2>1 DEF Size
<1>3. CASE r = 2
  <2>1. PICK v, w : v # w /\ T = {v, w}
    BY <1>3 DEF Size
  <2>2. /\ (T \ {x}) \cup {y} = {v, y} \/ (T \ {x}) \cup {y} = {w, y}
        /\ v # y /\ w # y
    BY <2>1
  <2> QED  BY <1>3, <2>2 DEF Size
<1> QED
  BY <1>1, <1>2, <1>3 DEF Size

LEMMA SizeSame ==
  ASSUME NEW T, NEW r \in 0 .. 2, Size(T, r), NEW k \in 0 .. 2, Size(T, k)
  PROVE  k = r
BY DEF Size

LEMMA SizeOne ==
  ASSUME NEW T, NEW r \in 0 .. 2, Size(T, r), NEW x \in T, NEW y \in T, x # y
  PROVE  r = 2
BY DEF Size

(* What makes a filter, or a function that runs, fit after a step.         *)
LEMMA FilterSame ==
  ASSUME NEW m, NEW w, NEW y, FilterFits(m, y),
         w.follows[y.x.d] = m.follows[y.x.d],
         w.remaining[y.x.d] = m.remaining[y.x.d],
         Over(w, y.x.d) => Over(m, y.x.d), Busy(w, y.x.d) => Busy(m, y.x.d),
         ToFire(w, y.x.d, y.a) => ToFire(m, y.x.d, y.a),
         y.x.d \in w.checks => y.x.d \in m.checks,
         \A z \in LinksOf(w, y.x.d) :
           z \in LinksOf(m, y.x.d) /\ (Live(w, z) => Live(m, z))
  PROVE  FilterFits(w, y)
BY DEF FilterFits

LEMMA BodySame ==
  ASSUME NEW m, NEW w, NEW b, BodyFits(m, b),
         w.follows[b.d] = m.follows[b.d], w.remaining[b.d] = m.remaining[b.d],
         Over(w, b.d) => Over(m, b.d),
         \A a : ToFire(w, b.d, a) => ToFire(m, b.d, a),
         \A d, a : Went(m, d, a) => Went(w, d, a),
         b.d \in w.checks => b.d \in m.checks,
         \A y \in LinksOf(w, b.d) :
           y \in LinksOf(m, b.d) /\ (Live(w, y) => Live(m, y)),
         \A c \in w.bodies : c.d = b.d => c \in m.bodies
  PROVE  BodyFits(w, b)
BY DEF BodyFits

(* What the steps of the lists and of the stack make of this.              *)
AllAlike(m, w) ==
  /\ w.derived = m.derived /\ w.thrown = m.thrown /\ w.follows = m.follows

LEMMA DropAll ==
  ASSUME NEW m, NEW w, AllFit(m), AllAlike(m, w), w.remaining = m.remaining,
         w.fires = m.fires, w.checks = m.checks, w.bodies = m.bodies,
         w.went = m.went, w.links \subseteq m.links,
         \A y \in m.links \ w.links : ~Live(m, y)
  PROVE  AllFit(w)
<1>1. \A z : Live(w, z) <=> Live(m, z)
  BY DEF Live, Went
<1>2. \A n : Tokens(w, n) = Tokens(m, n)
  BY <1>1 DEF Tokens, LinksOf
<1>3. \A n, a : /\ Counted(w, n) <=> Counted(m, n)
                /\ Went(w, n, a) <=> Went(m, n, a)
                /\ ToFire(w, n, a) <=> ToFire(m, n, a)
  BY <1>2 DEF Counted, Went, ToFire
<1>4. \A n : /\ Over(w, n) <=> Over(m, n)
             /\ Busy(w, n) <=> Busy(m, n)
             /\ \A a : Reason(w, n, a) <=> Reason(m, n, a)
  BY <1>3 DEF AllAlike, Over, Dead, Busy, Reason
<1>0. \A n : Dead(w, n) <=> Dead(m, n)
  BY <1>3 DEF AllAlike, Dead
<1>5. Shape(w)
  BY <1>3 DEF AllFit, AllAlike, Shape
<1>6. SizeFits(w)
  BY <1>0, <1>2, <1>3 DEF AllFit, AllAlike, SizeFits
<1> SUFFICES ASSUME ~m.thrown
             PROVE  /\ LinksFit(w) /\ ReasonsFit(w) /\ FiltersFit(w) /\ BodiesFit(w)
                    /\ CountsFit(w) /\ WillReject(w) /\ WillResolve(w)
  BY <1>5, <1>6 DEF AllFit, AllAlike
<1>7. LinksFit(w) /\ ReasonsFit(w)
  BY <1>1, <1>3, <1>4 DEF AllFit, AllAlike, LinksFit, ReasonsFit
<1>8. FiltersFit(w)
  BY <1>1, <1>3, <1>4 DEF AllFit, AllAlike, FiltersFit, FilterFits, LinksOf
<1>9. BodiesFit(w)
  BY <1>1, <1>3, <1>4 DEF AllFit, AllAlike, BodiesFit, BodyFits, LinksOf
<1>10. CountsFit(w)
  BY <1>2, <1>3, <1>4 DEF AllFit, AllAlike, CountsFit
<1>11. WillReject(w)
  <2>1. \A y \in m.links \ w.links : y.a = "reject" => Went(m, y.d, "resolve")
    BY DEF Live, Opposite
  <2> QED  BY <1>3, <1>4, <2>1 DEF AllFit, AllAlike, WillReject, LinksOf
<1>12. WillResolve(w)
  <2>1. \A y \in m.links \ w.links : y.a = "resolve" => Went(m, y.d, "reject")
    BY DEF Live, Opposite
  <2> QED  BY <1>0, <1>3, <1>4, <2>1 DEF AllFit, AllAlike, WillResolve, LinksOf, Dead
<1> QED
  BY <1>7, <1>8, <1>9, <1>10, <1>11, <1>12

LEMMA MoveAll ==
  ASSUME NEW m, NEW w, AllFit(m), AllAlike(m, w), w.remaining = m.remaining,
         w.fires = m.fires, w.checks = m.checks, w.bodies = m.bodies,
         w.went = m.went, NEW y \in m.links, NEW z \in Links, z \notin m.links,
         z.d = y.d, z.a = y.a, z.x = y.x,
         w.links = (m.links \ {y}) \cup {z}
  PROVE  AllFit(w)
<1>1. /\ \A u : Live(w, u) <=> Live(m, u)
      /\ Live(m, z) <=> Live(m, y)
  BY DEF Live, Went
<1>2. \A n : \/ Tokens(w, n) = Tokens(m, n)
             \/ /\ y \in Tokens(m, n) /\ z \notin Tokens(m, n)
                /\ Tokens(w, n) = (Tokens(m, n) \ {y}) \cup {z}
  BY <1>1 DEF Tokens, LinksOf
<1>a. \A n : Tokens(w, n) = {} <=> Tokens(m, n) = {}
  BY <1>2
<1>3. \A n, a : /\ Counted(w, n) <=> Counted(m, n)
                /\ Went(w, n, a) <=> Went(m, n, a)
                /\ ToFire(w, n, a) <=> ToFire(m, n, a)
  BY <1>a DEF Counted, Went, ToFire
<1>4. \A n : /\ Over(w, n) <=> Over(m, n)
             /\ Busy(w, n) <=> Busy(m, n)
             /\ \A a : Reason(w, n, a) <=> Reason(m, n, a)
  BY <1>3 DEF AllAlike, Over, Dead, Busy, Reason
<1>0. \A n : Dead(w, n) <=> Dead(m, n)
  BY <1>3 DEF AllAlike, Dead
<1>5. Shape(w)
  BY <1>3 DEF AllFit, AllAlike, Shape
<1>6. SizeFits(w)
  <2> SUFFICES ASSUME NEW n \in w.derived
               PROVE  \E r \in 0 .. 2 :
                 /\ Size(Tokens(w, n), r) /\ r <= w.remaining[n]
                 /\ w.remaining[n] \in 0 .. 2
                 /\ ~w.thrown => /\ Counted(w, n) /\ Dead(w, n) => r < w.remaining[n]
                                 /\ ~Dead(w, n) => r = w.remaining[n]
    BY DEF SizeFits
  <2>1. PICK r \in 0 .. 2 :
           /\ Size(Tokens(m, n), r) /\ r <= m.remaining[n]
           /\ m.remaining[n] \in 0 .. 2
           /\ ~m.thrown => /\ Counted(m, n) /\ Dead(m, n) => r < m.remaining[n]
                           /\ ~Dead(m, n) => r = m.remaining[n]
    BY DEF AllFit, SizeFits, AllAlike
  <2>2. Size(Tokens(w, n), r)
    BY <1>2, <2>1, SizeMoves
  <2> QED  BY <1>0, <1>3, <2>1, <2>2 DEF AllAlike
<1> SUFFICES ASSUME ~m.thrown
             PROVE  /\ LinksFit(w) /\ ReasonsFit(w) /\ FiltersFit(w) /\ BodiesFit(w)
                    /\ CountsFit(w) /\ WillReject(w) /\ WillResolve(w)
  BY <1>5, <1>6 DEF AllFit, AllAlike
<1>b. \A u \in w.links : u \in m.links \/ u = z
  OBVIOUS
<1>7. LinksFit(w) /\ ReasonsFit(w)
  BY <1>1, <1>3, <1>4 DEF AllFit, AllAlike, LinksFit, ReasonsFit
<1>8. FiltersFit(w)
  <2> SUFFICES ASSUME NEW u \in w.links, Live(w, u), Filters(u.x)
               PROVE  LET n == u.x.d
                      IN  /\ ~Over(w, n) /\ ~Busy(w, n) /\ ~ToFire(w, n, u.a)
                          /\ n \notin w.checks /\ w.follows[n] = {u.d} /\ w.remaining[n] = 0
                          /\ \A v \in LinksOf(w, n) :
                               ~Counts(v.x) /\ (Live(w, v) /\ v.a = u.a => v = u)
    BY DEF FiltersFit, FilterFits
  <2>1. PICK t \in m.links : /\ Live(m, t) /\ t.x = u.x /\ t.a = u.a /\ t.d = u.d
                             /\ t = u \/ (t = y /\ u = z)
    BY <1>1, <1>b
  <2> DEFINE n == u.x.d
  <2>2. /\ ~Over(m, n) /\ ~Busy(m, n) /\ ~ToFire(m, n, t.a)
        /\ n \notin m.checks /\ m.follows[n] = {t.d} /\ m.remaining[n] = 0
        /\ \A v \in LinksOf(m, n) :
             ~Counts(v.x) /\ (Live(m, v) /\ v.a = t.a => v = t)
    BY <2>1 DEF AllFit, FiltersFit, FilterFits
  <2>3. ASSUME NEW v \in LinksOf(w, n)
        PROVE  ~Counts(v.x) /\ (Live(w, v) /\ v.a = u.a => v = u)
    <3>1. PICK s \in LinksOf(m, n) : /\ s.x = v.x /\ s.a = v.a /\ s.d = v.d
                                     /\ s = v \/ (s = y /\ v = z)
      BY <1>b DEF LinksOf
    <3>2. Live(w, v) <=> Live(m, s)
      BY <3>1 DEF Live, Went
    <3>3. v \in w.links /\ u \in w.links
      BY DEF LinksOf
    <3>4. Live(w, v) /\ v.a = u.a => s = t
      BY <2>1, <2>2, <3>1, <3>2
    <3> QED  BY <2>1, <2>2, <3>1, <3>3, <3>4
  <2> QED  BY <1>3, <1>4, <2>1, <2>2, <2>3 DEF AllAlike
<1>9. BodiesFit(w)
  BY <1>1, <1>3, <1>4 DEF AllFit, AllAlike, BodiesFit, BodyFits, LinksOf
<1>10. CountsFit(w)
  <2>1. \A n, d : (\E u \in Tokens(m, n) : u.d = d) => (\E u \in Tokens(w, n) : u.d = d)
    BY <1>2
  <2> SUFFICES ASSUME NEW n \in w.derived, Counted(w, n), NEW d \in w.follows[n]
               PROVE  Over(w, d) \/ \E u \in Tokens(w, n) : u.d = d
    BY DEF CountsFit
  <2>2. Over(m, d) \/ \E u \in Tokens(m, n) : u.d = d
    BY <1>3 DEF AllFit, AllAlike, CountsFit
  <2> QED  BY <1>4, <2>1, <2>2
<1>11. WillReject(w)
  BY <1>3, <1>4 DEF AllFit, AllAlike, WillReject, LinksOf
<1>12. WillResolve(w)
  BY <1>0, <1>3, <1>4 DEF AllFit, AllAlike, WillResolve, LinksOf
<1> QED
  BY <1>7, <1>8, <1>9, <1>10, <1>11, <1>12

LEMMA OneWay ==
  ASSUME NEW m, AllFit(m), NEW y \in m.links, Went(m, y.d, y.a)
  PROVE  /\ Live(m, y) /\ y.d \in Deferreds /\ y.a \in Settling /\ y.x.d \in m.derived
         /\ IsLink(y.x) /\ (~Counts(y.x) => y.x.a = y.a) /\ (Counts(y.x) => y.a = "resolve")
BY DEF AllFit, Shape, Live, Links

LEMMA ForwardAll ==
  ASSUME NEW m, NEW w, AllFit(m), AllAlike(m, w), w.remaining = m.remaining,
         w.checks = m.checks, w.bodies = m.bodies, w.went = m.went,
         NEW y \in m.links, ~Counts(y.x), ~Filters(y.x), Went(m, y.d, y.a),
         w.links = m.links \ {y},
         w.fires = m.fires \cup {<<y.x.d, y.a>>}
  PROVE  AllFit(w)
<1> DEFINE n == y.x.d
<1>0. /\ Live(m, y) /\ y.d \in Deferreds /\ y.a \in Settling /\ n \in m.derived
  BY OneWay
<1>1. \A z : Live(w, z) <=> Live(m, z)
  BY DEF Live, Went
<1>2. \A k : Tokens(w, k) = Tokens(m, k)
  BY DEF Tokens, LinksOf, Live, Went
<1>3. \A k, a : /\ Counted(w, k) <=> Counted(m, k)
                /\ Went(w, k, a) <=> Went(m, k, a)
                /\ ToFire(w, k, a) <=> (ToFire(m, k, a) \/ (k = n /\ a = y.a))
  BY <1>2 DEF Counted, Went, ToFire
<1>4. \A k : /\ Over(w, k) <=> Over(m, k)
             /\ Busy(w, k) <=> Busy(m, k)
             /\ Dead(w, k) <=> Dead(m, k)
             /\ \A a : Reason(w, k, a) <=> Reason(m, k, a)
  BY <1>3 DEF AllAlike, Over, Dead, Busy, Reason
<1>5. Shape(w)
  BY <1>0, <1>3 DEF AllFit, AllAlike, Shape
<1>6. SizeFits(w)
  BY <1>2, <1>3, <1>4 DEF AllFit, AllAlike, SizeFits
<1> SUFFICES ASSUME ~m.thrown
             PROVE  /\ LinksFit(w) /\ ReasonsFit(w) /\ FiltersFit(w) /\ BodiesFit(w)
                    /\ CountsFit(w) /\ WillReject(w) /\ WillResolve(w)
  BY <1>5, <1>6 DEF AllFit, AllAlike
<1>7. LinksFit(w)
  BY <1>1 DEF AllFit, AllAlike, LinksFit
<1>8. ReasonsFit(w)
  <2>1. y.d \in m.follows[n] /\ (y.a = "resolve" => m.follows[n] = {y.d})
    BY <1>0 DEF AllFit, LinksFit
  <2>2. y.a \in {"resolve", "reject"}
    BY <1>0 DEF Settling
  <2>3. Reason(m, n, y.a)
    BY <2>1, <2>2 DEF Reason, Dead
  <2> QED  BY <1>3, <1>4, <2>3 DEF AllFit, AllAlike, ReasonsFit
<1>9. FiltersFit(w)
  <2> SUFFICES ASSUME NEW u \in w.links, Live(w, u), Filters(u.x)
               PROVE  LET k == u.x.d
                      IN  /\ ~Over(w, k) /\ ~Busy(w, k) /\ ~ToFire(w, k, u.a)
                          /\ k \notin w.checks /\ w.follows[k] = {u.d} /\ w.remaining[k] = 0
                          /\ \A v \in LinksOf(w, k) :
                               ~Counts(v.x) /\ (Live(w, v) /\ v.a = u.a => v = u)
    BY DEF FiltersFit, FilterFits
  <2>1. u \in m.links /\ Live(m, u) /\ u # y
    BY <1>1
  <2>2. LET k == u.x.d
        IN  /\ ~Over(m, k) /\ ~Busy(m, k) /\ ~ToFire(m, k, u.a)
            /\ k \notin m.checks /\ m.follows[k] = {u.d} /\ m.remaining[k] = 0
            /\ \A v \in LinksOf(m, k) :
                 ~Counts(v.x) /\ (Live(m, v) /\ v.a = u.a => v = u)
    BY <2>1 DEF AllFit, FiltersFit, FilterFits
  <2>3. ~(u.x.d = n /\ u.a = y.a)
    BY <1>0, <2>1, <2>2 DEF LinksOf
  <2>4. \A v \in LinksOf(w, u.x.d) : v \in LinksOf(m, u.x.d)
    BY DEF LinksOf
  <2> QED  BY <1>1, <1>3, <1>4, <2>2, <2>3, <2>4 DEF AllAlike
<1>10. BodiesFit(w)
  <2>1. \A b \in m.bodies : b.d # n
    BY <1>0 DEF AllFit, BodiesFit, BodyFits, LinksOf
  <2>2. ASSUME NEW c \in w.bodies
        PROVE  LET k == c.d
               IN  /\ ~Over(w, k) /\ k \notin w.checks /\ w.remaining[k] = 0
                   /\ \A a \in Settling : ~ToFire(w, k, a)
                   /\ \E d \in Deferreds : w.follows[k] = {d} /\ Went(w, d, c.a)
                   /\ \A u \in LinksOf(w, k) : ~Live(w, u) /\ ~Counts(u.x)
                   /\ \A e \in w.bodies : e.d = k => e = c
    <3>1. LET k == c.d
          IN  /\ ~Over(m, k) /\ k \notin m.checks /\ m.remaining[k] = 0
              /\ \A a \in Settling : ~ToFire(m, k, a)
              /\ \E d \in Deferreds : m.follows[k] = {d} /\ Went(m, d, c.a)
              /\ \A u \in LinksOf(m, k) : ~Live(m, u) /\ ~Counts(u.x)
              /\ \A e \in m.bodies : e.d = k => e = c
      BY DEF AllFit, BodiesFit, BodyFits
    <3>2. \A u \in LinksOf(w, c.d) : u \in LinksOf(m, c.d)
      BY DEF LinksOf
    <3> QED  BY <1>1, <1>3, <1>4, <2>1, <3>1, <3>2 DEF AllAlike
  <2> QED  BY <2>2 DEF BodiesFit, BodyFits
<1>11. CountsFit(w)
  <2>1. CountsFit(m)
    BY DEF AllFit
  <2> QED  BY <1>2, <1>3, <1>4, <2>1 DEF AllAlike, CountsFit
<1>12. WillReject(w)
  BY <1>3, <1>4 DEF AllFit, AllAlike, WillReject, LinksOf
<1>13. WillResolve(w)
  BY <1>3, <1>4 DEF AllFit, AllAlike, WillResolve, LinksOf
<1> QED
  BY <1>7, <1>8, <1>9, <1>10, <1>11, <1>12, <1>13

LEMMA FilterAll ==
  ASSUME NEW m, NEW w, AllFit(m), AllAlike(m, w), w.remaining = m.remaining,
         w.fires = m.fires, w.checks = m.checks, w.went = m.went,
         NEW y \in m.links, Filters(y.x), Went(m, y.d, y.a),
         NEW b, b.d = y.x.d, b.a = y.a,
         w.links = m.links \ {y},
         w.bodies = m.bodies \cup {b}
  PROVE  AllFit(w)
<1> DEFINE n == y.x.d
<1>0. /\ Live(m, y) /\ y.d \in Deferreds /\ y.a \in Settling /\ n \in m.derived
      /\ ~Counts(y.x)
  BY OneWay DEF Filters, Counts
<1>1. \A z : Live(w, z) <=> Live(m, z)
  BY DEF Live, Went
<1>2. \A k : Tokens(w, k) = Tokens(m, k)
  BY <1>0 DEF Tokens, LinksOf, Live, Went
<1>3. \A k, a : /\ Counted(w, k) <=> Counted(m, k)
                /\ Went(w, k, a) <=> Went(m, k, a)
                /\ ToFire(w, k, a) <=> ToFire(m, k, a)
  BY <1>2 DEF Counted, Went, ToFire
<1>4. \A k : /\ Over(w, k) <=> Over(m, k)
             /\ Busy(w, k) <=> (Busy(m, k) \/ k = n)
             /\ Dead(w, k) <=> Dead(m, k)
             /\ \A a : Reason(w, k, a) <=> Reason(m, k, a)
  BY <1>3 DEF AllAlike, Over, Dead, Busy, Reason
<1>5. Shape(w)
  BY <1>0, <1>3 DEF AllFit, AllAlike, Shape
<1>6. SizeFits(w)
  BY <1>2, <1>3, <1>4 DEF AllFit, AllAlike, SizeFits
<1> SUFFICES ASSUME ~m.thrown
             PROVE  /\ LinksFit(w) /\ ReasonsFit(w) /\ FiltersFit(w) /\ BodiesFit(w)
                    /\ CountsFit(w) /\ WillReject(w) /\ WillResolve(w)
  BY <1>5, <1>6 DEF AllFit, AllAlike
<1>7. LinksFit(w)
  BY <1>1 DEF AllFit, AllAlike, LinksFit
<1>8. ReasonsFit(w)
  BY <1>3, <1>4 DEF AllFit, AllAlike, ReasonsFit
<1>a. /\ ~Over(m, n) /\ ~Busy(m, n) /\ ~ToFire(m, n, y.a)
      /\ n \notin m.checks /\ m.follows[n] = {y.d} /\ m.remaining[n] = 0
      /\ \A v \in LinksOf(m, n) :
           ~Counts(v.x) /\ (Live(m, v) /\ v.a = y.a => v = y)
  BY <1>0 DEF AllFit, FiltersFit, FilterFits
(* What would settle it the other way is dead.                             *)
<1>b. /\ \A u \in LinksOf(m, n) : Live(m, u) => u.d = y.d
      /\ \A u \in LinksOf(m, n) : u.a \in Settling
  BY <1>0, <1>a DEF AllFit, LinksFit, LinksOf, Shape, Links
<1>c. \A u \in LinksOf(w, n) : ~Live(m, u)
  <2> SUFFICES ASSUME NEW u \in LinksOf(m, n), Live(m, u)
               PROVE  u = y
    BY DEF LinksOf
  <2>1. u.a = y.a \/ Opposite(u.a) = y.a
    BY <1>0, <1>b, ActionFacts
  <2>2. u.d = y.d
    BY <1>b
  <2>3. Opposite(u.a) # y.a
    BY <2>2 DEF Live
  <2> QED  BY <1>a, <2>1, <2>3
<1>9. FiltersFit(w)
  <2> SUFFICES ASSUME NEW u \in w.links, Live(w, u), Filters(u.x)
               PROVE  LET k == u.x.d
                      IN  /\ ~Over(w, k) /\ ~Busy(w, k) /\ ~ToFire(w, k, u.a)
                          /\ k \notin w.checks /\ w.follows[k] = {u.d} /\ w.remaining[k] = 0
                          /\ \A v \in LinksOf(w, k) :
                               ~Counts(v.x) /\ (Live(w, v) /\ v.a = u.a => v = u)
    BY DEF FiltersFit, FilterFits
  <2>1. u \in m.links /\ Live(m, u) /\ u.x.d # n
    BY <1>1, <1>c DEF LinksOf
  <2>2. LET k == u.x.d
        IN  /\ ~Over(m, k) /\ ~Busy(m, k) /\ ~ToFire(m, k, u.a)
            /\ k \notin m.checks /\ m.follows[k] = {u.d} /\ m.remaining[k] = 0
            /\ \A v \in LinksOf(m, k) :
                 ~Counts(v.x) /\ (Live(m, v) /\ v.a = u.a => v = u)
    BY <2>1 DEF AllFit, FiltersFit, FilterFits
  <2>4. \A v \in LinksOf(w, u.x.d) : v \in LinksOf(m, u.x.d)
    BY DEF LinksOf
  <2> QED  BY <1>1, <1>3, <1>4, <2>1, <2>2, <2>4 DEF AllAlike
<1>10. BodiesFit(w)
  <2>1. \A c \in m.bodies : c.d # n
    BY <1>a DEF Busy
  <2>2. \A a \in Settling : ~ToFire(m, n, a)
    <3> SUFFICES ASSUME NEW a \in Settling, ToFire(m, n, a), a # y.a
                 PROVE  FALSE
      BY <1>a
    <3>1. Reason(m, n, a)
      BY <1>0 DEF AllFit, ReasonsFit
    <3>2. Went(m, y.d, a)
      BY <1>a, <3>1 DEF Reason, Dead, Settling
    <3>3. a = Opposite(y.a)
      BY <1>0, ActionFacts
    <3> QED  BY <1>0, <3>2, <3>3 DEF AllFit, Shape
  <2>3. ASSUME NEW c \in w.bodies
        PROVE  LET k == c.d
               IN  /\ ~Over(w, k) /\ k \notin w.checks /\ w.remaining[k] = 0
                   /\ \A a \in Settling : ~ToFire(w, k, a)
                   /\ \E d \in Deferreds : w.follows[k] = {d} /\ Went(w, d, c.a)
                   /\ \A u \in LinksOf(w, k) : ~Live(w, u) /\ ~Counts(u.x)
                   /\ \A e \in w.bodies : e.d = k => e = c
    <3>1. CASE c = b
      <4>1. \A u \in LinksOf(w, n) : u \in LinksOf(m, n)
        BY DEF LinksOf
      <4> QED  BY <1>0, <1>1, <1>3, <1>4, <1>a, <1>c, <2>1, <2>2, <3>1, <4>1 DEF AllAlike
    <3>2. CASE c \in m.bodies
      <4>1. LET k == c.d
            IN  /\ ~Over(m, k) /\ k \notin m.checks /\ m.remaining[k] = 0
                /\ \A a \in Settling : ~ToFire(m, k, a)
                /\ \E d \in Deferreds : m.follows[k] = {d} /\ Went(m, d, c.a)
                /\ \A u \in LinksOf(m, k) : ~Live(m, u) /\ ~Counts(u.x)
                /\ \A e \in m.bodies : e.d = k => e = c
        BY <3>2 DEF AllFit, BodiesFit, BodyFits
      <4>2. \A u \in LinksOf(w, c.d) : u \in LinksOf(m, c.d)
        BY DEF LinksOf
      <4> QED  BY <1>1, <1>3, <1>4, <2>1, <3>2, <4>1, <4>2 DEF AllAlike
    <3> QED  BY <3>1, <3>2
  <2> QED  BY <2>3 DEF BodiesFit, BodyFits
<1>11. CountsFit(w)
  BY <1>2, <1>3, <1>4 DEF AllFit, AllAlike, CountsFit
<1>12. WillReject(w)
  BY <1>3, <1>4 DEF AllFit, AllAlike, WillReject, LinksOf
<1>13. WillResolve(w)
  BY <1>3, <1>4 DEF AllFit, AllAlike, WillResolve, LinksOf
<1> QED
  BY <1>7, <1>8, <1>9, <1>10, <1>11, <1>12, <1>13

LEMMA CountAll ==
  ASSUME NEW m, NEW w, AllFit(m), AllAlike(m, w),
         w.checks = m.checks, w.bodies = m.bodies, w.went = m.went,
         NEW y \in m.links, Counts(y.x), Went(m, y.d, y.a),
         w.links = m.links \ {y},
         w.remaining[y.x.d] = m.remaining[y.x.d] - 1,
         \A k \in Deferreds : k # y.x.d => w.remaining[k] = m.remaining[k],
         w.fires = IF m.remaining[y.x.d] = 1
                   THEN m.fires \cup {<<y.x.d, "resolve">>} ELSE m.fires
  PROVE  AllFit(w)
<1> DEFINE n == y.x.d
<1>0. /\ Live(m, y) /\ y.d \in Deferreds /\ y.a = "resolve" /\ n \in m.derived
      /\ y \in LinksOf(m, n) /\ y \in Tokens(m, n)
  BY OneWay DEF Tokens, LinksOf
<1>e. /\ \A k \in m.derived : k # n => w.remaining[k] = m.remaining[k]
      /\ \A u \in m.links : u.x.d \in m.derived
      /\ \A b \in m.bodies : b.d \in m.derived
  BY DEF AllFit, Shape
<1>1. \A z : Live(w, z) <=> Live(m, z)
  BY DEF Live, Went
<1>2. /\ Tokens(w, n) = Tokens(m, n) \ {y}
      /\ \A k : k # n => Tokens(w, k) = Tokens(m, k)
      /\ \A k : Tokens(w, k) \subseteq Tokens(m, k)
  BY <1>1 DEF Tokens, LinksOf
<1>3. \A k, a : /\ Counted(w, k) => Counted(m, k)
                /\ Went(w, k, a) <=> Went(m, k, a)
                /\ ToFire(m, k, a) => ToFire(w, k, a)
                /\ ToFire(w, k, a) =>
                     \/ ToFire(m, k, a)
                     \/ k = n /\ a = "resolve" /\ m.remaining[n] = 1
  BY <1>2 DEF Counted, Went, ToFire
<1>4. \A k : /\ Over(w, k) <=> Over(m, k)
             /\ Busy(w, k) <=> Busy(m, k)
             /\ Dead(w, k) <=> Dead(m, k)
             /\ \A a : Reason(w, k, a) <=> Reason(m, k, a)
  BY <1>3 DEF AllAlike, Over, Dead, Busy, Reason
<1>5. Shape(w)
  <2>1. w.fires \subseteq m.derived \X Settling
    BY <1>0 DEF AllFit, Shape, Settling
  <2> QED  BY <1>0, <1>3, <2>1 DEF AllFit, AllAlike, Shape
<1>a. PICK r \in 0 .. 2 :
        /\ Size(Tokens(m, n), r) /\ r <= m.remaining[n] /\ m.remaining[n] \in 0 .. 2
        /\ ~m.thrown => /\ Counted(m, n) /\ Dead(m, n) => r < m.remaining[n]
                        /\ ~Dead(m, n) => r = m.remaining[n]
  BY <1>0 DEF AllFit, SizeFits
<1>b. r >= 1 /\ r - 1 \in 0 .. 2 /\ Size(Tokens(w, n), r - 1)
  BY <1>0, <1>2, <1>a, SizeLess
<1>c. Counted(m, n)
  BY <1>0 DEF Counted
<1>6. SizeFits(w)
  <2> SUFFICES ASSUME NEW k \in w.derived
               PROVE  \E q \in 0 .. 2 :
                 /\ Size(Tokens(w, k), q) /\ q <= w.remaining[k]
                 /\ w.remaining[k] \in 0 .. 2
                 /\ ~w.thrown => /\ Counted(w, k) /\ Dead(w, k) => q < w.remaining[k]
                                 /\ ~Dead(w, k) => q = w.remaining[k]
    BY DEF SizeFits
  <2>1. CASE k = n
    <3>1. /\ r - 1 <= w.remaining[n] /\ w.remaining[n] \in 0 .. 2
          /\ r < m.remaining[n] => r - 1 < w.remaining[n]
          /\ r = m.remaining[n] => r - 1 = w.remaining[n]
      BY <1>a, <1>b
    <3> QED  BY <1>4, <1>a, <1>b, <1>c, <2>1, <3>1 DEF AllAlike
  <2>2. CASE k # n
    <3>1. SizeFits(m) /\ k \in m.derived
      BY DEF AllFit, AllAlike
    <3> QED  BY <1>2, <1>3, <1>4, <1>e, <2>2, <3>1 DEF AllAlike, SizeFits
  <2> QED  BY <2>1, <2>2
<1> SUFFICES ASSUME ~m.thrown
             PROVE  /\ LinksFit(w) /\ ReasonsFit(w) /\ FiltersFit(w) /\ BodiesFit(w)
                    /\ CountsFit(w) /\ WillReject(w) /\ WillResolve(w)
  BY <1>5, <1>6 DEF AllFit, AllAlike
<1>7. LinksFit(w)
  BY <1>1 DEF AllFit, AllAlike, LinksFit
(* The last one is counted when all of them were resolved.                 *)
<1>d. m.remaining[n] = 1 => Reason(m, n, "resolve")
  <2> SUFFICES ASSUME m.remaining[n] = 1, NEW d \in m.follows[n]
               PROVE  Went(m, d, "resolve")
    BY DEF Reason
  <2>1. ~Dead(m, n) /\ r = 1
    BY <1>a, <1>b, <1>c
  <2>2. Tokens(m, n) = {y}
    BY <1>0, <1>a, <2>1 DEF Size
  <2>3. Over(m, d) \/ d = y.d
    BY <1>0, <1>c, <2>2 DEF AllFit, CountsFit
  <2>4. CASE d = y.d
    BY <1>0, <2>4
  <2>5. CASE Over(m, d)
    BY <2>1, <2>5 DEF Over, Dead, Settling
  <2> QED  BY <2>3, <2>4, <2>5
<1>8. ReasonsFit(w)
  <2>1. ReasonsFit(m)
    BY DEF AllFit
  <2> SUFFICES ASSUME NEW k \in w.derived, NEW a \in Settling,
                      ToFire(w, k, a) \/ Went(w, k, a)
               PROVE  Reason(w, k, a)
    BY DEF ReasonsFit
  <2>2. \/ ToFire(m, k, a) \/ Went(m, k, a)
        \/ k = n /\ a = "resolve" /\ m.remaining[n] = 1
    BY <1>3
  <2>3. Reason(m, k, a)
    BY <1>d, <2>1, <2>2 DEF ReasonsFit, AllAlike
  <2> QED  BY <1>4, <2>3
<1>9. FiltersFit(w)
  <2> SUFFICES ASSUME NEW u \in w.links, Live(w, u), Filters(u.x)
               PROVE  LET k == u.x.d
                      IN  /\ ~Over(w, k) /\ ~Busy(w, k) /\ ~ToFire(w, k, u.a)
                          /\ k \notin w.checks /\ w.follows[k] = {u.d}
                          /\ w.remaining[k] = 0
                          /\ \A v \in LinksOf(w, k) :
                               ~Counts(v.x) /\ (Live(w, v) /\ v.a = u.a => v = u)
    BY DEF FiltersFit, FilterFits
  <2>1. u \in m.links /\ Live(m, u)
    BY <1>1
  <2>2. LET k == u.x.d
        IN  /\ ~Over(m, k) /\ ~Busy(m, k) /\ ~ToFire(m, k, u.a)
            /\ k \notin m.checks /\ m.follows[k] = {u.d}
            /\ m.remaining[k] = 0
            /\ \A v \in LinksOf(m, k) :
                 ~Counts(v.x) /\ (Live(m, v) /\ v.a = u.a => v = u)
    BY <2>1 DEF AllFit, FiltersFit, FilterFits
  <2>3. u.x.d # n
    BY <1>0, <2>2
  <2>4. \A v \in LinksOf(w, u.x.d) : v \in LinksOf(m, u.x.d)
    BY DEF LinksOf
  <2>5. w.remaining[u.x.d] = m.remaining[u.x.d]
    BY <1>e, <2>1, <2>3
  <2> QED  BY <1>1, <1>3, <1>4, <2>2, <2>3, <2>4, <2>5 DEF AllAlike
<1>10. BodiesFit(w)
  <2>1. \A b \in m.bodies : b.d # n
    BY <1>0 DEF AllFit, BodiesFit, BodyFits
  <2>2. ASSUME NEW c \in w.bodies
        PROVE  LET k == c.d
               IN  /\ ~Over(w, k) /\ k \notin w.checks /\ w.remaining[k] = 0
                   /\ \A a \in Settling : ~ToFire(w, k, a)
                   /\ \E d \in Deferreds : w.follows[k] = {d} /\ Went(w, d, c.a)
                   /\ \A u \in LinksOf(w, k) : ~Live(w, u) /\ ~Counts(u.x)
                   /\ \A e \in w.bodies : e.d = k => e = c
    <3>1. LET k == c.d
          IN  /\ ~Over(m, k) /\ k \notin m.checks /\ m.remaining[k] = 0
              /\ \A a \in Settling : ~ToFire(m, k, a)
              /\ \E d \in Deferreds : m.follows[k] = {d} /\ Went(m, d, c.a)
              /\ \A u \in LinksOf(m, k) : ~Live(m, u) /\ ~Counts(u.x)
              /\ \A e \in m.bodies : e.d = k => e = c
      BY DEF AllFit, BodiesFit, BodyFits
    <3>2. \A u \in LinksOf(w, c.d) : u \in LinksOf(m, c.d)
      BY DEF LinksOf
    <3>3. c.d # n /\ w.remaining[c.d] = m.remaining[c.d]
      BY <1>e, <2>1
    <3> QED  BY <1>1, <1>3, <1>4, <2>1, <3>1, <3>2, <3>3 DEF AllAlike
  <2> QED  BY <2>2 DEF BodiesFit, BodyFits
<1>11. CountsFit(w)
  <2>1. CountsFit(m)
    BY DEF AllFit
  <2> SUFFICES ASSUME NEW k \in w.derived, Counted(w, k), NEW d \in w.follows[k]
               PROVE  Over(w, d) \/ \E u \in Tokens(w, k) : u.d = d
    BY DEF CountsFit
  <2>2. Over(m, d) \/ \E u \in Tokens(m, k) : u.d = d
    <3>1. k \in m.derived /\ d \in m.follows[k]
      BY DEF AllAlike
    <3>2. Counted(m, k)
      BY <1>3
    <3> QED  BY ONLY <2>1, <3>1, <3>2 DEF CountsFit
  <2>3. Over(m, y.d)
    BY DEF Over, Settling, AllFit, Shape, Links
  <2> QED  BY <1>2, <1>4, <2>2, <2>3
<1>12. WillReject(w)
  <2>1. WillReject(m)
    BY DEF AllFit
  <2>2. \A k : \A z \in LinksOf(m, k) : z.a = "reject" => z \in LinksOf(w, k)
    BY <1>0 DEF LinksOf
  <2> QED  BY <1>3, <1>4, <2>1, <2>2 DEF AllAlike, WillReject
<1>13. WillResolve(w)
  <2>1. WillResolve(m)
    BY DEF AllFit
  <2>2. \A k : \A z \in LinksOf(m, k) : ~Counts(z.x) => z \in LinksOf(w, k)
    BY DEF LinksOf
  <2>3. ToFire(w, n, "resolve") \/ w.remaining[n] > 0
    <3>1. CASE m.remaining[n] = 1
      BY <3>1 DEF ToFire
    <3>2. CASE m.remaining[n] # 1
      BY <1>a, <1>b, <3>2
    <3> QED  BY <3>1, <3>2
  <2>4. \A k \in m.derived : k # n => w.remaining[k] = m.remaining[k]
    BY <1>e
  <2> SUFFICES ASSUME NEW k \in w.derived, k # n
               PROVE  \/ Dead(w, k) \/ Over(w, k) \/ Busy(w, k)
                      \/ ToFire(w, k, "resolve")
                      \/ k \in w.checks \/ w.remaining[k] > 0
                      \/ \E z \in LinksOf(w, k) :
                           z.d \in w.follows[k] /\ z.a = "resolve" /\ ~Counts(z.x)
    BY <2>3 DEF WillResolve
  <2> QED  BY <1>3, <1>4, <2>1, <2>2, <2>4 DEF AllAlike, WillResolve
<1> QED
  BY <1>7, <1>8, <1>9, <1>10, <1>11, <1>12, <1>13

(* A deferred goes one way: it is settled.                                 *)
LEMMA WentAll ==
  ASSUME NEW m, NEW w, AllFit(m), AllAlike(m, w), w.remaining = m.remaining,
         w.fires = m.fires, w.checks = m.checks, w.bodies = m.bodies,
         w.links = m.links,
         NEW d \in Deferreds, NEW a \in Settling, ~Over(m, d),
         \/ d \notin m.derived
         \/ ToFire(m, d, a)
         \/ a = "resolve" /\ d \in m.checks /\ m.remaining[d] = 0,
         w.went = m.went \cup {<<d, a>>}
  PROVE  AllFit(w)
<1>1. \A e, b : Went(w, e, b) <=> Went(m, e, b) \/ (e = d /\ b = a)
  BY DEF Went
<1>2. /\ \A e : Over(w, e) <=> Over(m, e) \/ e = d
      /\ \A e : Busy(w, e) <=> Busy(m, e)
      /\ \A e, b : ToFire(w, e, b) <=> ToFire(m, e, b)
      /\ \A e : LinksOf(w, e) = LinksOf(m, e)
  BY <1>1 DEF Over, Busy, ToFire, LinksOf
<1>3. /\ \A y : Live(w, y) => Live(m, y)
      /\ \A y : Live(m, y) => Live(w, y) \/ (y.d = d /\ a = Opposite(y.a))
  BY <1>1 DEF Live
<1>4. \A n \in m.derived :
        /\ Dead(m, n) => Dead(w, n)
        /\ Dead(w, n) => Dead(m, n) \/ (a = "reject" /\ d \in m.follows[n])
        /\ \A b : Reason(m, n, b) => Reason(w, n, b)
  BY <1>1 DEF AllAlike, Dead, Reason
<1>5. Shape(w)
  <2>1. Shape(m)
    BY DEF AllFit
  <2>2. w.went \subseteq Deferreds \X Settling
    BY <2>1 DEF Shape
  <2>3. \A e \in Deferreds, b \in Settling : Went(w, e, b) => ~Went(w, e, Opposite(b))
    <3> SUFFICES ASSUME NEW e \in Deferreds, NEW b \in Settling, Went(w, e, b)
                 PROVE  ~Went(w, e, Opposite(b))
      OBVIOUS
    <3>1. Opposite(b) \in Settling /\ Opposite(b) # b
      BY ActionFacts
    <3> QED  BY <1>1, <2>1, <3>1 DEF Shape, Over
  <2> QED  BY <2>1, <2>2, <2>3 DEF Shape, AllAlike
<1>6. \A n : Tokens(w, n) \subseteq Tokens(m, n)
  BY <1>2, <1>3 DEF Tokens
<1>7. \A n : Counted(w, n) => Counted(m, n)
  BY <1>6 DEF Counted
<1>8. \A n : \A y \in Tokens(m, n) :
        /\ y \in Tokens(w, n) \/ (y.d = d /\ a = "reject")
        /\ y.d = d /\ a = "reject" => y \notin Tokens(w, n)
  <2> TAKE n
  <2> TAKE y \in Tokens(m, n)
  <2>1. y.a = "resolve" /\ Opposite(y.a) = "reject"
    BY DEF Tokens, LinksOf, AllFit, Shape, Opposite
  <2> QED  BY <1>1, <1>2, <1>3, <2>1 DEF Tokens, Live
<1>9. ~m.thrown => \A n \in m.derived : \A y \in Tokens(m, n) : y.d \in m.follows[n]
  BY DEF AllFit, LinksFit, Tokens, LinksOf
<1>10. SizeFits(w)
  <2> SUFFICES ASSUME NEW n \in w.derived
               PROVE  \E r \in 0 .. 2 :
                 /\ Size(Tokens(w, n), r) /\ r <= w.remaining[n]
                 /\ w.remaining[n] \in 0 .. 2
                 /\ ~w.thrown => /\ Counted(w, n) /\ Dead(w, n) => r < w.remaining[n]
                                 /\ ~Dead(w, n) => r = w.remaining[n]
    BY DEF SizeFits
  <2>1. PICK r \in 0 .. 2 :
           /\ Size(Tokens(m, n), r) /\ r <= m.remaining[n]
           /\ m.remaining[n] \in 0 .. 2
           /\ ~m.thrown => /\ Counted(m, n) /\ Dead(m, n) => r < m.remaining[n]
                           /\ ~Dead(m, n) => r = m.remaining[n]
    BY DEF AllFit, SizeFits, AllAlike
  <2>2. PICK k \in 0 .. r :
           Size(Tokens(w, n), k) /\ (Tokens(w, n) # Tokens(m, n) => k < r)
    BY <1>6, <2>1, SizeShrinks
  <2>3. k \in 0 .. 2 /\ k <= m.remaining[n]
    BY <2>1, <2>2
  <2>4. ASSUME ~w.thrown, Counted(w, n), Dead(w, n)
        PROVE  k < m.remaining[n]
    <3>1. CASE Dead(m, n)
      BY <1>7, <2>1, <2>2, <2>4, <3>1 DEF AllAlike
    <3>2. CASE ~Dead(m, n)
      <4>1. a = "reject" /\ d \in m.follows[n]
        BY <1>4, <2>4, <3>2 DEF AllAlike
      <4>2. PICK y \in Tokens(m, n) : y.d = d
        BY <1>7, <2>4, <4>1 DEF AllFit, CountsFit, AllAlike
      <4>3. Tokens(w, n) # Tokens(m, n)
        BY <1>8, <4>1, <4>2
      <4> QED  BY <2>1, <2>2, <4>3
    <3> QED  BY <3>1, <3>2
  <2>5. ASSUME ~w.thrown, ~Dead(w, n)
        PROVE  k = m.remaining[n]
    <3>1. ~Dead(m, n) /\ ~(a = "reject" /\ d \in m.follows[n])
      BY <1>1, <1>4, <2>5 DEF AllAlike, Dead
    <3>2. Tokens(w, n) = Tokens(m, n)
      BY <1>6, <1>8, <1>9, <2>5, <3>1 DEF AllAlike
    <3> QED  BY <2>1, <2>2, <2>5, <3>1, <3>2, SizeSame DEF AllAlike
  <2> QED  BY <2>1, <2>2, <2>3, <2>4, <2>5
<1> SUFFICES ASSUME ~m.thrown
             PROVE  /\ LinksFit(w) /\ ReasonsFit(w) /\ FiltersFit(w) /\ BodiesFit(w)
                    /\ CountsFit(w) /\ WillReject(w) /\ WillResolve(w)
  BY <1>5, <1>10 DEF AllFit, AllAlike
<1>11. LinksFit(w)
  BY <1>3 DEF AllFit, AllAlike, LinksFit
(* What it goes by gave a reason.                                          *)
<1>12. d \in m.derived => Reason(m, d, a)
  <2>1. CASE ToFire(m, d, a)
    BY <2>1 DEF AllFit, ReasonsFit
  <2>2. ASSUME d \in m.derived, a = "resolve", d \in m.checks, m.remaining[d] = 0
        PROVE  Reason(m, d, a)
    <3>1. PICK r \in 0 .. 2 :
             /\ Size(Tokens(m, d), r) /\ r <= m.remaining[d]
             /\ Counted(m, d) /\ Dead(m, d) => r < m.remaining[d]
      BY <2>2 DEF AllFit, SizeFits
    <3>2. r = 0 /\ ~Dead(m, d) /\ Counted(m, d)
      BY <2>2, <3>1 DEF Counted
    <3>3. Tokens(m, d) = {}
      BY <3>1, <3>2 DEF Size
    <3>4. \A e \in m.follows[d] : Over(m, e)
      BY <2>2, <3>2, <3>3 DEF AllFit, CountsFit
    <3> QED  BY <2>2, <3>2, <3>4 DEF Reason, Dead, Over, Settling
  <2> QED  BY <2>1, <2>2
<1>13. ReasonsFit(w)
  BY <1>1, <1>2, <1>4, <1>12 DEF AllFit, AllAlike, ReasonsFit
<1>14. FiltersFit(w)
  <2> SUFFICES ASSUME NEW u \in w.links, Live(w, u), Filters(u.x)
               PROVE  FilterFits(w, u)
    BY DEF FiltersFit
  <2>1. u \in m.links /\ FilterFits(m, u)
    BY <1>3 DEF AllFit, FiltersFit
  <2>2. u.x.d # d
    <3> SUFFICES ASSUME u.x.d = d
                 PROVE  FALSE
      OBVIOUS
    <3>1. d \in m.derived /\ u.a \in Settling
      BY <2>1 DEF AllFit, Shape, Links
    <3>2. ToFire(m, d, a) /\ a # u.a
      BY <2>1, <3>1 DEF FilterFits
    <3>3. Went(m, u.d, a)
      BY <1>12, <2>1, <3>1 DEF FilterFits, Reason, Dead, Settling
    <3>4. a = Opposite(u.a)
      BY <3>1, <3>2, ActionFacts
    <3> QED  BY <1>3, <3>3, <3>4 DEF Live
  <2> QED  BY <1>2, <1>3, <2>1, <2>2, FilterSame DEF AllAlike
<1>15. BodiesFit(w)
  <2> SUFFICES ASSUME NEW b \in m.bodies
               PROVE  BodyFits(w, b)
    BY DEF BodiesFit
  <2>1. BodyFits(m, b) /\ b.d \in m.derived
    BY DEF AllFit, BodiesFit, Shape
  <2>2. b.d # d
    BY <2>1 DEF BodyFits
  <2> QED  BY <1>1, <1>2, <1>3, <2>1, <2>2, BodySame DEF AllAlike
<1>16. CountsFit(w)
  <2> SUFFICES ASSUME NEW n \in w.derived, Counted(w, n), NEW e \in w.follows[n]
               PROVE  Over(w, e) \/ \E u \in Tokens(w, n) : u.d = e
    BY DEF CountsFit
  <2>1. Over(m, e) \/ \E u \in Tokens(m, n) : u.d = e
    BY <1>7 DEF AllFit, CountsFit, AllAlike
  <2> QED  BY <1>2, <1>8, <2>1
<1>17. WillReject(w)
  BY <1>1, <1>2 DEF AllFit, AllAlike, WillReject
<1>18. WillResolve(w)
  BY <1>2, <1>4 DEF AllFit, AllAlike, WillResolve
<1> QED
  BY <1>11, <1>13, <1>14, <1>15, <1>16, <1>17, <1>18

(* An action that comes too late does nothing, nor does a check before     *)
(* everything was counted.                                                 *)
LEMMA LateAll ==
  ASSUME NEW m, NEW w, AllFit(m), AllAlike(m, w), w.remaining = m.remaining,
         w.links = m.links, w.bodies = m.bodies, w.went = m.went,
         w.fires \subseteq m.fires, w.checks \subseteq m.checks,
         \A n, a : ToFire(m, n, a) /\ ~ToFire(w, n, a) => Over(m, n),
         \A n \in m.checks \ w.checks : Over(m, n) \/ m.remaining[n] > 0
  PROVE  AllFit(w)
<1>1. \A e, b : /\ Went(w, e, b) <=> Went(m, e, b)
                /\ ToFire(w, e, b) => ToFire(m, e, b)
  BY DEF Went, ToFire
<1>2. /\ \A e : Over(w, e) <=> Over(m, e)
      /\ \A e : Busy(w, e) <=> Busy(m, e)
      /\ \A e : LinksOf(w, e) = LinksOf(m, e)
      /\ \A y : Live(w, y) <=> Live(m, y)
  BY <1>1 DEF Over, Busy, LinksOf, Live
<1>3. /\ \A e : Dead(w, e) <=> Dead(m, e)
      /\ \A e, b : Reason(w, e, b) <=> Reason(m, e, b)
      /\ \A e : Tokens(w, e) = Tokens(m, e)
  BY <1>1, <1>2 DEF AllAlike, Dead, Reason, Tokens
<1>4. \A e : Counted(w, e) => Counted(m, e)
  BY <1>3 DEF Counted
<1>5. Shape(w)
  BY <1>1 DEF AllFit, AllAlike, Shape
<1>6. SizeFits(w)
  <2>1. SizeFits(m)
    BY DEF AllFit
  <2> QED  BY <1>3, <1>4, <2>1 DEF AllAlike, SizeFits
<1> SUFFICES ASSUME ~m.thrown
             PROVE  /\ LinksFit(w) /\ ReasonsFit(w) /\ FiltersFit(w) /\ BodiesFit(w)
                    /\ CountsFit(w) /\ WillReject(w) /\ WillResolve(w)
  BY <1>5, <1>6 DEF AllFit, AllAlike
<1>7. LinksFit(w) /\ ReasonsFit(w)
  BY <1>1, <1>2, <1>3 DEF AllFit, AllAlike, LinksFit, ReasonsFit
<1>8. FiltersFit(w)
  <2> SUFFICES ASSUME NEW u \in w.links, Live(w, u), Filters(u.x)
               PROVE  FilterFits(w, u)
    BY DEF FiltersFit
  <2>1. u \in m.links /\ FilterFits(m, u)
    BY <1>2 DEF AllFit, FiltersFit
  <2> QED  BY <1>1, <1>2, <2>1, FilterSame DEF AllAlike
<1>9. BodiesFit(w)
  <2> SUFFICES ASSUME NEW b \in m.bodies
               PROVE  BodyFits(w, b)
    BY DEF BodiesFit
  <2>1. BodyFits(m, b)
    BY DEF AllFit, BodiesFit
  <2> QED  BY <1>1, <1>2, <2>1, BodySame DEF AllAlike
<1>10. CountsFit(w)
  <2>1. CountsFit(m)
    BY DEF AllFit
  <2> QED  BY <1>2, <1>3, <1>4, <2>1 DEF AllAlike, CountsFit
<1>11. WillReject(w)
  <2>1. WillReject(m)
    BY DEF AllFit
  <2> QED  BY <1>1, <1>2, <2>1 DEF AllAlike, WillReject
<1>12. WillResolve(w)
  <2>1. WillResolve(m)
    BY DEF AllFit
  <2> QED  BY <1>1, <1>2, <1>3, <2>1 DEF AllAlike, WillResolve
<1> QED
  BY <1>7, <1>8, <1>9, <1>10, <1>11, <1>12

(* A deferred that nothing will settle is made to go by others: one that   *)
(* then() or when() makes, or one whose filter returns a promise.          *)
GoesBy(m, w, n, N) ==
  /\ ~Over(m, n) /\ n \notin m.checks /\ n \in Deferreds
  /\ \A a : ~ToFire(m, n, a)
  /\ \A y \in LinksOf(m, n) : ~Live(m, y) /\ ~Counts(y.x)
  /\ w.derived = m.derived \cup {n} /\ w.thrown = m.thrown /\ w.went = m.went
  /\ w.fires = m.fires /\ w.checks \in {m.checks, m.checks \cup {n}}
  /\ w.bodies \subseteq m.bodies
  /\ \A b \in m.bodies : b \in w.bodies <=> b.d # n
  /\ \A k \in Deferreds : k # n =>
       w.follows[k] = m.follows[k] /\ w.remaining[k] = m.remaining[k]
  /\ w.follows[n] # {} /\ w.follows[n] \subseteq Deferreds
  /\ w.links = m.links \cup N /\ N \subseteq Links
  /\ \A z \in N : /\ z.x.d = n /\ IsLink(z.x)
                  /\ IF Counts(z.x) THEN z.a = "resolve" ELSE z.x.a = z.a

Counting(m, N) == {z \in N : Counts(z.x) /\ Live(m, z)}

LEMMA GoesByAll ==
  ASSUME NEW m, NEW w, NEW n, NEW N, AllFit(m), GoesBy(m, w, n, N),
         \E r \in 0 .. 2 :
           /\ Size(Counting(m, N), r)
           /\ r <= w.remaining[n] /\ w.remaining[n] \in 0 .. 2
           /\ ~m.thrown => /\ Counted(w, n) /\ Dead(w, n) => r < w.remaining[n]
                           /\ ~Dead(w, n) => r = w.remaining[n],
         \A z \in N : Live(m, z) =>
           /\ z.d \in w.follows[n]
           /\ ~Counts(z.x) /\ z.a = "resolve" => w.follows[n] = {z.d},
         \A z \in N : Live(m, z) /\ Filters(z.x) =>
           /\ n \notin w.checks /\ w.follows[n] = {z.d} /\ w.remaining[n] = 0
           /\ \A v \in N : ~Counts(v.x) /\ (Live(m, v) /\ v.a = z.a => v = z),
         Counted(w, n) => \A d \in w.follows[n] :
           Over(m, d) \/ \E z \in N : Counts(z.x) /\ Live(m, z) /\ z.d = d,
         \A d \in w.follows[n] : \E z \in N : z.d = d /\ z.a = "reject",
         \/ n \in w.checks
         \/ \E z \in N : z.d \in w.follows[n] /\ z.a = "resolve" /\ ~Counts(z.x)
  PROVE  AllFit(w)
<1>1. \A e, b : /\ Went(w, e, b) <=> Went(m, e, b)
                /\ ToFire(w, e, b) <=> ToFire(m, e, b)
  BY DEF GoesBy, Went, ToFire
<1>2. /\ \A e : Over(w, e) <=> Over(m, e)
      /\ \A e : Busy(w, e) => Busy(m, e) /\ e # n
      /\ \A e : e # n => (Busy(w, e) <=> Busy(m, e))
      /\ \A y : Live(w, y) <=> Live(m, y)
      /\ \A e : e # n => LinksOf(w, e) = LinksOf(m, e)
      /\ LinksOf(w, n) = LinksOf(m, n) \cup N
      /\ \A e : e # n => (e \in w.checks <=> e \in m.checks)
  BY <1>1 DEF GoesBy, Over, Busy, LinksOf, Live
<1>3. /\ \A e \in Deferreds : e # n => (Dead(w, e) <=> Dead(m, e))
      /\ \A e \in Deferreds : e # n => \A b : Reason(w, e, b) <=> Reason(m, e, b)
  BY <1>1 DEF GoesBy, Dead, Reason
<1>4. /\ \A e : e # n => Tokens(w, e) = Tokens(m, e)
      /\ Tokens(w, n) = Counting(m, N)
  BY <1>2 DEF GoesBy, Tokens, Counting
<1>5. \A e : e # n => (Counted(w, e) <=> Counted(m, e))
  BY <1>2, <1>4 DEF Counted
<1>6. /\ \A e \in w.derived : e # n => e \in m.derived
      /\ \A e \in w.derived : e \in Deferreds
      /\ \A u \in m.links : u.x.d \in Deferreds
      /\ \A b \in m.bodies : b.d \in Deferreds
      /\ \A e \in m.derived : e \in Deferreds
  BY DEF GoesBy, AllFit, Shape
<1>7. Shape(w)
  <2>1. Shape(m)
    BY DEF AllFit
  <2>2. \A y \in w.links :
          /\ IsLink(y.x) /\ y.x.d \in w.derived
          /\ IF Counts(y.x) THEN y.a = "resolve" ELSE y.x.a = y.a
    BY <2>1 DEF GoesBy, Shape
  <2>3. /\ w.links \subseteq Links /\ w.fires \subseteq w.derived \X Settling
        /\ w.checks \subseteq w.derived /\ w.derived \subseteq Deferreds
        /\ w.went \subseteq Deferreds \X Settling /\ w.thrown \in BOOLEAN
    BY <2>1 DEF GoesBy, Shape
  <2>4. /\ \A b \in w.bodies : b.d \in w.derived /\ b.a \in Settling
        /\ \A e \in w.derived : w.follows[e] # {} /\ w.follows[e] \subseteq Deferreds
    BY <2>1 DEF GoesBy, Shape
  <2> QED  BY <1>1, <2>1, <2>2, <2>3, <2>4 DEF Shape
<1>8. SizeFits(w)
  <2>1. SizeFits(m) /\ w.thrown = m.thrown
    BY DEF AllFit, GoesBy
  <2> SUFFICES ASSUME NEW e \in w.derived
               PROVE  \E r \in 0 .. 2 :
                 /\ Size(Tokens(w, e), r) /\ r <= w.remaining[e]
                 /\ w.remaining[e] \in 0 .. 2
                 /\ ~w.thrown => /\ Counted(w, e) /\ Dead(w, e) => r < w.remaining[e]
                                 /\ ~Dead(w, e) => r = w.remaining[e]
    BY DEF SizeFits
  <2>2. CASE e = n
    BY <1>4, <2>1, <2>2
  <2>3. CASE e # n
    <3>1. w.remaining[e] = m.remaining[e] /\ e \in m.derived
      BY <1>6, <2>3 DEF GoesBy
    <3> QED  BY <1>3, <1>4, <1>5, <1>6, <2>1, <2>3, <3>1 DEF SizeFits
  <2> QED  BY <2>2, <2>3
<1> SUFFICES ASSUME ~m.thrown
             PROVE  /\ LinksFit(w) /\ ReasonsFit(w) /\ FiltersFit(w) /\ BodiesFit(w)
                    /\ CountsFit(w) /\ WillReject(w) /\ WillResolve(w)
  BY <1>7, <1>8 DEF AllFit, GoesBy
<1>a. \A y \in w.links : \/ y \in N /\ y.x.d = n
                         \/ y \in m.links /\ y.x.d # n
                         \/ y \in LinksOf(m, n) /\ ~Live(m, y)
  BY DEF GoesBy, LinksOf
<1>9. LinksFit(w)
  <2>1. LinksFit(m)
    BY DEF AllFit
  <2> SUFFICES ASSUME NEW y \in w.links, Live(w, y)
               PROVE  /\ y.d \in w.follows[y.x.d]
                      /\ ~Counts(y.x) /\ y.a = "resolve" => w.follows[y.x.d] = {y.d}
    BY DEF LinksFit
  <2>2. CASE y \in N
    BY <1>2, <2>2 DEF GoesBy
  <2>3. CASE y \in m.links /\ y.x.d # n
    <3>1. w.follows[y.x.d] = m.follows[y.x.d]
      BY <1>6, <2>3 DEF GoesBy
    <3> QED  BY <1>2, <2>1, <2>3, <3>1 DEF LinksFit
  <2> QED  BY <1>2, <1>a, <2>2, <2>3
<1>10. ReasonsFit(w)
  <2>1. ReasonsFit(m)
    BY DEF AllFit
  <2>2. \A a \in Settling : ~ToFire(w, n, a) /\ ~Went(w, n, a)
    BY <1>1 DEF GoesBy, Over
  <2> QED  BY <1>1, <1>3, <1>6, <2>1, <2>2 DEF ReasonsFit
<1>11. FiltersFit(w)
  <2> SUFFICES ASSUME NEW u \in w.links, Live(w, u), Filters(u.x)
               PROVE  FilterFits(w, u)
    BY DEF FiltersFit
  <2>1. CASE u \in N
    <3>1. u.x.d = n /\ Live(m, u)
      BY <1>2, <2>1 DEF GoesBy
    <3>2. /\ ~Over(w, n) /\ ~Busy(w, n) /\ ~ToFire(w, n, u.a)
      BY <1>1, <1>2 DEF GoesBy
    <3>3. \A v \in LinksOf(w, n) :
            ~Counts(v.x) /\ (Live(w, v) /\ v.a = u.a => v = u)
      <4> SUFFICES ASSUME NEW v \in LinksOf(w, n)
                   PROVE  ~Counts(v.x) /\ (Live(w, v) /\ v.a = u.a => v = u)
        OBVIOUS
      <4>1. CASE v \in N
        BY <1>2, <2>1, <3>1, <4>1
      <4>2. CASE v \in LinksOf(m, n)
        BY <1>2, <4>2 DEF GoesBy
      <4> QED  BY <1>2, <4>1, <4>2
    <3> QED  BY <2>1, <3>1, <3>2, <3>3 DEF FilterFits
  <2>2. CASE u \in m.links /\ u.x.d # n
    <3>1. FilterFits(m, u)
      BY <1>2, <2>2 DEF AllFit, FiltersFit
    <3>2. /\ w.follows[u.x.d] = m.follows[u.x.d]
          /\ w.remaining[u.x.d] = m.remaining[u.x.d]
      BY <1>6, <2>2 DEF GoesBy
    <3> QED  BY <1>1, <1>2, <2>2, <3>1, <3>2, FilterSame
  <2> QED  BY <1>2, <1>a, <2>1, <2>2
<1>12. BodiesFit(w)
  <2> SUFFICES ASSUME NEW b \in w.bodies
               PROVE  BodyFits(w, b)
    BY DEF BodiesFit
  <2>1. b \in m.bodies /\ b.d # n /\ BodyFits(m, b)
    BY DEF AllFit, BodiesFit, GoesBy
  <2>2. /\ w.follows[b.d] = m.follows[b.d] /\ w.remaining[b.d] = m.remaining[b.d]
        /\ \A c \in w.bodies : c \in m.bodies
    BY <1>6, <2>1 DEF GoesBy
  <2> QED  BY <1>1, <1>2, <2>1, <2>2, BodySame
<1>13. CountsFit(w)
  <2>1. CountsFit(m)
    BY DEF AllFit
  <2> SUFFICES ASSUME NEW e \in w.derived, Counted(w, e), NEW d \in w.follows[e]
               PROVE  Over(w, d) \/ \E u \in Tokens(w, e) : u.d = d
    BY DEF CountsFit
  <2>2. CASE e = n
    BY <1>2, <1>4, <2>2 DEF Counting
  <2>3. CASE e # n
    <3>1. w.follows[e] = m.follows[e] /\ e \in m.derived
      BY <1>6, <2>3 DEF GoesBy
    <3> QED  BY <1>2, <1>4, <1>5, <2>1, <2>3, <3>1 DEF CountsFit
  <2> QED  BY <2>2, <2>3
<1>14. WillReject(w)
  <2>1. WillReject(m)
    BY DEF AllFit
  <2> SUFFICES ASSUME NEW e \in w.derived, NEW d \in w.follows[e]
               PROVE  \/ Went(w, d, "resolve") \/ Over(w, e) \/ Busy(w, e)
                      \/ ToFire(w, e, "reject")
                      \/ \E y \in LinksOf(w, e) : y.d = d /\ y.a = "reject"
    BY DEF WillReject
  <2>2. CASE e = n
    BY <1>2, <2>2
  <2>3. CASE e # n
    <3>1. w.follows[e] = m.follows[e] /\ e \in m.derived
      BY <1>6, <2>3 DEF GoesBy
    <3> QED  BY <1>1, <1>2, <2>1, <2>3, <3>1 DEF WillReject
  <2> QED  BY <2>2, <2>3
<1>15. WillResolve(w)
  <2>1. WillResolve(m)
    BY DEF AllFit
  <2> SUFFICES ASSUME NEW e \in w.derived
               PROVE  \/ Dead(w, e) \/ Over(w, e) \/ Busy(w, e)
                      \/ ToFire(w, e, "resolve")
                      \/ e \in w.checks \/ w.remaining[e] > 0
                      \/ \E y \in LinksOf(w, e) :
                           y.d \in w.follows[e] /\ y.a = "resolve" /\ ~Counts(y.x)
    BY DEF WillResolve
  <2>2. CASE e = n
    BY <1>2, <2>2
  <2>3. CASE e # n
    <3>1. /\ w.follows[e] = m.follows[e] /\ e \in m.derived
          /\ w.remaining[e] = m.remaining[e]
      BY <1>6, <2>3 DEF GoesBy
    <3> QED  BY <1>1, <1>2, <1>3, <1>6, <2>1, <2>3, <3>1 DEF WillResolve
  <2> QED  BY <2>2, <2>3
<1> QED
  BY <1>9, <1>10, <1>11, <1>12, <1>13, <1>14, <1>15

(* A filter returns a value.                                               *)
LEMMA ValueAll ==
  ASSUME NEW m, NEW w, AllFit(m), AllAlike(m, w), w.remaining = m.remaining,
         w.links = m.links, w.checks = m.checks, w.went = m.went,
         NEW b \in m.bodies, w.bodies = m.bodies \ {b},
         w.fires = m.fires \cup {<<b.d, b.a>>}
  PROVE  AllFit(w)
<1>1. \A e, c : /\ Went(w, e, c) <=> Went(m, e, c)
                /\ ToFire(m, e, c) => ToFire(w, e, c)
                /\ ToFire(w, e, c) => ToFire(m, e, c) \/ (e = b.d /\ c = b.a)
  BY DEF Went, ToFire
<1>2. /\ \A e : Over(w, e) <=> Over(m, e)
      /\ \A e : Busy(w, e) => Busy(m, e)
      /\ \A e : Busy(m, e) => Busy(w, e) \/ e = b.d
      /\ \A e : LinksOf(w, e) = LinksOf(m, e)
      /\ \A y : Live(w, y) <=> Live(m, y)
  BY <1>1 DEF Over, Busy, LinksOf, Live
<1>3. /\ \A e : Dead(w, e) <=> Dead(m, e)
      /\ \A e, c : Reason(w, e, c) <=> Reason(m, e, c)
      /\ \A e : Tokens(w, e) = Tokens(m, e)
  BY <1>1, <1>2 DEF AllAlike, Dead, Reason, Tokens
<1>4. \A e : Counted(w, e) <=> Counted(m, e)
  BY <1>3 DEF Counted
<1>5. Shape(w)
  <2>1. Shape(m)
    BY DEF AllFit
  <2>2. w.fires \subseteq m.derived \X Settling
    BY <2>1 DEF Shape
  <2> QED  BY <1>1, <2>1, <2>2 DEF AllAlike, Shape
<1>6. SizeFits(w)
  <2>1. SizeFits(m)
    BY DEF AllFit
  <2> QED  BY <1>3, <1>4, <2>1 DEF AllAlike, SizeFits
<1> SUFFICES ASSUME ~m.thrown
             PROVE  /\ LinksFit(w) /\ ReasonsFit(w) /\ FiltersFit(w) /\ BodiesFit(w)
                    /\ CountsFit(w) /\ WillReject(w) /\ WillResolve(w)
  BY <1>5, <1>6 DEF AllFit, AllAlike
<1>a. BodyFits(m, b) /\ b.d \in m.derived /\ b.a \in Settling
  BY DEF AllFit, BodiesFit, Shape
<1>b. PICK d \in Deferreds : m.follows[b.d] = {d} /\ Went(m, d, b.a)
  BY <1>a DEF BodyFits
<1>7. LinksFit(w)
  BY <1>1, <1>2, <1>3 DEF AllFit, AllAlike, LinksFit
<1>8. ReasonsFit(w)
  <2>1. ReasonsFit(m)
    BY DEF AllFit
  <2>2. Reason(m, b.d, b.a)
    BY <1>a, <1>b DEF Reason, Dead, Settling
  <2> QED  BY <1>1, <1>3, <2>1, <2>2 DEF AllAlike, ReasonsFit
<1>9. FiltersFit(w)
  <2> SUFFICES ASSUME NEW u \in w.links, Live(w, u), Filters(u.x)
               PROVE  FilterFits(w, u)
    BY DEF FiltersFit
  <2>1. u \in m.links /\ FilterFits(m, u)
    BY <1>2 DEF AllFit, FiltersFit
  <2>2. u.x.d # b.d
    BY <2>1 DEF FilterFits, Busy
  <2> QED  BY <1>1, <1>2, <2>1, <2>2, FilterSame DEF AllAlike
<1>10. BodiesFit(w)
  <2> SUFFICES ASSUME NEW c \in w.bodies
               PROVE  BodyFits(w, c)
    BY DEF BodiesFit
  <2>1. BodyFits(m, c) /\ c \in m.bodies /\ c # b
    BY DEF AllFit, BodiesFit
  <2>2. c.d # b.d
    BY <1>a, <2>1 DEF BodyFits
  <2>3. \A e \in w.bodies : e \in m.bodies
    OBVIOUS
  <2> QED  BY <1>1, <1>2, <2>1, <2>2, <2>3, BodySame DEF AllAlike
<1>11. CountsFit(w)
  <2>1. CountsFit(m)
    BY DEF AllFit
  <2> QED  BY <1>2, <1>3, <1>4, <2>1 DEF AllAlike, CountsFit
<1>12. WillReject(w)
  <2>1. WillReject(m)
    BY DEF AllFit
  <2>2. \A d1 \in m.follows[b.d] : Went(w, d1, "resolve") \/ ToFire(w, b.d, "reject")
    BY <1>1, <1>a, <1>b DEF Settling, ToFire
  <2> SUFFICES ASSUME NEW e \in w.derived, NEW f \in w.follows[e]
               PROVE  \/ Went(w, f, "resolve") \/ Over(w, e) \/ Busy(w, e)
                      \/ ToFire(w, e, "reject")
                      \/ \E y \in LinksOf(w, e) : y.d = f /\ y.a = "reject"
    BY DEF WillReject
  <2>3. CASE e = b.d
    BY <2>2, <2>3 DEF AllAlike
  <2>4. CASE e # b.d
    BY <1>1, <1>2, <2>1, <2>4 DEF AllAlike, WillReject
  <2> QED  BY <2>3, <2>4
<1>13. WillResolve(w)
  <2>1. WillResolve(m)
    BY DEF AllFit
  <2>2. Dead(m, b.d) \/ ToFire(w, b.d, "resolve")
    BY <1>1, <1>a, <1>b DEF Settling, ToFire, Dead
  <2> SUFFICES ASSUME NEW e \in w.derived
               PROVE  \/ Dead(w, e) \/ Over(w, e) \/ Busy(w, e)
                      \/ ToFire(w, e, "resolve")
                      \/ e \in w.checks \/ w.remaining[e] > 0
                      \/ \E y \in LinksOf(w, e) :
                           y.d \in w.follows[e] /\ y.a = "resolve" /\ ~Counts(y.x)
    BY DEF WillResolve
  <2>3. CASE e = b.d
    BY <1>3, <2>2, <2>3 DEF AllAlike
  <2>4. CASE e # b.d
    BY <1>1, <1>2, <1>3, <2>1, <2>4 DEF AllAlike, WillResolve
  <2> QED  BY <2>3, <2>4
<1> QED
  BY <1>7, <1>8, <1>9, <1>10, <1>11, <1>12, <1>13

(* An exception takes what is on the stack.                                *)
LEMMA ThrownAll ==
  ASSUME NEW m, NEW w, AllFit(m), w.derived = m.derived, w.follows = m.follows,
         w.remaining = m.remaining, w.went = m.went, w.thrown = TRUE,
         w.links \subseteq m.links, w.fires = {}, w.checks = {}, w.bodies = {}
  PROVE  AllFit(w)
<1>1. \A e, c : Went(w, e, c) <=> Went(m, e, c)
  BY DEF Went
<1>2. \A n : Tokens(w, n) \subseteq Tokens(m, n)
  BY <1>1 DEF Tokens, LinksOf, Live
<1>3. Shape(w)
  BY <1>1 DEF AllFit, Shape
<1>4. SizeFits(w)
  <2> SUFFICES ASSUME NEW n \in m.derived
               PROVE  \E r \in 0 .. 2 :
                 /\ Size(Tokens(w, n), r) /\ r <= m.remaining[n]
                 /\ m.remaining[n] \in 0 .. 2
    BY DEF SizeFits
  <2>1. PICK r \in 0 .. 2 :
           /\ Size(Tokens(m, n), r) /\ r <= m.remaining[n]
           /\ m.remaining[n] \in 0 .. 2
    BY DEF AllFit, SizeFits
  <2>2. PICK k \in 0 .. r : Size(Tokens(w, n), k)
    BY <1>2, <2>1, SizeShrinks
  <2>3. k \in 0 .. 2 /\ k <= m.remaining[n]
    BY <2>1
  <2> QED  BY <2>1, <2>2, <2>3
<1> QED
  BY <1>3, <1>4 DEF AllFit

(* After an exception only the sizes matter.                               *)
LEMMA ThrownTurnsAll ==
  ASSUME NEW m, NEW w, AllFit(m), m.thrown = TRUE, w.thrown = TRUE,
         w.derived = m.derived, w.went = m.went, w.fires = m.fires,
         w.checks = m.checks, w.bodies \subseteq m.bodies,
         w.remaining = m.remaining,
         NEW N, w.links = m.links \cup N, N \subseteq Links,
         \A z \in N : /\ IsLink(z.x) /\ z.x.d \in m.derived /\ ~Counts(z.x)
                      /\ z.x.a = z.a,
         \A n \in m.derived : w.follows[n] # {} /\ w.follows[n] \subseteq Deferreds
  PROVE  AllFit(w)
<1>1. Shape(m) /\ SizeFits(m)
  BY DEF AllFit
<1>2. Shape(w)
  <2>1. \A d, a : Went(w, d, a) <=> Went(m, d, a)
    BY DEF Went
  <2>2. /\ w.links \subseteq Links
        /\ \A y \in w.links :
             /\ IsLink(y.x) /\ y.x.d \in w.derived
             /\ IF Counts(y.x) THEN y.a = "resolve" ELSE y.x.a = y.a
    BY <1>1 DEF Shape
  <2> QED  BY <1>1, <2>1, <2>2 DEF Shape
<1>3. SizeFits(w)
  <2>1. \A n : Tokens(w, n) = Tokens(m, n)
    BY DEF Tokens, LinksOf, Live, Went
  <2> SUFFICES ASSUME NEW n \in m.derived
               PROVE  \E r \in 0 .. 2 : Size(Tokens(w, n), r) /\ r <= w.remaining[n]
                                        /\ w.remaining[n] \in 0 .. 2
    BY DEF SizeFits
  <2> QED  BY <1>1, <2>1 DEF SizeFits
<1> QED
  BY <1>2, <1>3 DEF AllFit

(* A deferred that a filter for the progress has tied to a promise is      *)
(* settled by whichever comes first.  So what fits is the rest, seen       *)
(* without those that are tied; and of these the sizes, which are all that *)
(* matters after an exception.                                             *)
Torn(m) ==
  [links |-> m.links, fires |-> m.fires, checks |-> m.checks, bodies |-> m.bodies,
   went |-> m.went, follows |-> m.follows, remaining |-> m.remaining,
   derived |-> m.derived, thrown |-> TRUE]
Untied(m) ==
  [links |-> {y \in m.links : y.x.d \notin m.tied},
   fires |-> {u \in m.fires : u[1] \notin m.tied}, checks |-> m.checks \ m.tied,
   bodies |-> {b \in m.bodies : b.d \notin m.tied}, went |-> m.went,
   follows |-> [k \in Deferreds |-> IF k \in m.tied THEN {} ELSE m.follows[k]],
   remaining |-> [k \in Deferreds |-> IF k \in m.tied THEN 0 ELSE m.remaining[k]],
   derived |-> m.derived \ m.tied, thrown |-> m.thrown]
Fits(m) == AllFit(Torn(m)) /\ AllFit(Untied(m))

IsTorn(m, t) ==
  /\ t.links = m.links /\ t.fires = m.fires /\ t.checks = m.checks
  /\ t.bodies = m.bodies /\ t.went = m.went /\ t.follows = m.follows
  /\ t.remaining = m.remaining /\ t.derived = m.derived /\ t.thrown = TRUE
IsUntied(m, u) ==
  /\ u.links = {y \in m.links : y.x.d \notin m.tied}
  /\ u.fires = {f \in m.fires : f[1] \notin m.tied}
  /\ u.checks = m.checks \ m.tied
  /\ u.bodies = {b \in m.bodies : b.d \notin m.tied} /\ u.went = m.went
  /\ u.follows = [k \in Deferreds |-> IF k \in m.tied THEN {} ELSE m.follows[k]]
  /\ u.remaining = [k \in Deferreds |-> IF k \in m.tied THEN 0 ELSE m.remaining[k]]
  /\ u.derived = m.derived \ m.tied /\ u.thrown = m.thrown

LEMMA SeenTwice ==
  ASSUME NEW m
  PROVE  IsTorn(m, Torn(m)) /\ IsUntied(m, Untied(m))
BY DEF IsTorn, IsUntied, Torn, Untied

LEMMA FitsTwice ==
  ASSUME NEW m, Fits(m)
  PROVE  \E t, u : IsTorn(m, t) /\ IsUntied(m, u) /\ AllFit(t) /\ AllFit(u)
BY SeenTwice DEF Fits

LEMMA FitsShape ==
  ASSUME NEW m, Fits(m)
  PROVE  Shape(m)
<1>1. PICK t, u : IsTorn(m, t) /\ IsUntied(m, u) /\ AllFit(t) /\ AllFit(u)
  BY FitsTwice
<1>2. Shape(t) /\ Shape(u)
  BY <1>1 DEF AllFit
<1>3. \A d, a : Went(m, d, a) <=> Went(t, d, a)
  BY <1>1 DEF IsTorn, Went
<1>4. m.thrown \in BOOLEAN
  BY <1>1, <1>2 DEF IsUntied, Shape
<1> QED
  BY <1>1, <1>2, <1>3, <1>4 DEF IsTorn, Shape

(* What keeps all fitting keeps the rest fitting.                          *)
Alike(m, w) == AllAlike(m, w) /\ w.tied = m.tied

LEMMA BothAlike ==
  ASSUME NEW m, NEW w, Alike(m, w), NEW t, IsTorn(m, t), NEW s, IsTorn(w, s),
         NEW u, IsUntied(m, u), NEW v, IsUntied(w, v)
  PROVE  AllAlike(t, s) /\ AllAlike(u, v)
<1>1. AllAlike(t, s)
  BY DEF Alike, AllAlike, IsTorn
<1>2. u.derived = v.derived /\ u.thrown = v.thrown
  BY DEF Alike, AllAlike, IsUntied
<1>3. u.follows = v.follows
  BY DEF Alike, AllAlike, IsUntied
<1> QED
  BY <1>1, <1>2, <1>3 DEF AllAlike

LEMMA DropKeeps ==
  ASSUME NEW m, NEW w, Fits(m), Alike(m, w), w.remaining = m.remaining,
         w.fires = m.fires, w.checks = m.checks, w.bodies = m.bodies,
         w.went = m.went, w.links \subseteq m.links,
         \A y \in m.links \ w.links : ~Live(m, y)
  PROVE  Fits(w)
<1>1. PICK t, u : IsTorn(m, t) /\ IsUntied(m, u) /\ AllFit(t) /\ AllFit(u)
  BY FitsTwice
<1>2. PICK s, v : s = Torn(w) /\ v = Untied(w)
  OBVIOUS
<1>3. IsTorn(w, s) /\ IsUntied(w, v)
  BY <1>2, SeenTwice
<1>4. AllAlike(t, s) /\ AllAlike(u, v)
  BY <1>1, <1>3, BothAlike
<1>5. AllFit(s)
  <2>1. \A y \in t.links \ s.links : ~Live(t, y)
    BY <1>1, <1>3 DEF IsTorn, Live, Went
  <2> QED  BY <1>1, <1>3, <1>4, <2>1, DropAll DEF IsTorn
<1>6. AllFit(v)
  <2>1. /\ v.remaining = u.remaining /\ v.fires = u.fires /\ v.checks = u.checks
        /\ v.bodies = u.bodies /\ v.went = u.went
    BY <1>1, <1>3 DEF IsUntied, Alike
  <2>2. v.links \subseteq u.links /\ \A y \in u.links \ v.links : ~Live(u, y)
    BY <1>1, <1>3 DEF IsUntied, Alike, Live, Went
  <2> QED  BY <1>1, <1>4, <2>1, <2>2, DropAll
<1> QED
  BY <1>2, <1>5, <1>6 DEF Fits

LEMMA MoveKeeps ==
  ASSUME NEW m, NEW w, Fits(m), Alike(m, w), w.remaining = m.remaining,
         w.fires = m.fires, w.checks = m.checks, w.bodies = m.bodies,
         w.went = m.went, NEW y \in m.links, NEW z \in Links, z \notin m.links,
         z.d = y.d, z.a = y.a, z.x = y.x,
         w.links = (m.links \ {y}) \cup {z}
  PROVE  Fits(w)
<1>1. PICK t, u : IsTorn(m, t) /\ IsUntied(m, u) /\ AllFit(t) /\ AllFit(u)
  BY FitsTwice
<1>2. PICK s, v : s = Torn(w) /\ v = Untied(w)
  OBVIOUS
<1>3. IsTorn(w, s) /\ IsUntied(w, v)
  BY <1>2, SeenTwice
<1>4. AllAlike(t, s) /\ AllAlike(u, v)
  BY <1>1, <1>3, BothAlike
<1>5. AllFit(s)
  <2>1. y \in t.links /\ z \notin t.links /\ s.links = (t.links \ {y}) \cup {z}
    BY <1>1, <1>3 DEF IsTorn
  <2> QED  BY <1>1, <1>3, <1>4, <2>1, MoveAll DEF IsTorn
<1>6. AllFit(v)
  <2>1. /\ v.remaining = u.remaining /\ v.fires = u.fires /\ v.checks = u.checks
        /\ v.bodies = u.bodies /\ v.went = u.went
    BY <1>1, <1>3 DEF IsUntied, Alike
  <2>2. CASE y.x.d \in m.tied
    <3>1. v.links \subseteq u.links /\ u.links \subseteq v.links
      BY <1>1, <1>3, <2>2 DEF IsUntied, Alike
    <3> QED  BY <1>1, <1>4, <2>1, <3>1, DropAll
  <2>3. CASE y.x.d \notin m.tied
    <3>1. y \in u.links /\ z \notin u.links /\ v.links = (u.links \ {y}) \cup {z}
      BY <1>1, <1>3, <2>3 DEF IsUntied, Alike
    <3> QED  BY <1>1, <1>4, <2>1, <3>1, MoveAll
  <2> QED  BY <2>2, <2>3
<1> QED
  BY <1>2, <1>5, <1>6 DEF Fits

LEMMA ForwardKeeps ==
  ASSUME NEW m, NEW w, Fits(m), Alike(m, w), w.remaining = m.remaining,
         w.checks = m.checks, w.bodies = m.bodies, w.went = m.went,
         NEW y \in m.links, ~Counts(y.x), ~Filters(y.x), Went(m, y.d, y.a),
         w.links = m.links \ {y},
         w.fires = m.fires \cup {<<y.x.d, y.a>>}
  PROVE  Fits(w)
<1>1. PICK t, u : IsTorn(m, t) /\ IsUntied(m, u) /\ AllFit(t) /\ AllFit(u)
  BY FitsTwice
<1>2. PICK s, v : s = Torn(w) /\ v = Untied(w)
  OBVIOUS
<1>3. IsTorn(w, s) /\ IsUntied(w, v)
  BY <1>2, SeenTwice
<1>4. AllAlike(t, s) /\ AllAlike(u, v)
  BY <1>1, <1>3, BothAlike
<1>5. AllFit(s)
  <2>1. /\ y \in t.links /\ s.links = t.links \ {y} /\ Went(t, y.d, y.a)
        /\ s.fires = t.fires \cup {<<y.x.d, y.a>>}
    BY <1>1, <1>3 DEF IsTorn, Went
  <2> QED  BY <1>1, <1>3, <1>4, <2>1, ForwardAll DEF IsTorn
<1>6. AllFit(v)
  <2>1. /\ v.remaining = u.remaining /\ v.checks = u.checks
        /\ v.bodies = u.bodies /\ v.went = u.went
    BY <1>1, <1>3 DEF IsUntied, Alike
  <2>2. CASE y.x.d \in m.tied
    <3>1. /\ v.links \subseteq u.links /\ u.links \subseteq v.links
          /\ v.fires = u.fires
      BY <1>1, <1>3, <2>2 DEF IsUntied, Alike
    <3> QED  BY <1>1, <1>4, <2>1, <3>1, DropAll
  <2>3. CASE y.x.d \notin m.tied
    <3>1. y \in u.links /\ v.links = u.links \ {y} /\ Went(u, y.d, y.a)
      BY <1>1, <1>3, <2>3 DEF IsUntied, Alike, Went
    <3>2. v.fires = u.fires \cup {<<y.x.d, y.a>>}
      BY <1>1, <1>3, <2>3 DEF IsUntied, Alike
    <3> QED  BY <1>1, <1>4, <2>1, <3>1, <3>2, ForwardAll
  <2> QED  BY <2>2, <2>3
<1> QED
  BY <1>2, <1>5, <1>6 DEF Fits

LEMMA FilterKeeps ==
  ASSUME NEW m, NEW w, Fits(m), Alike(m, w), w.remaining = m.remaining,
         w.fires = m.fires, w.checks = m.checks, w.went = m.went,
         NEW y \in m.links, Filters(y.x), Went(m, y.d, y.a),
         NEW b, b.d = y.x.d, b.a = y.a,
         w.links = m.links \ {y},
         w.bodies = m.bodies \cup {b}
  PROVE  Fits(w)
<1>1. PICK t, u : IsTorn(m, t) /\ IsUntied(m, u) /\ AllFit(t) /\ AllFit(u)
  BY FitsTwice
<1>2. PICK s, v : s = Torn(w) /\ v = Untied(w)
  OBVIOUS
<1>3. IsTorn(w, s) /\ IsUntied(w, v)
  BY <1>2, SeenTwice
<1>4. AllAlike(t, s) /\ AllAlike(u, v)
  BY <1>1, <1>3, BothAlike
<1>5. AllFit(s)
  <2>1. /\ y \in t.links /\ s.links = t.links \ {y} /\ Went(t, y.d, y.a)
        /\ s.bodies = t.bodies \cup {b}
    BY <1>1, <1>3 DEF IsTorn, Went
  <2> QED  BY <1>1, <1>3, <1>4, <2>1, FilterAll DEF IsTorn
<1>6. AllFit(v)
  <2>1. /\ v.remaining = u.remaining /\ v.checks = u.checks
        /\ v.fires = u.fires /\ v.went = u.went
    BY <1>1, <1>3 DEF IsUntied, Alike
  <2>2. CASE y.x.d \in m.tied
    <3>1. /\ v.links \subseteq u.links /\ u.links \subseteq v.links
          /\ v.bodies = u.bodies
      BY <1>1, <1>3, <2>2 DEF IsUntied, Alike
    <3> QED  BY <1>1, <1>4, <2>1, <3>1, DropAll
  <2>3. CASE y.x.d \notin m.tied
    <3>1. y \in u.links /\ v.links = u.links \ {y} /\ Went(u, y.d, y.a)
      BY <1>1, <1>3, <2>3 DEF IsUntied, Alike, Went
    <3>2. v.bodies = u.bodies \cup {b}
      BY <1>1, <1>3, <2>3 DEF IsUntied, Alike
    <3> QED  BY <1>1, <1>4, <2>1, <3>1, <3>2, FilterAll
  <2> QED  BY <2>2, <2>3
<1> QED
  BY <1>2, <1>5, <1>6 DEF Fits

LEMMA CountKeeps ==
  ASSUME NEW m, NEW w, Fits(m), Alike(m, w),
         w.checks = m.checks, w.bodies = m.bodies, w.went = m.went,
         NEW y \in m.links, Counts(y.x), Went(m, y.d, y.a),
         w.links = m.links \ {y},
         w.remaining[y.x.d] = m.remaining[y.x.d] - 1,
         \A k \in Deferreds : k # y.x.d => w.remaining[k] = m.remaining[k],
         w.fires = IF m.remaining[y.x.d] = 1
                   THEN m.fires \cup {<<y.x.d, "resolve">>} ELSE m.fires
  PROVE  Fits(w)
<1>1. PICK t, u : IsTorn(m, t) /\ IsUntied(m, u) /\ AllFit(t) /\ AllFit(u)
  BY FitsTwice
<1>2. PICK s, v : s = Torn(w) /\ v = Untied(w)
  OBVIOUS
<1>3. IsTorn(w, s) /\ IsUntied(w, v)
  BY <1>2, SeenTwice
<1>4. AllAlike(t, s) /\ AllAlike(u, v)
  BY <1>1, <1>3, BothAlike
<1>n. y.x.d \in Deferreds
  BY FitsShape DEF Shape
<1>5. AllFit(s)
  <2>1. /\ y \in t.links /\ s.links = t.links \ {y} /\ Went(t, y.d, y.a)
        /\ s.remaining[y.x.d] = t.remaining[y.x.d] - 1
        /\ \A k \in Deferreds : k # y.x.d => s.remaining[k] = t.remaining[k]
        /\ s.fires = IF t.remaining[y.x.d] = 1
                     THEN t.fires \cup {<<y.x.d, "resolve">>} ELSE t.fires
    BY <1>1, <1>3 DEF IsTorn, Went
  <2> QED  BY <1>1, <1>3, <1>4, <2>1, CountAll DEF IsTorn
<1>6. AllFit(v)
  <2>1. v.checks = u.checks /\ v.bodies = u.bodies /\ v.went = u.went
    BY <1>1, <1>3 DEF IsUntied, Alike
  <2>2. CASE y.x.d \in m.tied
    <3>1. /\ v.links \subseteq u.links /\ u.links \subseteq v.links
          /\ v.fires = u.fires
      BY <1>1, <1>3, <2>2 DEF IsUntied, Alike
    <3>2. v.remaining = u.remaining
      BY <1>1, <1>3, <2>2 DEF IsUntied, Alike
    <3> QED  BY <1>1, <1>4, <2>1, <3>1, <3>2, DropAll
  <2>3. CASE y.x.d \notin m.tied
    <3>1. y \in u.links /\ v.links = u.links \ {y} /\ Went(u, y.d, y.a)
      BY <1>1, <1>3, <2>3 DEF IsUntied, Alike, Went
    <3>2. /\ u.remaining[y.x.d] = m.remaining[y.x.d]
          /\ v.remaining[y.x.d] = u.remaining[y.x.d] - 1
          /\ \A k \in Deferreds : k # y.x.d => v.remaining[k] = u.remaining[k]
      BY <1>1, <1>3, <1>n, <2>3 DEF IsUntied, Alike
    <3>3. v.fires = IF u.remaining[y.x.d] = 1
                    THEN u.fires \cup {<<y.x.d, "resolve">>} ELSE u.fires
      BY <1>1, <1>3, <2>3, <3>2 DEF IsUntied, Alike
    <3> QED  BY <1>1, <1>4, <2>1, <3>1, <3>2, <3>3, CountAll
  <2> QED  BY <2>2, <2>3
<1> QED
  BY <1>2, <1>5, <1>6 DEF Fits

LEMMA WentKeeps ==
  ASSUME NEW m, NEW w, Fits(m), Alike(m, w), w.remaining = m.remaining,
         w.fires = m.fires, w.checks = m.checks, w.bodies = m.bodies,
         w.links = m.links,
         NEW d \in Deferreds, NEW a \in Settling, ~Over(m, d),
         \/ d \notin m.derived
         \/ ToFire(m, d, a)
         \/ a = "resolve" /\ d \in m.checks /\ m.remaining[d] = 0,
         w.went = m.went \cup {<<d, a>>}
  PROVE  Fits(w)
<1>1. PICK t, u : IsTorn(m, t) /\ IsUntied(m, u) /\ AllFit(t) /\ AllFit(u)
  BY FitsTwice
<1>2. PICK s, v : s = Torn(w) /\ v = Untied(w)
  OBVIOUS
<1>3. IsTorn(w, s) /\ IsUntied(w, v)
  BY <1>2, SeenTwice
<1>4. AllAlike(t, s) /\ AllAlike(u, v)
  BY <1>1, <1>3, BothAlike
<1>5. AllFit(s)
  <2>1. /\ ~Over(t, d)
        /\ \/ d \notin t.derived
           \/ ToFire(t, d, a)
           \/ a = "resolve" /\ d \in t.checks /\ t.remaining[d] = 0
    BY <1>1 DEF IsTorn, Over, Went, ToFire
  <2> QED  BY <1>1, <1>3, <1>4, <2>1, WentAll DEF IsTorn
<1>6. AllFit(v)
  <2>1. /\ v.links = u.links /\ v.fires = u.fires /\ v.checks = u.checks
        /\ v.bodies = u.bodies /\ v.went = u.went \cup {<<d, a>>}
        /\ v.remaining = u.remaining
    BY <1>1, <1>3 DEF IsUntied, Alike
  <2>2. ~Over(u, d)
    BY <1>1 DEF IsUntied, Over, Went
  <2>3. \/ d \notin u.derived
        \/ ToFire(u, d, a)
        \/ a = "resolve" /\ d \in u.checks /\ u.remaining[d] = 0
    BY <1>1 DEF IsUntied, ToFire
  <2> QED  BY <1>1, <1>4, <2>1, <2>2, <2>3, WentAll
<1> QED
  BY <1>2, <1>5, <1>6 DEF Fits

LEMMA LateKeeps ==
  ASSUME NEW m, NEW w, Fits(m), Alike(m, w), w.remaining = m.remaining,
         w.links = m.links, w.bodies = m.bodies, w.went = m.went,
         w.fires \subseteq m.fires, w.checks \subseteq m.checks,
         \A n, a : ToFire(m, n, a) /\ ~ToFire(w, n, a) => Over(m, n),
         \A n \in m.checks \ w.checks : Over(m, n) \/ m.remaining[n] > 0
  PROVE  Fits(w)
<1>1. PICK t, u : IsTorn(m, t) /\ IsUntied(m, u) /\ AllFit(t) /\ AllFit(u)
  BY FitsTwice
<1>2. PICK s, v : s = Torn(w) /\ v = Untied(w)
  OBVIOUS
<1>3. IsTorn(w, s) /\ IsUntied(w, v)
  BY <1>2, SeenTwice
<1>4. AllAlike(t, s) /\ AllAlike(u, v)
  BY <1>1, <1>3, BothAlike
<1>5. AllFit(s)
  <2>1. /\ \A n, a : ToFire(t, n, a) /\ ~ToFire(s, n, a) => Over(t, n)
        /\ \A n \in t.checks \ s.checks : Over(t, n) \/ t.remaining[n] > 0
    BY <1>1, <1>3 DEF IsTorn, Over, Went, ToFire
  <2> QED  BY <1>1, <1>3, <1>4, <2>1, LateAll DEF IsTorn
<1>6. AllFit(v)
  <2>1. /\ v.links = u.links /\ v.bodies = u.bodies /\ v.went = u.went
        /\ v.fires \subseteq u.fires /\ v.checks \subseteq u.checks
        /\ v.remaining = u.remaining
    BY <1>1, <1>3 DEF IsUntied, Alike
  <2>2. \A n, a : ToFire(u, n, a) /\ ~ToFire(v, n, a) => Over(u, n)
    BY <1>1, <1>3 DEF IsUntied, Alike, Over, Went, ToFire
  <2>3. \A n \in u.checks \ v.checks : Over(u, n) \/ u.remaining[n] > 0
    <3> SUFFICES ASSUME NEW n \in u.checks \ v.checks
                 PROVE  Over(u, n) \/ u.remaining[n] > 0
      OBVIOUS
    <3>1. n \in m.checks \ w.checks /\ n \notin m.tied /\ n \in Deferreds
      BY <1>1, <1>3, FitsShape DEF IsUntied, Alike, Shape
    <3>2. u.remaining[n] = m.remaining[n]
      BY <1>1, <3>1 DEF IsUntied
    <3> QED  BY <1>1, <3>1, <3>2 DEF IsUntied, Over, Went
  <2> QED  BY <1>1, <1>4, <2>1, <2>2, <2>3, LateAll
<1> QED
  BY <1>2, <1>5, <1>6 DEF Fits

LEMMA ValueKeeps ==
  ASSUME NEW m, NEW w, Fits(m), Alike(m, w), w.remaining = m.remaining,
         w.links = m.links, w.checks = m.checks, w.went = m.went,
         NEW b \in m.bodies, w.bodies = m.bodies \ {b},
         w.fires = m.fires \cup {<<b.d, b.a>>}
  PROVE  Fits(w)
<1>1. PICK t, u : IsTorn(m, t) /\ IsUntied(m, u) /\ AllFit(t) /\ AllFit(u)
  BY FitsTwice
<1>2. PICK s, v : s = Torn(w) /\ v = Untied(w)
  OBVIOUS
<1>3. IsTorn(w, s) /\ IsUntied(w, v)
  BY <1>2, SeenTwice
<1>4. AllAlike(t, s) /\ AllAlike(u, v)
  BY <1>1, <1>3, BothAlike
<1>5. AllFit(s)
  <2>1. /\ b \in t.bodies /\ s.bodies = t.bodies \ {b}
        /\ s.fires = t.fires \cup {<<b.d, b.a>>}
    BY <1>1, <1>3 DEF IsTorn
  <2> QED  BY <1>1, <1>3, <1>4, <2>1, ValueAll DEF IsTorn
<1>6. AllFit(v)
  <2>1. /\ v.remaining = u.remaining /\ v.checks = u.checks
        /\ v.links = u.links /\ v.went = u.went
    BY <1>1, <1>3 DEF IsUntied, Alike
  <2>2. CASE b.d \in m.tied
    <3>1. v.fires = u.fires /\ v.bodies = u.bodies /\ v.links \subseteq u.links
      BY <1>1, <1>3, <2>1, <2>2 DEF IsUntied, Alike
    <3> QED  BY <1>1, <1>4, <2>1, <3>1, DropAll
  <2>3. CASE b.d \notin m.tied
    <3>1. b \in u.bodies /\ v.bodies = u.bodies \ {b}
      BY <1>1, <1>3, <2>3 DEF IsUntied, Alike
    <3>2. v.fires = u.fires \cup {<<b.d, b.a>>}
      BY <1>1, <1>3, <2>3 DEF IsUntied, Alike
    <3> QED  BY <1>1, <1>4, <2>1, <3>1, <3>2, ValueAll
  <2> QED  BY <2>2, <2>3
<1> QED
  BY <1>2, <1>5, <1>6 DEF Fits

LEMMA ThrownKeeps ==
  ASSUME NEW m, NEW w, Fits(m), w.derived = m.derived, w.follows = m.follows,
         w.remaining = m.remaining, w.went = m.went, w.thrown = TRUE, w.tied = m.tied,
         w.links \subseteq m.links, w.fires = {}, w.checks = {}, w.bodies = {}
  PROVE  Fits(w)
<1>1. PICK t, u : IsTorn(m, t) /\ IsUntied(m, u) /\ AllFit(t) /\ AllFit(u)
  BY FitsTwice
<1>2. PICK s, v : s = Torn(w) /\ v = Untied(w)
  OBVIOUS
<1>3. IsTorn(w, s) /\ IsUntied(w, v)
  BY <1>2, SeenTwice
<1>5. AllFit(s)
  BY <1>1, <1>3, ThrownAll DEF IsTorn
<1>6. AllFit(v)
  <2>1. /\ v.derived = u.derived /\ v.follows = u.follows
        /\ v.remaining = u.remaining /\ v.went = u.went /\ v.thrown = TRUE
        /\ v.links \subseteq u.links
        /\ v.fires = {} /\ v.checks = {} /\ v.bodies = {}
    BY <1>1, <1>3 DEF IsUntied
  <2> QED  BY <1>1, <2>1, ThrownAll
<1> QED
  BY <1>2, <1>5, <1>6 DEF Fits

LEMMA GoesByKeeps ==
  ASSUME NEW m, NEW w, NEW n, NEW N, Fits(m), GoesBy(m, w, n, N),
         w.tied = m.tied,
         \E r \in 0 .. 2 :
           /\ Size(Counting(m, N), r)
           /\ r <= w.remaining[n] /\ w.remaining[n] \in 0 .. 2
           /\ ~m.thrown => /\ Counted(w, n) /\ Dead(w, n) => r < w.remaining[n]
                           /\ ~Dead(w, n) => r = w.remaining[n],
         \A z \in N : Live(m, z) =>
           /\ z.d \in w.follows[n]
           /\ ~Counts(z.x) /\ z.a = "resolve" => w.follows[n] = {z.d},
         \A z \in N : Live(m, z) /\ Filters(z.x) =>
           /\ n \notin w.checks /\ w.follows[n] = {z.d} /\ w.remaining[n] = 0
           /\ \A v \in N : ~Counts(v.x) /\ (Live(m, v) /\ v.a = z.a => v = z),
         Counted(w, n) => \A d \in w.follows[n] :
           Over(m, d) \/ \E z \in N : Counts(z.x) /\ Live(m, z) /\ z.d = d,
         \A d \in w.follows[n] : \E z \in N : z.d = d /\ z.a = "reject",
         \/ n \in w.checks
         \/ \E z \in N : z.d \in w.follows[n] /\ z.a = "resolve" /\ ~Counts(z.x)
  PROVE  Fits(w)
<1>1. PICK t, u : IsTorn(m, t) /\ IsUntied(m, u) /\ AllFit(t) /\ AllFit(u)
  BY FitsTwice
<1>2. PICK s, v : s = Torn(w) /\ v = Untied(w)
  OBVIOUS
<1>3. IsTorn(w, s) /\ IsUntied(w, v)
  BY <1>2, SeenTwice
<1>5. AllFit(s)
  <2>0. /\ \A e : Over(t, e) <=> Over(m, e)
        /\ \A e, a : ToFire(t, e, a) <=> ToFire(m, e, a)
        /\ LinksOf(t, n) = LinksOf(m, n)
        /\ \A z : Live(t, z) <=> Live(m, z)
    BY <1>1 DEF IsTorn, Over, Went, ToFire, LinksOf, Live
  <2>1. GoesBy(t, s, n, N)
    <3>1. /\ ~Over(t, n) /\ n \notin t.checks /\ n \in Deferreds
          /\ \A a : ~ToFire(t, n, a)
          /\ \A y \in LinksOf(t, n) : ~Live(t, y) /\ ~Counts(y.x)
      BY <1>1, <2>0 DEF GoesBy, IsTorn
    <3>2. /\ s.derived = t.derived \cup {n} /\ s.thrown = t.thrown /\ s.went = t.went
          /\ s.fires = t.fires /\ s.checks \in {t.checks, t.checks \cup {n}}
          /\ s.bodies \subseteq t.bodies
          /\ \A b \in t.bodies : b \in s.bodies <=> b.d # n
      BY <1>1, <1>3 DEF GoesBy, IsTorn
    <3>3. /\ \A k \in Deferreds : k # n =>
               s.follows[k] = t.follows[k] /\ s.remaining[k] = t.remaining[k]
          /\ s.follows[n] # {} /\ s.follows[n] \subseteq Deferreds
          /\ s.links = t.links \cup N
      BY <1>1, <1>3 DEF GoesBy, IsTorn
    <3>4. /\ N \subseteq Links
          /\ \A z \in N : /\ z.x.d = n /\ IsLink(z.x)
                          /\ IF Counts(z.x) THEN z.a = "resolve" ELSE z.x.a = z.a
      BY DEF GoesBy
    <3> QED  BY <3>1, <3>2, <3>3, <3>4 DEF GoesBy
  <2>2. /\ Counting(t, N) = Counting(m, N) /\ Counted(s, n) = Counted(w, n)
        /\ \A z : Live(t, z) <=> Live(m, z)
        /\ \A d : Over(t, d) <=> Over(m, d)
    BY <1>1, <1>3 DEF IsTorn, Counting, Live, Went, Over, Counted, Tokens, LinksOf
  <2> QED
    BY <1>1, <1>3, <2>1, <2>2, GoesByAll DEF IsTorn
<1>6. AllFit(v)
  <2>1. CASE n \in m.tied
    <3>1. AllAlike(u, v) /\ v.remaining = u.remaining
      BY <1>1, <1>3, <2>1 DEF GoesBy, AllAlike, IsUntied
    <3>2. /\ v.fires = u.fires /\ v.checks = u.checks /\ v.bodies = u.bodies
          /\ v.went = u.went /\ v.links \subseteq u.links /\ u.links \subseteq v.links
      BY <1>1, <1>3, <2>1 DEF GoesBy, IsUntied
    <3> QED  BY <1>1, <3>1, <3>2, DropAll
  <2>2. CASE n \notin m.tied
    <3>1. n \in Deferreds /\ v.follows[n] = w.follows[n] /\ v.remaining[n] = w.remaining[n]
      BY <1>3, <2>2 DEF GoesBy, IsUntied
    <3>2. GoesBy(u, v, n, N)
      BY <1>1, <1>3, <2>2, <3>1
      DEF GoesBy, IsUntied, Over, Went, ToFire, LinksOf, Live
    <3>3. /\ Counting(u, N) = Counting(m, N)
          /\ \A z : Live(u, z) <=> Live(m, z)
          /\ \A d : Over(u, d) <=> Over(m, d)
          /\ (n \in v.checks <=> n \in w.checks)
      BY <1>1, <1>3, <2>2 DEF IsUntied, Counting, Live, Went, Over
    <3>t. /\ LinksOf(v, n) = LinksOf(w, n) /\ (n \in v.checks <=> n \in w.checks)
          /\ \A z : Live(v, z) <=> Live(w, z)
      BY <1>3, <2>2 DEF IsUntied, LinksOf, Live, Went
    <3>u. Tokens(v, n) = Tokens(w, n)
      BY <3>t DEF Tokens
    <3>4. Counted(v, n) <=> Counted(w, n)
      BY <3>t, <3>u DEF Counted
    <3>5. (Dead(v, n) <=> Dead(w, n)) /\ u.thrown = m.thrown
      BY <1>1, <1>3, <3>1 DEF IsUntied, Dead, Went
    <3>6. \E r \in 0 .. 2 :
            /\ Size(Counting(u, N), r)
            /\ r <= v.remaining[n] /\ v.remaining[n] \in 0 .. 2
            /\ ~u.thrown => /\ Counted(v, n) /\ Dead(v, n) => r < v.remaining[n]
                            /\ ~Dead(v, n) => r = v.remaining[n]
      BY <3>1, <3>3, <3>4, <3>5
    <3>7. \A z \in N : Live(u, z) =>
            /\ z.d \in v.follows[n]
            /\ ~Counts(z.x) /\ z.a = "resolve" => v.follows[n] = {z.d}
      BY <3>1, <3>3
    <3>8. \A z \in N : Live(u, z) /\ Filters(z.x) =>
            /\ n \notin v.checks /\ v.follows[n] = {z.d} /\ v.remaining[n] = 0
            /\ \A y \in N : ~Counts(y.x) /\ (Live(u, y) /\ y.a = z.a => y = z)
      BY <3>1, <3>3
    <3>9. Counted(v, n) => \A d \in v.follows[n] :
            Over(u, d) \/ \E z \in N : Counts(z.x) /\ Live(u, z) /\ z.d = d
      BY <3>1, <3>3, <3>4
    <3>10. /\ \A d \in v.follows[n] : \E z \in N : z.d = d /\ z.a = "reject"
           /\ \/ n \in v.checks
              \/ \E z \in N :
                   z.d \in v.follows[n] /\ z.a = "resolve" /\ ~Counts(z.x)
      BY <3>1, <3>3
    <3> QED  BY <1>1, <3>2, <3>6, <3>7, <3>8, <3>9, <3>10, GoesByAll
  <2> QED  BY <2>1, <2>2
<1> QED
  BY <1>2, <1>5, <1>6 DEF Fits

(* After an exception what is tied may change what it goes by, as what is  *)
(* not.                                                                    *)
LEMMA ThrownTurns ==
  ASSUME NEW m, NEW w, Fits(m), m.thrown = TRUE, w.thrown = TRUE, w.tied = m.tied,
         w.derived = m.derived, w.went = m.went, w.fires = m.fires,
         w.checks = m.checks, w.bodies \subseteq m.bodies,
         w.remaining = m.remaining,
         NEW N, w.links = m.links \cup N, N \subseteq Links,
         \A z \in N : /\ IsLink(z.x) /\ z.x.d \in m.derived /\ ~Counts(z.x)
                      /\ z.x.a = z.a,
         \A n \in m.derived : w.follows[n] # {} /\ w.follows[n] \subseteq Deferreds
  PROVE  Fits(w)
<1>1. PICK t, u : IsTorn(m, t) /\ IsUntied(m, u) /\ AllFit(t) /\ AllFit(u)
  BY FitsTwice
<1>2. PICK s, v : s = Torn(w) /\ v = Untied(w)
  OBVIOUS
<1>3. IsTorn(w, s) /\ IsUntied(w, v)
  BY <1>2, SeenTwice
<1>5. AllFit(s)
  <2>1. /\ s.derived = t.derived /\ s.went = t.went /\ s.fires = t.fires
        /\ s.checks = t.checks /\ s.bodies \subseteq t.bodies
        /\ s.remaining = t.remaining /\ s.thrown = TRUE /\ t.thrown = TRUE
    BY <1>1, <1>3 DEF IsTorn
  <2>2. /\ s.links = t.links \cup N
        /\ \A z \in N : /\ IsLink(z.x) /\ z.x.d \in t.derived /\ ~Counts(z.x)
                        /\ z.x.a = z.a
        /\ \A k \in t.derived : s.follows[k] # {} /\ s.follows[k] \subseteq Deferreds
    BY <1>1, <1>3 DEF IsTorn
  <2> QED  BY <1>1, <2>1, <2>2, ThrownTurnsAll
<1>6. AllFit(v)
  <2>1. PICK O : O = {z \in N : z.x.d \notin m.tied}
    OBVIOUS
  <2>2. /\ v.links = u.links \cup O /\ O \subseteq Links
        /\ \A z \in O : /\ IsLink(z.x) /\ z.x.d \in u.derived /\ ~Counts(z.x)
                        /\ z.x.a = z.a
    BY <1>1, <1>3, <2>1 DEF IsUntied
  <2>3. /\ u.thrown = TRUE /\ v.thrown = TRUE /\ v.derived = u.derived
        /\ v.went = u.went /\ v.fires = u.fires /\ v.checks = u.checks
        /\ v.bodies \subseteq u.bodies /\ v.remaining = u.remaining
    BY <1>1, <1>3 DEF IsUntied
  <2>4. \A k \in u.derived : v.follows[k] # {} /\ v.follows[k] \subseteq Deferreds
    <3>1. m.derived \subseteq Deferreds
      BY FitsShape DEF Shape
    <3> QED  BY <1>1, <1>3, <3>1 DEF IsUntied
  <2> QED  BY <1>1, <2>2, <2>3, <2>4, ThrownTurnsAll
<1> QED
  BY <1>2, <1>5, <1>6 DEF Fits

(* Less is derived: the rest fits without it.                              *)
LEMMA FewerAll ==
  ASSUME NEW m, NEW w, AllFit(m), w.derived \subseteq m.derived,
         w.links = {y \in m.links : y.x.d \in w.derived},
         w.fires = {f \in m.fires : f[1] \in w.derived},
         w.checks = m.checks \cap w.derived,
         w.bodies = {b \in m.bodies : b.d \in w.derived},
         w.went = m.went, w.thrown = m.thrown,
         \A k \in w.derived : w.follows[k] = m.follows[k] /\ w.remaining[k] = m.remaining[k]
  PROVE  AllFit(w)
<1>1. /\ \A d, a : Went(w, d, a) <=> Went(m, d, a)
      /\ \A d : Over(w, d) <=> Over(m, d)
      /\ \A y : Live(w, y) <=> Live(m, y)
  BY DEF Went, Over, Live
<1>2. \A k \in w.derived :
        /\ Dead(w, k) <=> Dead(m, k)
        /\ \A a : Reason(w, k, a) <=> Reason(m, k, a)
        /\ \A a : ToFire(w, k, a) <=> ToFire(m, k, a)
        /\ Busy(w, k) <=> Busy(m, k)
        /\ k \in w.checks <=> k \in m.checks
        /\ LinksOf(w, k) = LinksOf(m, k) /\ Tokens(w, k) = Tokens(m, k)
        /\ Counted(w, k) <=> Counted(m, k)
  <2> SUFFICES ASSUME NEW k \in w.derived
               PROVE  /\ Dead(w, k) <=> Dead(m, k)
                      /\ \A a : Reason(w, k, a) <=> Reason(m, k, a)
                      /\ \A a : ToFire(w, k, a) <=> ToFire(m, k, a)
                      /\ Busy(w, k) <=> Busy(m, k)
                      /\ k \in w.checks <=> k \in m.checks
                      /\ LinksOf(w, k) = LinksOf(m, k) /\ Tokens(w, k) = Tokens(m, k)
                      /\ Counted(w, k) <=> Counted(m, k)
    OBVIOUS
  <2>1. Dead(w, k) <=> Dead(m, k)
    BY <1>1 DEF Dead
  <2>2. \A a : Reason(w, k, a) <=> Reason(m, k, a)
    BY <1>1, <2>1 DEF Reason
  <2>3. \A a : ToFire(w, k, a) <=> ToFire(m, k, a)
    BY DEF ToFire
  <2>4. (Busy(w, k) <=> Busy(m, k)) /\ (k \in w.checks <=> k \in m.checks)
    BY DEF Busy
  <2>5. LinksOf(w, k) = LinksOf(m, k)
    BY DEF LinksOf
  <2>6. Tokens(w, k) = Tokens(m, k)
    BY <1>1, <2>5 DEF Tokens
  <2>7. Counted(w, k) <=> Counted(m, k)
    BY <2>4, <2>6 DEF Counted
  <2> QED  BY <2>1, <2>2, <2>3, <2>4, <2>5, <2>6, <2>7
<1>3. Shape(w)
  <2>1. Shape(m)
    BY DEF AllFit
  <2> QED  BY <1>1, <2>1 DEF Shape
<1>4. SizeFits(w)
  BY <1>2 DEF AllFit, SizeFits
<1>5. ASSUME ~w.thrown
      PROVE  /\ LinksFit(w) /\ ReasonsFit(w) /\ FiltersFit(w) /\ BodiesFit(w)
             /\ CountsFit(w) /\ WillReject(w) /\ WillResolve(w)
  <2>1. LinksFit(w) /\ ReasonsFit(w)
    BY <1>1, <1>2, <1>5 DEF AllFit, LinksFit, ReasonsFit
  <2>2. FiltersFit(w)
    <3> SUFFICES ASSUME NEW y \in w.links, Live(w, y), Filters(y.x)
                 PROVE  FilterFits(w, y)
      BY DEF FiltersFit
    <3>1. FilterFits(m, y)
      BY <1>1, <1>5 DEF AllFit, FiltersFit
    <3>2. y.x.d \in w.derived
      OBVIOUS
    <3> QED  BY <1>1, <1>2, <3>1, <3>2 DEF FilterFits
  <2>3. BodiesFit(w)
    <3> SUFFICES ASSUME NEW b \in w.bodies
                 PROVE  BodyFits(w, b)
      BY DEF BodiesFit
    <3>1. BodyFits(m, b)
      BY <1>5 DEF AllFit, BodiesFit
    <3>2. b.d \in w.derived /\ w.bodies \subseteq m.bodies
      OBVIOUS
    <3> QED  BY <1>1, <1>2, <3>1, <3>2 DEF BodyFits
  <2>4. CountsFit(w)
    BY <1>1, <1>2, <1>5 DEF AllFit, CountsFit
  <2>5. WillReject(w)
    BY <1>1, <1>2, <1>5 DEF AllFit, WillReject
  <2>6. WillResolve(w)
    BY <1>1, <1>2, <1>5 DEF AllFit, WillResolve
  <2> QED  BY <2>1, <2>2, <2>3, <2>4, <2>5, <2>6
<1> QED
  BY <1>3, <1>4, <1>5 DEF AllFit

(* A deferred that is tied, by a filter for the progress or, if it was     *)
(* already, by one for the other actions.                                  *)
LEMMA TiedTurns ==
  ASSUME NEW m, NEW w, Fits(m), NEW n \in m.derived, w.tied = m.tied \cup {n},
         w.derived = m.derived, w.went = m.went, w.fires = m.fires,
         w.checks = m.checks, w.remaining = m.remaining, w.thrown = m.thrown,
         w.bodies \subseteq m.bodies,
         \A b \in m.bodies : b.d # n => b \in w.bodies,
         NEW N, w.links = m.links \cup N, N \subseteq Links,
         \A z \in N : IsLink(z.x) /\ z.x.d = n /\ ~Counts(z.x) /\ z.x.a = z.a,
         \A k \in Deferreds : k # n => w.follows[k] = m.follows[k],
         w.follows[n] # {} /\ w.follows[n] \subseteq Deferreds
  PROVE  Fits(w)
<1>1. PICK t, u : IsTorn(m, t) /\ IsUntied(m, u) /\ AllFit(t) /\ AllFit(u)
  BY FitsTwice
<1>2. PICK s, v : s = Torn(w) /\ v = Untied(w)
  OBVIOUS
<1>3. IsTorn(w, s) /\ IsUntied(w, v)
  BY <1>2, SeenTwice
<1>4. Shape(m) /\ Shape(u)
  BY <1>1, FitsShape DEF AllFit
<1>5. AllFit(s)
  <2>1. \A k \in t.derived : s.follows[k] # {} /\ s.follows[k] \subseteq Deferreds
    BY <1>1, <1>3, <1>4 DEF IsTorn, Shape
  <2>2. /\ s.links = t.links \cup N
        /\ \A z \in N : /\ IsLink(z.x) /\ z.x.d \in t.derived /\ ~Counts(z.x)
                        /\ z.x.a = z.a
    BY <1>1, <1>3 DEF IsTorn
  <2>3. /\ s.derived = t.derived /\ s.went = t.went /\ s.fires = t.fires
        /\ s.checks = t.checks /\ s.bodies \subseteq t.bodies
        /\ s.remaining = t.remaining /\ s.thrown = TRUE /\ t.thrown = TRUE
    BY <1>1, <1>3 DEF IsTorn
  <2> QED  BY <1>1, <2>1, <2>2, <2>3, ThrownTurnsAll
<1>6. AllFit(v)
  <2>1. /\ v.derived \subseteq u.derived /\ v.went = u.went /\ v.thrown = u.thrown
        /\ u.derived \subseteq Deferreds
    BY <1>1, <1>3, <1>4 DEF IsUntied, Shape
  <2>2. \A k \in v.derived : k \in Deferreds /\ k # n /\ k \notin m.tied
    BY <1>3, <1>4 DEF IsUntied, Shape
  <2>3. v.links = {y \in u.links : y.x.d \in v.derived}
    BY <1>1, <1>3, <1>4 DEF IsUntied, Shape
  <2>4. v.fires = {f \in u.fires : f[1] \in v.derived}
    BY <1>1, <1>3, <1>4 DEF IsUntied, Shape
  <2>5. v.checks = u.checks \cap v.derived
    BY <1>1, <1>3, <1>4 DEF IsUntied, Shape
  <2>6. v.bodies = {b \in u.bodies : b.d \in v.derived}
    BY <1>1, <1>3, <1>4 DEF IsUntied, Shape
  <2>7. \A k \in v.derived : v.follows[k] = u.follows[k] /\ v.remaining[k] = u.remaining[k]
    BY <1>1, <1>3, <2>2 DEF IsUntied
  <2> QED  BY <1>1, <2>1, <2>3, <2>4, <2>5, <2>6, <2>7, FewerAll
<1> QED
  BY <1>2, <1>5, <1>6 DEF Fits

(* What goes by one deferred, each way.                                    *)
LEMMA OneTurns ==
  ASSUME NEW m, NEW w, NEW n, NEW y, NEW z, Fits(m), GoesBy(m, w, n, {y, z}),
         w.tied = m.tied,
         NEW d, w.follows[n] = {d}, w.remaining[n] = 0, w.checks = m.checks,
         y.a = "resolve", y.d = d, ~Counts(y.x),
         z.a = "reject", z.d = d, ~Counts(z.x)
  PROVE  Fits(w)
<1> DEFINE N == {y, z}
<1>1. Counting(m, N) = {}
  BY DEF Counting
<1>2. Tokens(w, n) = {}
  BY DEF GoesBy, Tokens, LinksOf
<1>3. ~Counted(w, n)
  BY <1>2 DEF Counted, GoesBy
<1>4. 0 \in 0 .. 2 /\ Size({}, 0)
  BY DEF Size
<1>5. \E r \in 0 .. 2 :
        /\ Size(Counting(m, N), r)
        /\ r <= w.remaining[n] /\ w.remaining[n] \in 0 .. 2
        /\ ~m.thrown => /\ Counted(w, n) /\ Dead(w, n) => r < w.remaining[n]
                        /\ ~Dead(w, n) => r = w.remaining[n]
  <2>1. Size(Counting(m, N), 0)
    BY <1>1, <1>4
  <2>2. 0 <= w.remaining[n] /\ w.remaining[n] \in 0 .. 2 /\ 0 = w.remaining[n]
    OBVIOUS
  <2> QED  BY <1>3, <1>4, <2>1, <2>2
<1>6. \A u \in N : Live(m, u) =>
        /\ u.d \in w.follows[n]
        /\ ~Counts(u.x) /\ u.a = "resolve" => w.follows[n] = {u.d}
  OBVIOUS
<1>7. \A u \in N : Live(m, u) /\ Filters(u.x) =>
        /\ n \notin w.checks /\ w.follows[n] = {u.d} /\ w.remaining[n] = 0
        /\ \A v \in N : ~Counts(v.x) /\ (Live(m, v) /\ v.a = u.a => v = u)
  BY DEF GoesBy
<1>8. \A e \in w.follows[n] : \E u \in N : u.d = e /\ u.a = "reject"
  OBVIOUS
<1>9. \E u \in N : u.d \in w.follows[n] /\ u.a = "resolve" /\ ~Counts(u.x)
  OBVIOUS
<1> QED
  BY <1>3, <1>5, <1>6, <1>7, <1>8, <1>9, GoesByKeeps

(* What waits for several, and goes by the first that is rejected.         *)
LEMMA AllTurn ==
  ASSUME NEW m, NEW w, NEW n, NEW C, NEW R, Fits(m), GoesBy(m, w, n, C \cup R),
         w.tied = m.tied,
         w.remaining[n] \in 0 .. 2, Size(C, w.remaining[n]),
         w.checks = m.checks \cup {n},
         \A z \in C : Counts(z.x) /\ z.a = "resolve" /\ z.d \in w.follows[n],
         \A z \in R : /\ ~Counts(z.x) /\ ~Filters(z.x)
                      /\ z.a = "reject" /\ z.d \in w.follows[n],
         \A d \in w.follows[n] : /\ \E z \in C : z.d = d
                                 /\ \E z \in R : z.d = d
  PROVE  Fits(w)
<1> DEFINE N == C \cup R
           T == Counting(m, N)
<1>0. \A z \in C : ~Live(m, z) <=> Went(m, z.d, "reject")
  BY DEF Live, Opposite
<1>1. T \subseteq C /\ \A z \in C \ T : Went(m, z.d, "reject")
  BY <1>0 DEF Counting
<1>2. PICK k \in 0 .. w.remaining[n] : Size(T, k) /\ (T # C => k < w.remaining[n])
  BY <1>1, SizeShrinks
<1>3. /\ Dead(w, n) => T # C
      /\ ~Dead(w, n) => T = C
  <2>1. \A e, b : Went(w, e, b) <=> Went(m, e, b)
    BY DEF GoesBy, Went
  <2>2. ASSUME Dead(w, n)
        PROVE  T # C
    <3>1. PICK d \in w.follows[n] : Went(m, d, "reject")
      BY <2>1, <2>2 DEF Dead
    <3>2. PICK z \in C : z.d = d
      BY <3>1
    <3> QED  BY <1>0, <3>1, <3>2 DEF Counting
  <2>3. ASSUME ~Dead(w, n)
        PROVE  T = C
    BY <1>1, <2>1, <2>3 DEF Dead
  <2> QED  BY <2>2, <2>3
<1>4. k \in 0 .. 2 /\ k <= w.remaining[n]
  BY <1>2
<1>5. ~Dead(w, n) => k = w.remaining[n]
  <2> SUFFICES ASSUME ~Dead(w, n)
               PROVE  k = w.remaining[n]
    OBVIOUS
  <2>1. Size(C, k)
    BY <1>2, <1>3
  <2> QED  BY <1>4, <2>1, SizeSame
<1>6. \E r \in 0 .. 2 :
        /\ Size(Counting(m, N), r)
        /\ r <= w.remaining[n] /\ w.remaining[n] \in 0 .. 2
        /\ ~m.thrown => /\ Counted(w, n) /\ Dead(w, n) => r < w.remaining[n]
                        /\ ~Dead(w, n) => r = w.remaining[n]
  BY <1>2, <1>3, <1>4, <1>5
<1>7. \A z \in N : Live(m, z) =>
        /\ z.d \in w.follows[n]
        /\ ~Counts(z.x) /\ z.a = "resolve" => w.follows[n] = {z.d}
  OBVIOUS
<1>8. \A z \in N : ~Filters(z.x)
  BY DEF Filters, Counts
<1>9. \A d \in w.follows[n] :
        Over(m, d) \/ \E z \in N : Counts(z.x) /\ Live(m, z) /\ z.d = d
  <2> SUFFICES ASSUME NEW d \in w.follows[n]
               PROVE  Over(m, d) \/ \E z \in N : Counts(z.x) /\ Live(m, z) /\ z.d = d
    OBVIOUS
  <2>1. PICK z \in C : z.d = d
    OBVIOUS
  <2> QED  BY <1>0, <2>1 DEF Over, Settling
<1>10. \A d \in w.follows[n] : \E z \in N : z.d = d /\ z.a = "reject"
  OBVIOUS
<1>11. n \in w.checks
  OBVIOUS
<1>12. \A z \in N : Live(m, z) /\ Filters(z.x) =>
        /\ n \notin w.checks /\ w.follows[n] = {z.d} /\ w.remaining[n] = 0
        /\ \A v \in N : ~Counts(v.x) /\ (Live(m, v) /\ v.a = z.a => v = z)
  BY <1>8
<1> HIDE DEF N
<1>13. GoesBy(m, w, n, N)
  BY DEF N
<1> QED
  BY ONLY Fits(m), w.tied = m.tied, <1>6, <1>7, <1>9, <1>10, <1>11, <1>12, <1>13, GoesByKeeps

-----------------------------------------------------------------------------
(* What the state is seen as.  The places of the stack are counted from    *)
(* its bottom, and those of what a piece of the library has to do from its *)
(* end: what is there stays where it is.                                   *)
In(f, p) ==
  IF f.runs = "library"
  THEN {<<p, Len(f.todo) + 1 - k, f.todo[k]>> : k \in DOMAIN f.todo}
  ELSE IF f.runs = "body" /\ f.d # Off THEN {<<p, 0, f>>} ELSE {}
Things(s) == UNION {In(s[i], Len(s) + 1 - i) : i \in DOMAIN s}

Waits(c, k, x) ==
  c.list # Off /\ k \in DOMAIN c.list /\ k > Reached(c) /\ c.list[k] = x /\ IsLink(x)
ListLinks ==
  {y \in Links : y.at = "list" /\ y.j = 0 /\ Waits(cb[y.d][y.a], y.i, y.x)}
StackLinks(T) ==
  {y \in Links : /\ y.at = "stack" /\ y.j # 0 /\ IsLink(y.x)
                 /\ <<y.i, y.j, Adds(y.d, y.a, y.x)>> \in T}
FiresIn(T) ==
  {u \in Deferreds \X Settling :
     \E p, q, v : q # 0 /\ <<p, q, Fires(u[1], u[2], v)>> \in T}
ChecksIn(T) == {n \in Deferreds : \E p, q : q # 0 /\ <<p, q, Checks(n)>> \in T}
BodiesIn(T) ==
  {b \in [i : Nat, f : Fn, d : Deferreds, a : Settling] :
     <<b.i, 0, Body(b.f, b.d, b.a)>> \in T}
WentNow ==
  {u \in Deferreds \X Settling :
     cb[u[1]][u[2]].list # Off /\ cb[u[1]][u[2]].fired}

View ==
  [links |-> ListLinks \cup StackLinks(Things(calls)),
   fires |-> FiresIn(Things(calls)), checks |-> ChecksIn(Things(calls)),
   bodies |-> BodiesIn(Things(calls)), went |-> WentNow,
   follows |-> follows, remaining |-> remaining,
   derived |-> derived, tied |-> tied, thrown |-> thrown]

(* What is on the stack, frame by frame.                                   *)
LEMMA ThingsPush ==
  ASSUME NEW S, NEW s \in Seq(S), NEW f \in S
  PROVE  /\ Things(<<f>> \o s) = In(f, Len(s) + 1) \cup Things(s)
         /\ Things(<<>>) = {}
<1> DEFINE t == <<f>> \o s
<1>1. /\ DOMAIN t = 1 .. Len(s) + 1 /\ t[1] = f /\ Len(t) = Len(s) + 1
      /\ \A i \in 1 .. Len(s) : t[i + 1] = s[i] /\ i + 1 \in 1 .. Len(s) + 1
      /\ \A i \in 2 .. Len(s) + 1 : t[i] = s[i - 1] /\ i - 1 \in 1 .. Len(s)
      /\ DOMAIN s = 1 .. Len(s) /\ Len(s) \in Nat
  BY PushPlaces
<1>2. In(t[1], Len(t) + 1 - 1) = In(f, Len(s) + 1) /\ 1 \in DOMAIN t
  BY <1>1
<1>3. \A i \in DOMAIN s : In(t[i + 1], Len(t) + 1 - (i + 1)) = In(s[i], Len(s) + 1 - i)
  <2> TAKE i \in DOMAIN s
  <2>1. Len(t) + 1 - (i + 1) = Len(s) + 1 - i
    BY <1>1
  <2> QED  BY <1>1, <2>1
<1>4. \A i \in DOMAIN t : i = 1 \/ (i - 1 \in DOMAIN s /\ i = (i - 1) + 1)
  BY <1>1
<1>5. ASSUME NEW x
      PROVE  x \in Things(t) <=> x \in In(f, Len(s) + 1) \cup Things(s)
  <2>1. ASSUME x \in Things(t)
        PROVE  x \in In(f, Len(s) + 1) \cup Things(s)
    <3>1. PICK i \in DOMAIN t : x \in In(t[i], Len(t) + 1 - i)
      BY <2>1 DEF Things
    <3>2. CASE i = 1
      BY <1>2, <3>1, <3>2
    <3>3. CASE i # 1
      <4>1. PICK k \in DOMAIN s : i = k + 1
        BY <1>4, <3>3
      <4>2. x \in In(s[k], Len(s) + 1 - k)
        BY <1>3, <3>1, <4>1
      <4> QED  BY <4>2 DEF Things
    <3> QED  BY <3>2, <3>3
  <2>2. ASSUME x \in Things(s)
        PROVE  x \in Things(t)
    <3>1. PICK i \in DOMAIN s : x \in In(s[i], Len(s) + 1 - i)
      BY <2>2 DEF Things
    <3>2. x \in In(t[i + 1], Len(t) + 1 - (i + 1)) /\ i + 1 \in DOMAIN t
      BY <1>1, <1>3, <3>1
    <3> QED  BY <3>2 DEF Things
  <2>3. ASSUME x \in In(f, Len(s) + 1)
        PROVE  x \in Things(t)
    BY <1>2, <2>3 DEF Things
  <2> QED  BY <2>1, <2>2, <2>3
<1>6. Things(<<>>) = {}
  BY DEF Things
<1> QED
  BY <1>5, <1>6

(* The places are on the stack.                                            *)
LEMMA ThingPlaces ==
  ASSUME NEW M, NEW s, Stack(M, s), NEW t \in Things(s)
  PROVE  /\ t = <<t[1], t[2], t[3]>>
         /\ t[1] \in 1 .. Len(s) /\ t[2] \in Nat
         /\ t[2] # 0 => t[3] \in Jobs(M)
         /\ t[2] = 0 => /\ t[3] \in Frames(M) /\ t[3].runs = "body" /\ t[3].d # Off
<1>1. PICK i \in DOMAIN s : t \in In(s[i], Len(s) + 1 - i)
  BY DEF Things
<1>2. /\ s[i] \in Frames(M) /\ Len(s) + 1 - i \in 1 .. Len(s) /\ Len(s) \in Nat
  BY DEF Stack
<1>3. CASE s[i].runs = "library"
  <2>1. s[i].todo \in Seq(Jobs(M))
    BY <1>2, <1>3, FrameKinds
  <2>2. PICK k \in DOMAIN s[i].todo :
          t = <<Len(s) + 1 - i, Len(s[i].todo) + 1 - k, s[i].todo[k]>>
    BY <1>1, <1>3 DEF In
  <2>3. /\ Len(s[i].todo) + 1 - k \in Nat /\ Len(s[i].todo) + 1 - k # 0
        /\ s[i].todo[k] \in Jobs(M)
    BY <2>1
  <2> QED  BY <1>2, <2>2, <2>3
<1>4. CASE s[i].runs # "library"
  <2>1. t = <<Len(s) + 1 - i, 0, s[i]>> /\ s[i].runs = "body" /\ s[i].d # Off
    BY <1>1, <1>4 DEF In
  <2> QED  BY <1>2, <2>1
<1> QED
  BY <1>3, <1>4

(* The next call of a piece of the library.                                *)
LEMMA InLibrary ==
  ASSUME NEW S, NEW todo \in Seq(S), todo # <<>>, NEW p
  PROVE  /\ Len(todo) = 1 => In(Library(todo), p) = {<<p, 1, Head(todo)>>}
         /\ Len(todo) # 1 =>
              In(Library(todo), p) =
                {<<p, Len(todo), Head(todo)>>} \cup In(Library(Tail(todo)), p)
<1>1. /\ Library(todo).runs = "library" /\ Library(todo).todo = todo
      /\ DOMAIN todo = 1 .. Len(todo) /\ Len(todo) \in Nat /\ Len(todo) >= 1
      /\ Head(todo) = todo[1]
  BY DEF Library
<1>2. In(Library(todo), p) = {<<p, Len(todo) + 1 - k, todo[k]>> : k \in 1 .. Len(todo)}
  BY <1>1 DEF In
<1>3. ASSUME Len(todo) = 1
      PROVE  In(Library(todo), p) = {<<p, 1, Head(todo)>>}
  <2>1. \A k \in 1 .. Len(todo) : k = 1 /\ Len(todo) + 1 - k = 1
    BY <1>3
  <2>2. 1 \in 1 .. Len(todo)
    BY <1>1
  <2> QED  BY <1>1, <1>2, <2>1, <2>2
<1>4. ASSUME Len(todo) # 1
      PROVE  In(Library(todo), p) =
               {<<p, Len(todo), Head(todo)>>} \cup In(Library(Tail(todo)), p)
  <2> DEFINE u == Tail(todo)
  <2>1. /\ u \in Seq(S) /\ Len(u) = Len(todo) - 1 /\ DOMAIN u = 1 .. Len(u)
        /\ \A k \in 1 .. Len(u) : u[k] = todo[k + 1]
    BY <1>1, <1>4
  <2>2. Library(u).runs = "library" /\ Library(u).todo = u
    BY DEF Library
  <2>3. In(Library(u), p) = {<<p, Len(u) + 1 - k, u[k]>> : k \in 1 .. Len(u)}
    BY <2>1, <2>2 DEF In
  <2>a. \A n \in Nat, l \in Nat : l = n - 1 =>
          /\ \A k \in 1 .. l : k + 1 \in 1 .. n /\ l + 1 - k = n + 1 - (k + 1)
          /\ \A k \in 1 .. n : \/ k = 1 /\ n + 1 - k = n
                               \/ /\ k - 1 \in 1 .. l /\ (k - 1) + 1 = k
                                  /\ l + 1 - (k - 1) = n + 1 - k
    OBVIOUS
  <2>b. Len(u) \in Nat /\ Len(u) = Len(todo) - 1
    BY <1>1, <2>1
  <2>4. \A k \in 1 .. Len(u) : /\ k + 1 \in 1 .. Len(todo)
                               /\ Len(u) + 1 - k = Len(todo) + 1 - (k + 1)
    BY <1>1, <2>a, <2>b
  <2>5. \A k \in 1 .. Len(todo) :
          \/ k = 1 /\ Len(todo) + 1 - k = Len(todo)
          \/ /\ k - 1 \in 1 .. Len(u) /\ Len(u) + 1 - (k - 1) = Len(todo) + 1 - k
             /\ u[k - 1] = todo[k]
    <3> HIDE DEF u
    <3> TAKE k \in 1 .. Len(todo)
    <3>1. \/ k = 1 /\ Len(todo) + 1 - k = Len(todo)
          \/ /\ k - 1 \in 1 .. Len(u) /\ (k - 1) + 1 = k
             /\ Len(u) + 1 - (k - 1) = Len(todo) + 1 - k
      BY ONLY <1>1, <2>a, <2>b, k \in 1 .. Len(todo)
    <3> QED  BY <2>1, <3>1
  <2>6. 1 \in 1 .. Len(todo) /\ Len(todo) + 1 - 1 = Len(todo)
    BY <1>1
  <2>7. ASSUME NEW x
        PROVE  x \in In(Library(todo), p)
                 <=> x \in {<<p, Len(todo), Head(todo)>>} \cup In(Library(u), p)
    <3>1. ASSUME x \in In(Library(todo), p)
          PROVE  x \in {<<p, Len(todo), Head(todo)>>} \cup In(Library(u), p)
      <4>1. PICK k \in 1 .. Len(todo) : x = <<p, Len(todo) + 1 - k, todo[k]>>
        BY <1>2, <3>1
      <4>2. CASE k = 1
        BY <1>1, <2>6, <4>1, <4>2
      <4>3. CASE k # 1
        <5>1. k - 1 \in 1 .. Len(u) /\ x = <<p, Len(u) + 1 - (k - 1), u[k - 1]>>
          BY <2>5, <4>1, <4>3
        <5> QED  BY <2>3, <5>1
      <4> QED  BY <4>2, <4>3
    <3>2. ASSUME x \in In(Library(u), p)
          PROVE  x \in In(Library(todo), p)
      <4>1. PICK k \in 1 .. Len(u) : x = <<p, Len(u) + 1 - k, u[k]>>
        BY <2>3, <3>2
      <4>2. x = <<p, Len(todo) + 1 - (k + 1), todo[k + 1]>> /\ k + 1 \in 1 .. Len(todo)
        BY <2>1, <2>4, <4>1
      <4> QED  BY <1>2, <4>2
    <3>3. <<p, Len(todo), Head(todo)>> \in In(Library(todo), p)
      BY <1>1, <1>2, <2>6
    <3> QED  BY <3>1, <3>2, <3>3
  <2> QED  BY <2>7
<1> QED
  BY <1>3, <1>4

(* What the things on the stack are to the deferreds that are derived.     *)
Parts(T, K, F, C, B) ==
  StackLinks(T) = K /\ FiresIn(T) = F /\ ChecksIn(T) = C /\ BodiesIn(T) = B

LEMMA PartsUnion ==
  ASSUME NEW T, NEW U
  PROVE  Parts(T \cup U, StackLinks(T) \cup StackLinks(U),
               FiresIn(T) \cup FiresIn(U), ChecksIn(T) \cup ChecksIn(U),
               BodiesIn(T) \cup BodiesIn(U))
<1>1. StackLinks(T \cup U) = StackLinks(T) \cup StackLinks(U)
  BY DEF StackLinks
<1>2. FiresIn(T \cup U) = FiresIn(T) \cup FiresIn(U)
  BY DEF FiresIn
<1>3. ChecksIn(T \cup U) = ChecksIn(T) \cup ChecksIn(U)
  BY DEF ChecksIn
<1>4. BodiesIn(T \cup U) = BodiesIn(T) \cup BodiesIn(U)
  BY DEF BodiesIn
<1> QED
  BY <1>1, <1>2, <1>3, <1>4 DEF Parts

LEMMA PartsNone == Parts({}, {}, {}, {}, {})
BY DEF Parts, StackLinks, FiresIn, ChecksIn, BodiesIn

(* A call that only a list of notifications, or a user, has to do with.    *)
Silent(x) ==
  \/ x.call = "add" /\ (x.a = "notify" \/ ~IsLink(x.f))
  \/ x.call = "fire" /\ x.a = "notify"

LEMMA SilentThing ==
  ASSUME NEW p, NEW q, q # 0, NEW x, Silent(x)
  PROVE  Parts({<<p, q, x>>}, {}, {}, {}, {})
<1>1. StackLinks({<<p, q, x>>}) = {}
  <2> SUFFICES ASSUME NEW y \in Links, IsLink(y.x), x = Adds(y.d, y.a, y.x)
               PROVE  FALSE
    BY DEF StackLinks
  <2>1. x.call = "add" /\ x.a = y.a /\ x.f = y.x /\ y.a \in Settling
    BY DEF Adds, Links
  <2> QED  BY <2>1 DEF Silent, Settling
<1>2. FiresIn({<<p, q, x>>}) = {}
  <2> SUFFICES ASSUME NEW d \in Deferreds, NEW a \in Settling, NEW v, x = Fires(d, a, v)
               PROVE  FALSE
    BY DEF FiresIn
  <2>1. x.call = "fire" /\ x.a = a
    BY DEF Fires
  <2> QED  BY <2>1 DEF Silent, Settling
<1>3. ChecksIn({<<p, q, x>>}) = {}
  <2> SUFFICES ASSUME NEW n \in Deferreds, x = Checks(n)
               PROVE  FALSE
    BY DEF ChecksIn
  <2>1. x.call = "check"
    BY DEF Checks
  <2> QED  BY <2>1 DEF Silent
<1>4. BodiesIn({<<p, q, x>>}) = {}
  BY DEF BodiesIn
<1> QED
  BY <1>1, <1>2, <1>3, <1>4 DEF Parts

LEMMA FireThing ==
  ASSUME NEW p, NEW q, q # 0, NEW d \in Deferreds, NEW a \in Settling, NEW v
  PROVE  Parts({<<p, q, Fires(d, a, v)>>}, {}, {<<d, a>>}, {}, {})
<1> DEFINE x == Fires(d, a, v)
<1>0. x.call = "fire" /\ x.d = d /\ x.a = a
  BY DEF Fires
<1> HIDE DEF x
<1>1. StackLinks({<<p, q, x>>}) = {}
  <2> SUFFICES ASSUME NEW y \in Links, x = Adds(y.d, y.a, y.x)
               PROVE  FALSE
    BY DEF StackLinks
  <2>1. x.call = "add"
    BY DEF Adds
  <2> QED  BY <1>0, <2>1
<1>2. FiresIn({<<p, q, x>>}) = {<<d, a>>}
  <2>1. ASSUME NEW e \in Deferreds, NEW b \in Settling, NEW u, x = Fires(e, b, u)
        PROVE  e = d /\ b = a
    BY <1>0, <2>1 DEF Fires
  <2>2. <<d, a>> \in FiresIn({<<p, q, x>>})
    BY DEF FiresIn, x
  <2>3. \A t \in FiresIn({<<p, q, x>>}) : t = <<d, a>>
    BY <2>1 DEF FiresIn
  <2> QED  BY <2>2, <2>3
<1>3. ChecksIn({<<p, q, x>>}) = {}
  <2> SUFFICES ASSUME NEW n \in Deferreds, x = Checks(n)
               PROVE  FALSE
    BY DEF ChecksIn
  <2>1. x.call = "check"
    BY DEF Checks
  <2> QED  BY <1>0, <2>1
<1>4. BodiesIn({<<p, q, x>>}) = {}
  BY DEF BodiesIn
<1> QED
  BY <1>1, <1>2, <1>3, <1>4 DEF Parts, x

LEMMA CheckThing ==
  ASSUME NEW p, NEW q, q # 0, NEW n \in Deferreds
  PROVE  Parts({<<p, q, Checks(n)>>}, {}, {}, {n}, {})
<1> DEFINE x == Checks(n)
<1>0. x.call = "check" /\ x.d = n
  BY DEF Checks
<1> HIDE DEF x
<1>1. StackLinks({<<p, q, x>>}) = {}
  <2> SUFFICES ASSUME NEW y \in Links, x = Adds(y.d, y.a, y.x)
               PROVE  FALSE
    BY DEF StackLinks
  <2>1. x.call = "add"
    BY DEF Adds
  <2> QED  BY <1>0, <2>1
<1>2. FiresIn({<<p, q, x>>}) = {}
  <2> SUFFICES ASSUME NEW e \in Deferreds, NEW b \in Settling, NEW u, x = Fires(e, b, u)
               PROVE  FALSE
    BY DEF FiresIn
  <2>1. x.call = "fire"
    BY DEF Fires
  <2> QED  BY <1>0, <2>1
<1>3. ChecksIn({<<p, q, x>>}) = {n}
  <2>1. ASSUME NEW e \in Deferreds, x = Checks(e)
        PROVE  e = n
    BY <1>0, <2>1 DEF Checks
  <2>2. n \in ChecksIn({<<p, q, x>>})
    BY DEF ChecksIn, x
  <2>3. \A t \in ChecksIn({<<p, q, x>>}) : t = n
    BY <2>1 DEF ChecksIn
  <2> QED  BY <2>2, <2>3
<1>4. BodiesIn({<<p, q, x>>}) = {}
  BY DEF BodiesIn
<1> QED
  BY <1>1, <1>2, <1>3, <1>4 DEF Parts, x

LEMMA SameLink ==
  ASSUME NEW y \in Links, NEW z \in Links, y.at = z.at, y.d = z.d, y.a = z.a,
         y.i = z.i, y.j = z.j, y.x = z.x
  PROVE  y = z
BY DEF Links

LEMMA LinkThing ==
  ASSUME NEW y \in Links, y.at = "stack", y.j # 0, IsLink(y.x)
  PROVE  Parts({<<y.i, y.j, Adds(y.d, y.a, y.x)>>}, {y}, {}, {}, {})
<1> DEFINE x == Adds(y.d, y.a, y.x)
<1>0. x.call = "add" /\ x.d = y.d /\ x.a = y.a /\ x.f = y.x
  BY DEF Adds
<1> HIDE DEF x
<1>1. StackLinks({<<y.i, y.j, x>>}) = {y}
  <2>1. ASSUME NEW z \in StackLinks({<<y.i, y.j, x>>})
        PROVE  z = y
    <3>1. /\ z \in Links /\ z.at = "stack"
          /\ z.i = y.i /\ z.j = y.j /\ x = Adds(z.d, z.a, z.x)
      BY DEF StackLinks
    <3>2. z.d = x.d /\ z.a = x.a /\ z.x = x.f
      BY <3>1 DEF Adds
    <3> QED  BY <1>0, <3>1, <3>2, SameLink
  <2>2. y \in StackLinks({<<y.i, y.j, x>>})
    BY DEF StackLinks, x
  <2> QED  BY <2>1, <2>2
<1>2. FiresIn({<<y.i, y.j, x>>}) = {}
  <2> SUFFICES ASSUME NEW e \in Deferreds, NEW b \in Settling, NEW u, x = Fires(e, b, u)
               PROVE  FALSE
    BY DEF FiresIn
  <2>1. x.call = "fire"
    BY DEF Fires
  <2> QED  BY <1>0, <2>1
<1>3. ChecksIn({<<y.i, y.j, x>>}) = {}
  <2> SUFFICES ASSUME NEW n \in Deferreds, x = Checks(n)
               PROVE  FALSE
    BY DEF ChecksIn
  <2>1. x.call = "check"
    BY DEF Checks
  <2> QED  BY <1>0, <2>1
<1>4. BodiesIn({<<y.i, y.j, x>>}) = {}
  BY DEF BodiesIn
<1> QED
  BY <1>1, <1>2, <1>3, <1>4 DEF Parts, x

LEMMA BodyThing ==
  ASSUME NEW p \in Nat, NEW f \in Fn, NEW d \in Deferreds, NEW a \in Settling
  PROVE  Parts({<<p, 0, Body(f, d, a)>>}, {}, {}, {},
               {[i |-> p, f |-> f, d |-> d, a |-> a]})
<1> DEFINE x == Body(f, d, a)
           b == [i |-> p, f |-> f, d |-> d, a |-> a]
<1>0. x.f = f /\ x.d = d /\ x.a = a
  BY DEF Body
<1> HIDE DEF x
<1>1. /\ StackLinks({<<p, 0, x>>}) = {} /\ FiresIn({<<p, 0, x>>}) = {}
      /\ ChecksIn({<<p, 0, x>>}) = {}
  BY DEF StackLinks, FiresIn, ChecksIn
<1>2. BodiesIn({<<p, 0, x>>}) = {b}
  <2>1. b \in BodiesIn({<<p, 0, x>>})
    BY DEF BodiesIn, x
  <2>2. ASSUME NEW c \in BodiesIn({<<p, 0, x>>})
        PROVE  c = b
    <3>1. /\ c \in [i : Nat, f : Fn, d : Deferreds, a : Settling]
          /\ c.i = p /\ x = Body(c.f, c.d, c.a)
      BY DEF BodiesIn
    <3>2. c.f = x.f /\ c.d = x.d /\ c.a = x.a
      BY <3>1 DEF Body
    <3> QED  BY <1>0, <3>1, <3>2
  <2> QED  BY <2>1, <2>2
<1> QED
  BY <1>1, <1>2 DEF Parts, x

(* A filter for the progress settles nothing.                              *)
LEMMA QuietBody ==
  ASSUME NEW p, NEW f, NEW d, NEW a, a \notin Settling
  PROVE  Parts({<<p, 0, Body(f, d, a)>>}, {}, {}, {}, {})
<1> DEFINE x == Body(f, d, a)
<1>0. x.a = a
  BY DEF Body
<1> HIDE DEF x
<1>1. /\ StackLinks({<<p, 0, x>>}) = {} /\ FiresIn({<<p, 0, x>>}) = {}
      /\ ChecksIn({<<p, 0, x>>}) = {}
  BY DEF StackLinks, FiresIn, ChecksIn
<1>2. BodiesIn({<<p, 0, x>>}) = {}
  <2> SUFFICES ASSUME NEW c \in BodiesIn({<<p, 0, x>>})
               PROVE  FALSE
    OBVIOUS
  <2>1. c.a \in Settling /\ x = Body(c.f, c.d, c.a)
    BY DEF BodiesIn
  <2>2. x.a = c.a
    BY <2>1 DEF Body
  <2> QED  BY <1>0, <2>1, <2>2
<1> QED
  BY <1>1, <1>2 DEF Parts, x

(* What the step of the stack makes of it.                                 *)
LEMMA TopThings ==
  ASSUME NEW M, Stack(M, calls), calls # <<>>
  PROVE  /\ Things(calls) = In(Top, Len(calls)) \cup Things(Below)
         /\ Len(calls) \in Nat \ {0} /\ Len(calls) = Len(Below) + 1
         /\ \A t \in Things(Below) : t[1] # Len(calls)
<1>1. /\ Below \in Seq(Frames(M)) /\ Top \in Frames(M) /\ calls = <<Top>> \o Below
      /\ Len(calls) = Len(Below) + 1 /\ Len(calls) \in Nat \ {0} /\ Len(Below) \in Nat
  <2>1. calls \in Seq(Frames(M))
    BY DEF Stack
  <2> QED  BY <2>1 DEF Top, Below
<1>2. Things(calls) = In(Top, Len(calls)) \cup Things(Below)
  BY <1>1, ThingsPush
<1>3. Stack(M, Below)
  BY Pop DEF Below
<1>4. \A t \in Things(Below) : t[1] \in 1 .. Len(Below)
  BY <1>3, ThingPlaces
<1> QED
  BY <1>1, <1>2, <1>4

LEMMA PushThings ==
  ASSUME NEW M, NEW s, Stack(M, s), NEW N, M \subseteq N, NEW f \in Frames(N)
  PROVE  /\ Things(<<f>> \o s) = In(f, Len(s) + 1) \cup Things(s)
         /\ Len(s) \in Nat
         /\ \A t \in Things(s) : t[1] # Len(s) + 1
<1>1. s \in Seq(Frames(N)) /\ Len(s) \in Nat
  BY StackGrows DEF Stack
<1>2. \A t \in Things(s) : t[1] \in 1 .. Len(s)
  BY ThingPlaces
<1> QED
  BY <1>1, <1>2, ThingsPush

-----------------------------------------------------------------------------
(* The invariant of what is derived.  The list for the progress of a       *)
(* deferred is linked with such lists only.                                *)
NotifyLink(x) ==
  IsLink(x) => ~Counts(x) /\ x.a = "notify"
ListFits(l) == l # Off => \A k \in DOMAIN l : NotifyLink(l[k])
ThingFits(t) ==
  t[2] # 0 /\ t[3].call = "add" /\ t[3].a = "notify" => NotifyLink(t[3].f)
NotifyLinks ==
  /\ \A d \in Made : ListFits(cb[d]["notify"].list)
  /\ \A t \in Things(calls) : ThingFits(t)

DerivedTypes ==
  /\ owned \cap derived = {} /\ tied \subseteq derived
  /\ follows \in [Deferreds -> SUBSET Deferreds]
  /\ remaining \in [Deferreds -> 0 .. 2]
  /\ \A d \in Deferreds \ derived : remaining[d] = 0

VInv == DerivedTypes /\ NotifyLinks /\ Fits(View)

(* What the changes of one list do to the links that wait.                 *)
OneCell(d, a) ==
  \A e \in Deferreds, b \in Actions : e # d \/ b # a => cb'[e][b] = cb[e][b]

LEMMA LinksSame ==
  ASSUME \A e \in Deferreds, b \in Settling : \A k, x :
           Waits(cb'[e][b], k, x) <=> Waits(cb[e][b], k, x)
  PROVE  ListLinks' = ListLinks
BY DEF ListLinks, Links

LEMMA LinksCell ==
  ASSUME NEW d \in Deferreds, NEW a \in Actions, OneCell(d, a),
         a \in Settling => \A k, x :
           Waits(cb'[d][a], k, x) <=> Waits(cb[d][a], k, x)
  PROVE  ListLinks' = ListLinks
<1> SUFFICES ASSUME NEW e \in Deferreds, NEW b \in Settling, NEW k, NEW x
             PROVE  Waits(cb'[e][b], k, x) <=> Waits(cb[e][b], k, x)
  BY LinksSame
<1>1. CASE e = d /\ b = a
  BY <1>1
<1>2. CASE e # d \/ b # a
  BY <1>2, ActionFacts DEF OneCell
<1> QED
  BY <1>1, <1>2

LEMMA LinksLess ==
  ASSUME NEW d \in Deferreds, NEW a \in Settling, OneCell(d, a),
         NEW i \in Nat, NEW l \in Others(Deferreds), Waits(cb[d][a], i, l),
         \A k, x : Waits(cb'[d][a], k, x) <=> Waits(cb[d][a], k, x) /\ k # i
  PROVE  \E y \in ListLinks : /\ y.d = d /\ y.a = a /\ y.x = l /\ y.at = "list"
                              /\ ListLinks' = ListLinks \ {y}
<1> DEFINE y == [at |-> "list", d |-> d, a |-> a, i |-> i, j |-> 0, x |-> l]
<1>1. /\ y \in Links /\ y.at = "list" /\ y.d = d /\ y.a = a /\ y.i = i /\ y.j = 0
      /\ y.x = l
  BY DEF Links
<1> HIDE DEF y
<1>2. y \in ListLinks
  BY <1>1 DEF ListLinks
<1>3. ASSUME NEW z \in Links
      PROVE  z \in ListLinks' <=> z \in ListLinks /\ z # y
  <2>0. z.d \in Deferreds /\ z.a \in Settling /\ z.a \in Actions
    BY ActionFacts DEF Links
  <2>1. CASE z.d # d \/ z.a # a
    BY <1>1, <2>0, <2>1 DEF OneCell, ListLinks
  <2>2. CASE z.d = d /\ z.a = a /\ z.i # i
    <3>1. Waits(cb'[d][a], z.i, z.x) <=> Waits(cb[d][a], z.i, z.x)
      BY <2>2
    <3> QED  BY <1>1, <2>2, <3>1 DEF ListLinks
  <2>3. CASE z.d = d /\ z.a = a /\ z.i = i
    <3>1. ~Waits(cb'[d][a], z.i, z.x)
      BY <2>3
    <3>2. z \notin ListLinks'
      BY <2>3, <3>1 DEF ListLinks
    <3>3. ASSUME z \in ListLinks
          PROVE  z = y
      <4>1. z.at = "list" /\ z.j = 0 /\ Waits(cb[d][a], i, z.x)
        BY <2>3, <3>3 DEF ListLinks
      <4>2. z.x = l
        BY <4>1 DEF Waits
      <4> QED  BY <1>1, <2>3, <4>1, <4>2, SameLink
    <3> QED  BY <3>2, <3>3
  <2> QED  BY <2>1, <2>2, <2>3
<1>4. ListLinks \subseteq Links /\ ListLinks' \subseteq Links
  BY DEF ListLinks
<1>5. ListLinks' = ListLinks \ {y}
  BY <1>3, <1>4
<1> QED
  BY <1>1, <1>2, <1>5

LEMMA LinksMore ==
  ASSUME NEW d \in Deferreds, NEW a \in Settling, OneCell(d, a),
         NEW i \in Nat, NEW l \in Others(Deferreds), IsLink(l),
         \A x : ~Waits(cb[d][a], i, x),
         \A k, x : Waits(cb'[d][a], k, x)
                     <=> Waits(cb[d][a], k, x) \/ (k = i /\ x = l)
  PROVE  \E y \in Links : /\ y \notin ListLinks /\ y.at = "list"
                          /\ y.d = d /\ y.a = a /\ y.x = l
                          /\ ListLinks' = ListLinks \cup {y}
<1> DEFINE y == [at |-> "list", d |-> d, a |-> a, i |-> i, j |-> 0, x |-> l]
<1>1. /\ y \in Links /\ y.at = "list" /\ y.d = d /\ y.a = a /\ y.i = i /\ y.j = 0
      /\ y.x = l
  BY DEF Links
<1> HIDE DEF y
<1>2. y \notin ListLinks
  BY <1>1 DEF ListLinks
<1>a. Waits(cb'[d][a], i, l)
  OBVIOUS
<1>b. y \in ListLinks'
  BY <1>1, <1>a DEF ListLinks
<1>3. ASSUME NEW z \in Links, z # y
      PROVE  z \in ListLinks' <=> z \in ListLinks
  <2>0. z.d \in Deferreds /\ z.a \in Settling /\ z.a \in Actions
    BY ActionFacts DEF Links
  <2>1. CASE z.d # d \/ z.a # a
    BY <2>0, <2>1 DEF OneCell, ListLinks
  <2>2. CASE z.d = d /\ z.a = a
    <3>0. ASSUME z.at = "list", z.j = 0
          PROVE  ~(z.i = i /\ z.x = l)
      BY <1>1, <1>3, <2>2, <3>0, SameLink
    <3>1. ASSUME z.at = "list", z.j = 0
          PROVE  Waits(cb'[d][a], z.i, z.x) <=> Waits(cb[d][a], z.i, z.x)
      BY <3>0, <3>1
    <3> QED  BY <2>2, <3>1 DEF ListLinks
  <2> QED  BY <2>1, <2>2
<1>4. ListLinks \subseteq Links /\ ListLinks' \subseteq Links
  BY DEF ListLinks
<1>5. ListLinks' = ListLinks \cup {y}
  BY <1>1, <1>b, <1>3, <1>4
<1> QED
  BY <1>1, <1>2, <1>5

LEMMA LinksGone ==
  ASSUME NEW d \in Deferreds, NEW a \in Settling, OneCell(d, a), cb'[d][a].list = Off
  PROVE  /\ ListLinks' \subseteq ListLinks
         /\ \A y \in ListLinks \ ListLinks' : y.d = d /\ y.a = a
<1>1. \A z \in Links : z.d \in Deferreds /\ z.a \in Settling /\ z.a \in Actions
  BY ActionFacts DEF Links
<1>2. \A k, x : ~Waits(cb'[d][a], k, x)
  BY DEF Waits
<1>3. ASSUME NEW z \in Links
      PROVE  /\ z \in ListLinks' => z \in ListLinks
             /\ z \in ListLinks /\ z \notin ListLinks' => z.d = d /\ z.a = a
  <2>1. CASE z.d # d \/ z.a # a
    BY <1>1, <2>1 DEF OneCell, ListLinks
  <2>2. CASE z.d = d /\ z.a = a
    BY <1>2, <2>2 DEF ListLinks
  <2> QED  BY <2>1, <2>2
<1>4. ListLinks \subseteq Links /\ ListLinks' \subseteq Links
  BY DEF ListLinks
<1> QED
  BY <1>3, <1>4

(* Which way the deferreds went changes with one list.                     *)
LEMMA WentCell ==
  ASSUME NEW d \in Deferreds, NEW a \in Actions, OneCell(d, a)
  PROVE  /\ \A e \in Deferreds, b \in Settling : e # d \/ b # a =>
              (<<e, b>> \in WentNow' <=> <<e, b>> \in WentNow)
         /\ a \in Settling =>
              /\ <<d, a>> \in WentNow <=> cb[d][a].list # Off /\ cb[d][a].fired
              /\ <<d, a>> \in WentNow' <=> cb'[d][a].list # Off /\ cb'[d][a].fired
         /\ WentNow \subseteq Deferreds \X Settling
         /\ WentNow' \subseteq Deferreds \X Settling
<1>1. \A e \in Deferreds, b \in Settling :
        /\ <<e, b>> \in WentNow <=> cb[e][b].list # Off /\ cb[e][b].fired
        /\ <<e, b>> \in WentNow' <=> cb'[e][b].list # Off /\ cb'[e][b].fired
  BY DEF WentNow
<1> QED
  BY <1>1, ActionFacts DEF OneCell, WentNow

LEMMA WentSame ==
  ASSUME NEW d \in Deferreds, NEW a \in Actions, OneCell(d, a),
         a \in Settling =>
           (cb'[d][a].list # Off /\ cb'[d][a].fired
              <=> cb[d][a].list # Off /\ cb[d][a].fired)
  PROVE  WentNow' = WentNow
<1>1. \A e \in Deferreds, b \in Settling :
        <<e, b>> \in WentNow' <=> <<e, b>> \in WentNow
  BY WentCell
<1>2. WentNow \subseteq Deferreds \X Settling /\ WentNow' \subseteq Deferreds \X Settling
  BY WentCell
<1>3. \A u \in Deferreds \X Settling : u \in WentNow' <=> u \in WentNow
  BY <1>1
<1> QED
  BY <1>2, <1>3

LEMMA ViewFields ==
  /\ View.links = ListLinks \cup StackLinks(Things(calls))
  /\ View.fires = FiresIn(Things(calls)) /\ View.checks = ChecksIn(Things(calls))
  /\ View.bodies = BodiesIn(Things(calls)) /\ View.went = WentNow
  /\ View.follows = follows /\ View.remaining = remaining
  /\ View.derived = derived /\ View.tied = tied /\ View.thrown = thrown
BY DEF View

LEMMA NextViewFields ==
  /\ View'.links = ListLinks' \cup StackLinks(Things(calls'))
  /\ View'.fires = FiresIn(Things(calls')) /\ View'.checks = ChecksIn(Things(calls'))
  /\ View'.bodies = BodiesIn(Things(calls')) /\ View'.went = WentNow'
  /\ View'.follows = follows' /\ View'.remaining = remaining'
  /\ View'.derived = derived' /\ View'.tied = tied' /\ View'.thrown = thrown'
BY DEF View, StackLinks, FiresIn, ChecksIn, BodiesIn, Things

LEMMA ViewSame ==
  ASSUME Fits(View), ListLinks' = ListLinks, WentNow' = WentNow,
         Parts(Things(calls'), StackLinks(Things(calls)), FiresIn(Things(calls)),
               ChecksIn(Things(calls)), BodiesIn(Things(calls))),
         UNCHANGED <<follows, remaining, derived, tied, thrown>>
  PROVE  Fits(View')
<1>1. View' = View
  BY DEF View, Parts, StackLinks, FiresIn, ChecksIn, BodiesIn, Things
<1> QED
  BY <1>1

(* A frame is put on the stack, or taken from it.                          *)
LEMMA StackPush ==
  ASSUME NEW M, NEW s, Stack(M, s), NEW N, M \subseteq N, NEW f \in Frames(N),
         NEW K, NEW F, NEW C, NEW B, Parts(In(f, Len(s) + 1), K, F, C, B)
  PROVE  Parts(Things(<<f>> \o s), StackLinks(Things(s)) \cup K,
               FiresIn(Things(s)) \cup F, ChecksIn(Things(s)) \cup C,
               BodiesIn(Things(s)) \cup B)
<1>1. Things(<<f>> \o s) = In(f, Len(s) + 1) \cup Things(s)
  BY PushThings
<1>2. Parts(In(f, Len(s) + 1) \cup Things(s), K \cup StackLinks(Things(s)),
            F \cup FiresIn(Things(s)), C \cup ChecksIn(Things(s)),
            B \cup BodiesIn(Things(s)))
  BY PartsUnion DEF Parts
<1> QED
  BY <1>1, <1>2 DEF Parts

LEMMA StackPop ==
  ASSUME NEW M, Stack(M, calls), calls # <<>>,
         NEW K, NEW F, NEW C, NEW B, Parts(In(Top, Len(calls)), K, F, C, B)
  PROVE  Parts(Things(calls), StackLinks(Things(Below)) \cup K,
               FiresIn(Things(Below)) \cup F, ChecksIn(Things(Below)) \cup C,
               BodiesIn(Things(Below)) \cup B)
<1>1. Things(calls) = In(Top, Len(calls)) \cup Things(Below)
  BY TopThings
<1>2. Parts(In(Top, Len(calls)) \cup Things(Below), K \cup StackLinks(Things(Below)),
            F \cup FiresIn(Things(Below)), C \cup ChecksIn(Things(Below)),
            B \cup BodiesIn(Things(Below)))
  BY PartsUnion DEF Parts
<1> QED
  BY <1>1, <1>2 DEF Parts

(* The loop takes a step.                                                  *)
LEMMA WaitsAdvanced ==
  ASSUME NEW M, NEW c \in Lists(M), c.firing, NEW x, IsAdvanced(M, c, x),
         c.list # Off, c.firingIndex + 1 \in DOMAIN c.list
  PROVE  /\ \A k, l : Waits(x, k, l) <=> Waits(c, k, l) /\ k # c.firingIndex + 1
         /\ \A l : Waits(c, c.firingIndex + 1, l)
                     <=> l = c.list[c.firingIndex + 1] /\ IsLink(l)
<1>0. /\ c.list \in Seq(Firsts(M) \cup Others(M)) /\ c.firingIndex \in Nat
      /\ DOMAIN c.list = 1 .. Len(c.list) /\ Len(c.list) \in Nat
  BY DEF Lists
<1>1. /\ x.list = c.list /\ Reached(x) = Reached(c) + 1
      /\ Reached(c) = c.firingIndex
  BY DEF IsAdvanced, Reached
<1>2. \A k \in DOMAIN c.list : k > c.firingIndex + 1 <=> k > c.firingIndex /\ k # c.firingIndex + 1
  BY <1>0
<1>3. c.firingIndex + 1 > c.firingIndex
  BY <1>0
<1>4. \A k, l : Waits(x, k, l) <=> Waits(c, k, l) /\ k # c.firingIndex + 1
  BY <1>1, <1>2 DEF Waits
<1>5. \A l : Waits(c, c.firingIndex + 1, l)
               <=> l = c.list[c.firingIndex + 1] /\ IsLink(l)
  BY <1>1, <1>3 DEF Waits
<1> QED
  BY <1>4, <1>5

LEMMA AdvanceView ==
  ASSUME DInv, Looping, cb' = Advance, NEW d, NEW a, d = Top.d, a = Top.a
  PROVE  /\ d \in Deferreds /\ a \in Actions /\ OneCell(d, a)
         /\ WentNow' = WentNow
         /\ ~(a \in Settling /\ IsLink(Item)) => ListLinks' = ListLinks
         /\ a \in Settling /\ IsLink(Item) =>
              /\ <<d, a>> \in WentNow
              /\ \E y \in ListLinks : /\ y.d = d /\ y.a = a /\ y.x = Item
                                      /\ y.at = "list"
                                      /\ ListLinks' = ListLinks \ {y}
         /\ \A e \in Deferreds : cb'[e]["notify"].list = cb[e]["notify"].list
<1>1. PICK c : c = cb[d][a]
  OBVIOUS
<1>2. /\ d \in Made /\ d \in Deferreds /\ a \in Actions /\ c \in Lists(Made)
      /\ IndexFits(c) /\ c.firing
      /\ HasNext(c) /\ cb \in [Deferreds -> [Actions -> Lists(Made)]]
      /\ Made \subseteq Deferreds
  <2>1. Running("loop") /\ HasNext(c)
    BY <1>1 DEF Looping
  <2>2. /\ d \in Made /\ d \in Deferreds /\ a \in Actions /\ c \in Lists(Made)
        /\ IndexFits(c) /\ c.firing
    BY <1>1, <2>1, LoopFacts
  <2>3. cb \in [Deferreds -> [Actions -> Lists(Made)]] /\ Made \subseteq Deferreds
    BY DEF DInv, Types, Made
  <2> QED  BY <2>1, <2>2, <2>3
<1>3. /\ c.list # Off /\ c.list \in Seq(Firsts(Made) \cup Others(Made))
      /\ c.firingIndex \in Nat /\ c.firingIndex + 1 \in DOMAIN c.list
      /\ Item = c.list[c.firingIndex + 1]
      /\ \/ /\ Item \in Others(Made)
            /\ a \in Settling => state[d] = a /\ Done(Made, c)
         \/ Item.does \in {"settle", "disable", "lock"}
  <2>1. /\ c.list # Off /\ c.list \in Seq(Firsts(Made) \cup Others(Made))
        /\ c.firingIndex \in Nat /\ c.firingIndex + 1 \in DOMAIN c.list
        /\ Item = c.list[c.firingIndex + 1]
        /\ \/ /\ Item \in Others(Made)
              /\ a \in Settling => state[d] = a /\ Done(Made, c)
           \/ Item = Settle(d, a) \/ Item = Disable(d, Opposite(a))
           \/ Item = Lock(d, "notify")
    BY <1>1, ItemFacts
  <2> QED  BY <2>1 DEF Settle, Disable, Lock
<1>4. PICK x : x = Advanced(c)
  OBVIOUS
<1>5. IsAdvanced(Made, c, x)
  BY <1>2, <1>4, Advances
<1>6. cb' = [cb EXCEPT ![d][a] = x]
  BY <1>1, <1>4 DEF Advance
<1>7. x \in Lists(Made) /\ x.list = c.list /\ x.fired = c.fired
  BY <1>5 DEF IsAdvanced
<1>8. /\ cb'[d][a] = x /\ OneCell(d, a)
  BY <1>2, <1>6, <1>7, SetCell DEF OneCell
<1>9. /\ \A k, l : Waits(x, k, l) <=> Waits(c, k, l) /\ k # c.firingIndex + 1
      /\ \A l : Waits(c, c.firingIndex + 1, l) <=> l = Item /\ IsLink(l)
  BY <1>2, <1>3, <1>5, WaitsAdvanced
<1>10. WentNow' = WentNow
  BY <1>1, <1>2, <1>7, <1>8, WentSame
<1>11. ASSUME ~(a \in Settling /\ IsLink(Item))
       PROVE  ListLinks' = ListLinks
  <2>1. a \in Settling => \A k, l : Waits(x, k, l) <=> Waits(c, k, l)
    BY <1>9, <1>11
  <2> QED  BY <1>1, <1>2, <1>8, <2>1, LinksCell
<1>12. ASSUME a \in Settling, IsLink(Item)
       PROVE  /\ <<d, a>> \in WentNow
              /\ \E y \in ListLinks : /\ y.d = d /\ y.a = a /\ y.x = Item
                                      /\ y.at = "list"
                                      /\ ListLinks' = ListLinks \ {y}
  <2>1. Item \in Others(Made) /\ Done(Made, c)
    BY <1>3, <1>12 DEF IsLink
  <2>2. Item \in Others(Deferreds)
    BY <1>2, <2>1, ItemsGrow
  <2>3. <<d, a>> \in WentNow
    BY <1>1, <1>2, <1>12, <2>1 DEF WentNow, Done
  <2>4. Waits(c, c.firingIndex + 1, Item) /\ c.firingIndex + 1 \in Nat
    BY <1>3, <1>9, <1>12
  <2> QED  BY <1>1, <1>2, <1>8, <1>9, <1>12, <2>2, <2>3, <2>4, LinksLess
<1>13. ASSUME NEW e \in Deferreds
       PROVE  cb'[e]["notify"].list = cb[e]["notify"].list
  BY <1>1, <1>7, <1>8, ActionFacts DEF OneCell
<1> QED
  BY <1>2, <1>8, <1>10, <1>11, <1>12, <1>13

LEMMA NotifyKeeps ==
  ASSUME NotifyLinks,
         \A e \in Made' : \/ e \in Made /\ cb'[e]["notify"].list = cb[e]["notify"].list
                          \/ ListFits(cb'[e]["notify"].list),
         \A t \in Things(calls') : t \in Things(calls) \/ ThingFits(t)
  PROVE  NotifyLinks'
<1>1. \A e \in Made' : ListFits(cb'[e]["notify"].list)
  BY DEF NotifyLinks
<1>2. \A t \in Things(calls') : ThingFits(t)
  BY DEF NotifyLinks
<1> QED
  BY <1>1, <1>2 DEF NotifyLinks, ThingFits, Things, In

LEMMA NoListFits == ListFits(Off) /\ ListFits(<<>>)
BY DEF ListFits

(* What a frame that is put on the stack adds to what it is seen as.       *)
Pushed(K, F, C, B) ==
  /\ View'.links = ListLinks' \cup StackLinks(Things(calls)) \cup K
  /\ View'.fires = View.fires \cup F /\ View'.checks = View.checks \cup C
  /\ View'.bodies = View.bodies \cup B

LEMMA PushView ==
  ASSUME DInv, NEW f \in Frames(Made), calls' = <<f>> \o calls,
         NEW K, NEW F, NEW C, NEW B, Parts(In(f, Len(calls) + 1), K, F, C, B)
  PROVE  /\ Pushed(K, F, C, B)
         /\ \A t \in Things(calls') :
              t \in Things(calls) \/ t \in In(f, Len(calls) + 1)
<1>1. Stack(Made, calls)
  BY DEF DInv
<1>2. Parts(Things(<<f>> \o calls), StackLinks(Things(calls)) \cup K,
            FiresIn(Things(calls)) \cup F, ChecksIn(Things(calls)) \cup C,
            BodiesIn(Things(calls)) \cup B)
  BY <1>1, StackPush
<1>3. Things(<<f>> \o calls) = In(f, Len(calls) + 1) \cup Things(calls)
  BY <1>1, PushThings
<1>4. Parts(Things(calls'), StackLinks(Things(calls)) \cup K,
            FiresIn(Things(calls)) \cup F, ChecksIn(Things(calls)) \cup C,
            BodiesIn(Things(calls)) \cup B)
  BY <1>2
<1>5. View'.links = ListLinks' \cup StackLinks(Things(calls)) \cup K
  BY <1>4, NextViewFields DEF Parts
<1>6. /\ View'.fires = View.fires \cup F /\ View'.checks = View.checks \cup C
      /\ View'.bodies = View.bodies \cup B
  BY <1>4, ViewFields, NextViewFields DEF Parts
<1> QED
  BY <1>3, <1>5, <1>6 DEF Pushed

(* The link that a loop takes from its list.                               *)
LEMMA TakesLink ==
  ASSUME DInv, VInv, Looping, cb' = Advance, Top.a \in Settling, IsLink(Item)
  PROVE  \E y \in View.links :
           /\ y.d = Top.d /\ y.a = Top.a /\ y.x = Item /\ Went(View, y.d, y.a)
           /\ ListLinks' \cup StackLinks(Things(calls)) = View.links \ {y}
           /\ WentNow' = View.went /\ Item.d \in derived
           /\ IF Counts(Item) THEN Top.a = "resolve" ELSE Item.a = Top.a
<1>1. /\ <<Top.d, Top.a>> \in WentNow /\ WentNow' = WentNow
      /\ \E y \in ListLinks : /\ y.d = Top.d /\ y.a = Top.a /\ y.x = Item
                              /\ y.at = "list"
                              /\ ListLinks' = ListLinks \ {y}
  BY AdvanceView
<1>2. PICK y \in ListLinks : /\ y.d = Top.d /\ y.a = Top.a /\ y.x = Item
                             /\ y.at = "list"
                             /\ ListLinks' = ListLinks \ {y}
  BY <1>1
<1>3. y \notin StackLinks(Things(calls))
  BY <1>2 DEF StackLinks
<1>4. y \in View.links /\ ListLinks' \cup StackLinks(Things(calls)) = View.links \ {y}
  BY <1>2, <1>3, ViewFields
<1>5. Went(View, y.d, y.a) /\ WentNow' = View.went
  BY <1>1, <1>2, ViewFields DEF Went
<1>6. Shape(View) /\ View.derived = derived
  BY FitsShape, ViewFields DEF VInv
<1>7. /\ Item.d \in derived
      /\ IF Counts(Item) THEN Top.a = "resolve" ELSE Item.a = Top.a
  BY <1>2, <1>4, <1>6 DEF Shape
<1> QED
  BY <1>2, <1>4, <1>5, <1>7

(* The steps of a loop.                                                    *)
LEMMA AdvanceKeeps ==
  ASSUME DInv, VInv, Looping, cb' = Advance, UNCHANGED <<owned, derived, follows, tied>>,
         remaining' \in [Deferreds -> 0 .. 2],
         \A n \in Deferreds \ derived : remaining'[n] = 0,
         Fits(View'),
         \A t \in Things(calls') : t \in Things(calls) \/ ThingFits(t)
  PROVE  VInv'
<1>1. \A e \in Deferreds : cb'[e]["notify"].list = cb[e]["notify"].list
  BY AdvanceView
<1>2. Made' = Made /\ Made \subseteq Deferreds
  BY DEF Made, DInv, Types
<1>3. NotifyLinks'
  BY <1>1, <1>2, NotifyKeeps DEF VInv
<1>4. DerivedTypes'
  BY DEF VInv, DerivedTypes
<1> QED
  BY <1>3, <1>4 DEF VInv

LEMMA CallUserView ==
  ASSUME DInv, VInv, CallUser
  PROVE  VInv'
<1>1. /\ Looping /\ Item.does = "user" /\ cb' = Advance
      /\ calls' = <<Body(Item.f, Off, Off)>> \o calls
      /\ UNCHANGED <<owned, derived, follows, remaining, tied, thrown>>
  BY DEF CallUser
<1>2. Item.f \in Fn
  BY <1>1, ItemOther, OtherKinds
<1>3. PICK f : f = Body(Item.f, Off, Off)
  OBVIOUS
<1>4. f \in Frames(Made) /\ calls' = <<f>> \o calls
  BY <1>1, <1>2, <1>3, NewFrames
<1>5. In(f, Len(calls) + 1) = {}
  BY <1>3 DEF In, Body
<1>a. Parts(In(f, Len(calls) + 1), {}, {}, {}, {})
  BY <1>5, PartsNone
<1>6. \A t \in Things(calls') : t \in Things(calls)
  BY <1>4, <1>5, <1>a, PushView
<1>7. ListLinks' = ListLinks /\ WentNow' = WentNow
  BY <1>1, AdvanceView DEF IsLink
<1>8. Stack(Made, calls)
  BY DEF DInv
<1>9. Parts(Things(calls'), StackLinks(Things(calls)), FiresIn(Things(calls)),
            ChecksIn(Things(calls)), BodiesIn(Things(calls)))
  <2>1. Parts(Things(<<f>> \o calls), StackLinks(Things(calls)) \cup {},
              FiresIn(Things(calls)) \cup {}, ChecksIn(Things(calls)) \cup {},
              BodiesIn(Things(calls)) \cup {})
    BY <1>4, <1>8, <1>a, StackPush
  <2> QED  BY <1>4, <2>1
<1>10. Fits(View')
  BY <1>1, <1>7, <1>9, ViewSame DEF VInv
<1> QED
  BY <1>1, <1>6, <1>10, AdvanceKeeps DEF VInv, DerivedTypes

(* One call on the stack that is new.                                      *)
LEMMA OneCall ==
  ASSUME NEW S, NEW x \in S, NEW p
  PROVE  In(Library(<<x>>), p) = {<<p, 1, x>>}
<1>1. PICK s : s = <<x>>
  OBVIOUS
<1>2. s \in Seq(S) /\ s # <<>> /\ Len(s) = 1 /\ Head(s) = x
  BY <1>1
<1>3. In(Library(s), p) = {<<p, 1, Head(s)>>}
  BY <1>2, InLibrary
<1> QED
  BY <1>1, <1>2, <1>3

LEMMA CallForwardView ==
  ASSUME DInv, VInv, CallForward
  PROVE  VInv'
<1>1. /\ Looping /\ Item.does \in {"forward", "filter"}
      /\ Item.does = "filter" => Item.f = Off
      /\ cb' = Advance
      /\ calls' = <<Library(<<Fires(Item.d, Item.a, Top.v)>>)>> \o calls
      /\ UNCHANGED <<owned, derived, follows, remaining, tied, thrown>>
  BY DEF CallForward, history
<1>2. /\ Item.d \in Made /\ Item.a \in Actions /\ Made \subseteq Deferreds
      /\ Item \in Others(Made)
  BY <1>1, ItemOther, OtherKinds DEF DInv, Types, Made
<1>3. Top.v \in Nat /\ Top.d \in Made /\ Top.a \in Actions
  BY <1>1, LoopFacts DEF Looping
<1>4. PICK p : p = Len(calls) + 1
  OBVIOUS
<1>5. PICK x : x = Fires(Item.d, Item.a, Top.v)
  OBVIOUS
<1>6. PICK f : f = Library(<<x>>)
  OBVIOUS
<1>7. x \in Jobs(Made) /\ x.call = "fire" /\ x.a = Item.a
  BY <1>2, <1>3, <1>5, NewJobs DEF Fires
<1>8. f \in Frames(Made) /\ calls' = <<f>> \o calls
  BY <1>1, <1>2, <1>3, <1>5, <1>6, QuietFires
<1>9. In(f, p) = {<<p, 1, x>>}
  BY <1>6, <1>7, OneCall
<1>10. ASSUME NEW K, NEW F, NEW C, NEW B, Parts({<<p, 1, x>>}, K, F, C, B)
       PROVE  /\ Pushed(K, F, C, B)
              /\ \A t \in Things(calls') : t \in Things(calls) \/ t = <<p, 1, x>>
              /\ Parts(Things(calls'), StackLinks(Things(calls)) \cup K,
                       FiresIn(Things(calls)) \cup F, ChecksIn(Things(calls)) \cup C,
                       BodiesIn(Things(calls)) \cup B)
  <2>1. Parts(In(f, Len(calls) + 1), K, F, C, B)
    BY <1>4, <1>9, <1>10
  <2>2. /\ Pushed(K, F, C, B)
        /\ \A t \in Things(calls') :
             t \in Things(calls) \/ t \in In(f, Len(calls) + 1)
    BY <1>8, <2>1, PushView
  <2>3. Stack(Made, calls)
    BY DEF DInv
  <2>4. Parts(Things(<<f>> \o calls), StackLinks(Things(calls)) \cup K,
              FiresIn(Things(calls)) \cup F, ChecksIn(Things(calls)) \cup C,
              BodiesIn(Things(calls)) \cup B)
    BY <1>8, <2>1, <2>3, StackPush
  <2> QED  BY <1>4, <1>8, <1>9, <2>2, <2>4
<1>11. ThingFits(<<p, 1, x>>)
  BY <1>7 DEF ThingFits
<1>12. IsLink(Item) /\ ~Counts(Item) /\ ~Filters(Item)
  BY <1>1 DEF IsLink, Counts, Filters
<1>13. CASE Top.a \in Settling
  <2>1. PICK y \in View.links :
           /\ y.x = Item /\ y.a = Top.a /\ Went(View, y.d, y.a)
           /\ ListLinks' \cup StackLinks(Things(calls)) = View.links \ {y}
           /\ WentNow' = View.went /\ Item.a = Top.a
    BY <1>1, <1>12, <1>13, TakesLink
  <2>a. 1 # 0 /\ Item.d \in Deferreds /\ Item.a \in Settling
    BY <1>2, <1>13, <2>1
  <2>2. Parts({<<p, 1, x>>}, {}, {<<Item.d, Item.a>>}, {}, {})
    BY <1>5, <2>a, FireThing
  <2>c. PICK u : u = {<<Item.d, Item.a>>}
    OBVIOUS
  <2>b. Parts({<<p, 1, x>>}, {}, u, {}, {})
    BY <2>2, <2>c
  <2>3. /\ Pushed({}, u, {}, {})
        /\ \A t \in Things(calls') : t \in Things(calls) \/ t = <<p, 1, x>>
    BY <1>10, <2>b
  <2>4. /\ View'.links = View.links \ {y}
        /\ View'.fires = View.fires \cup {<<y.x.d, y.a>>}
        /\ View'.checks = View.checks /\ View'.bodies = View.bodies
        /\ View'.went = View.went
        /\ Alike(View, View') /\ View'.remaining = View.remaining
    BY <1>1, <2>1, <2>3, <2>c, ViewFields, NextViewFields DEF Alike, AllAlike, Pushed
  <2>5. Fits(View')
    BY <1>12, <2>1, <2>4, ForwardKeeps DEF VInv
  <2> QED  BY <1>1, <1>11, <2>3, <2>5, AdvanceKeeps DEF VInv, DerivedTypes
<1>14. CASE Top.a \notin Settling
  <2>1. Top.a = "notify"
    BY <1>3, <1>14, ActionFacts
  <2>2. NotifyLink(Item)
    <3>1. PICK c : c = cb[Top.d]["notify"]
      OBVIOUS
    <3>2. c.list # Off /\ c.firingIndex + 1 \in DOMAIN c.list /\ Item = c.list[c.firingIndex + 1]
      BY <1>1, <2>1, <3>1, ItemFacts
    <3> QED  BY <1>3, <3>1, <3>2 DEF VInv, NotifyLinks, ListFits
  <2>3. Silent(x)
    BY <1>7, <1>12, <2>2 DEF NotifyLink, Silent
  <2>a. 1 # 0
    OBVIOUS
  <2>4. Parts({<<p, 1, x>>}, {}, {}, {}, {})
    BY <2>3, <2>a, SilentThing
  <2>5. /\ \A t \in Things(calls') : t \in Things(calls) \/ t = <<p, 1, x>>
        /\ Parts(Things(calls'), StackLinks(Things(calls)) \cup {},
                 FiresIn(Things(calls)) \cup {}, ChecksIn(Things(calls)) \cup {},
                 BodiesIn(Things(calls)) \cup {})
    BY <1>10, <2>4
  <2>6. ListLinks' = ListLinks /\ WentNow' = WentNow
    BY <1>1, <1>14, AdvanceView
  <2>7. Parts(Things(calls'), StackLinks(Things(calls)), FiresIn(Things(calls)),
              ChecksIn(Things(calls)), BodiesIn(Things(calls)))
    BY <2>5
  <2>8. Fits(View')
    BY <1>1, <2>6, <2>7, ViewSame DEF VInv
  <2> QED  BY <1>1, <1>11, <2>5, <2>8, AdvanceKeeps DEF VInv, DerivedTypes
<1> QED
  BY <1>13, <1>14

LEMMA ItemNotify ==
  ASSUME DInv, VInv, Looping, Top.a \notin Settling
  PROVE  NotifyLink(Item)
<1>1. Top.d \in Made /\ Top.a = "notify"
  BY LoopFacts, ActionFacts DEF Looping
<1>2. PICK c : c = cb[Top.d]["notify"]
  OBVIOUS
<1>3. /\ c.list # Off /\ c.firingIndex + 1 \in DOMAIN c.list
      /\ Item = c.list[c.firingIndex + 1]
  BY <1>1, <1>2, ItemFacts
<1> QED
  BY <1>1, <1>2, <1>3 DEF VInv, NotifyLinks, ListFits

LEMMA CallFilterView ==
  ASSUME DInv, VInv, CallFilter
  PROVE  VInv'
<1>1. /\ Looping /\ Item.does = "filter" /\ Item.f # Off
      /\ cb' = Advance
      /\ calls' = <<Body(Item.f, Item.d, Item.a)>> \o calls
      /\ UNCHANGED <<owned, derived, follows, remaining, tied, thrown>>
  BY DEF CallFilter, history
<1>2. /\ Item.d \in Made /\ Item.a \in Actions /\ Item.f \in Fn
      /\ Made \subseteq Deferreds
  BY <1>1, ItemOther, OtherKinds DEF DInv, Types, Made
<1>4. IsLink(Item) /\ ~Counts(Item) /\ Filters(Item)
  BY <1>1 DEF IsLink, Counts, Filters
<1>5. PICK p : p = Len(calls) + 1
  OBVIOUS
<1>6. PICK f : f = Body(Item.f, Item.d, Item.a)
  OBVIOUS
<1>7. f \in Frames(Made) /\ calls' = <<f>> \o calls
  BY <1>1, <1>2, <1>6, NewFrames
<1>8. In(f, p) = {<<p, 0, f>>} /\ f.a = Item.a
  BY <1>2, <1>6, OffFacts DEF In, Body
<1>11. p \in Nat
  BY <1>5 DEF DInv, Stack
<1>18. \A t \in In(f, Len(calls) + 1) : ThingFits(t)
  BY <1>5, <1>8 DEF ThingFits
<1>19. ASSUME Top.a \in Settling
       PROVE  VInv'
  <2>9. PICK y \in View.links :
         /\ y.x = Item /\ y.a = Top.a /\ Went(View, y.d, y.a)
         /\ ListLinks' \cup StackLinks(Things(calls)) = View.links \ {y}
         /\ WentNow' = View.went /\ Item.a = Top.a
    BY <1>1, <1>4, <1>19, TakesLink
  <2>10. PICK b : b = [i |-> p, f |-> Item.f, d |-> Item.d, a |-> Item.a]
    OBVIOUS
  <2>12. Parts({<<p, 0, f>>}, {}, {}, {}, {b})
    BY <1>2, <1>6, <1>11, <1>19, <2>9, <2>10, BodyThing
  <2>13. Parts(In(f, Len(calls) + 1), {}, {}, {}, {b})
    BY <1>5, <1>8, <2>12
  <2>14. /\ Pushed({}, {}, {}, {b})
         /\ \A t \in Things(calls') :
              t \in Things(calls) \/ t \in In(f, Len(calls) + 1)
    BY <1>7, <2>13, PushView
  <2>15. /\ View'.links = View.links \ {y}
         /\ View'.fires = View.fires /\ View'.checks = View.checks
         /\ View'.bodies = View.bodies \cup {b} /\ View'.went = View.went
         /\ Alike(View, View') /\ View'.remaining = View.remaining
    BY <1>1, <2>9, <2>14, ViewFields, NextViewFields DEF Alike, AllAlike, Pushed
  <2>16. b.d = y.x.d /\ b.a = y.a /\ Filters(y.x)
    BY <1>4, <2>9, <2>10
  <2>17. Fits(View')
    BY <2>9, <2>15, <2>16, FilterKeeps DEF VInv
  <2> QED  BY <1>1, <1>18, <2>14, <2>17, AdvanceKeeps DEF VInv, DerivedTypes
<1>20. ASSUME Top.a \notin Settling
       PROVE  VInv'
  <2>1. Item.a \notin Settling
    BY <1>1, <1>4, <1>20, ItemNotify DEF NotifyLink, Settling
  <2>2. Parts(In(f, Len(calls) + 1), {}, {}, {}, {})
    <3>1. Parts({<<p, 0, Body(Item.f, Item.d, Item.a)>>}, {}, {}, {}, {})
      BY <2>1, QuietBody
    <3>2. Parts({<<p, 0, f>>}, {}, {}, {}, {})
      BY <1>6, <3>1
    <3> QED  BY <1>5, <1>8, <3>2
  <2>3. \A t \in Things(calls') :
          t \in Things(calls) \/ t \in In(f, Len(calls) + 1)
    BY <1>7, <2>2, PushView
  <2>4. ListLinks' = ListLinks /\ WentNow' = WentNow
    BY <1>1, <1>20, AdvanceView
  <2>5. Stack(Made, calls)
    BY DEF DInv
  <2>6. Parts(Things(<<f>> \o calls), StackLinks(Things(calls)) \cup {},
              FiresIn(Things(calls)) \cup {}, ChecksIn(Things(calls)) \cup {},
              BodiesIn(Things(calls)) \cup {})
    BY <1>7, <2>2, <2>5, StackPush
  <2>7. Parts(Things(calls'), StackLinks(Things(calls)), FiresIn(Things(calls)),
              ChecksIn(Things(calls)), BodiesIn(Things(calls)))
    BY <1>7, <2>6
  <2>8. Fits(View')
    BY <1>1, <2>4, <2>7, ViewSame DEF VInv
  <2> QED  BY <1>1, <1>18, <2>3, <2>8, AdvanceKeeps DEF VInv, DerivedTypes
<1> QED
  BY <1>19, <1>20

LEMMA CallCountView ==
  ASSUME DInv, VInv, CallCount
  PROVE  VInv'
<1>1. /\ Looping /\ Item.does = "count"
      /\ cb' = Advance
      /\ remaining' = [remaining EXCEPT ![Item.d] = @ - 1]
      /\ calls' = IF remaining[Item.d] = 1
                  THEN <<Library(<<Fires(Item.d, "resolve", 0)>>)>> \o calls
                  ELSE calls
      /\ UNCHANGED <<owned, derived, follows, tied, thrown>>
  BY DEF CallCount, history
<1>2. Item.d \in Made /\ Made \subseteq Deferreds
  BY <1>1, ItemOther, OtherKinds DEF DInv, Types, Made
<1>3. Top.a \in Settling
  BY <1>1, ItemNotify DEF NotifyLink, IsLink, Counts
<1>4. IsLink(Item) /\ Counts(Item)
  BY <1>1 DEF IsLink, Counts
<1>5. PICK y \in View.links :
         /\ y.x = Item /\ y.a = Top.a /\ Went(View, y.d, y.a)
         /\ ListLinks' \cup StackLinks(Things(calls)) = View.links \ {y}
         /\ WentNow' = View.went /\ Item.d \in derived
  BY <1>1, <1>3, <1>4, TakesLink
<1>6. remaining \in [Deferreds -> 0 .. 2]
  BY DEF VInv, DerivedTypes
<1>7. /\ remaining'[Item.d] = remaining[Item.d] - 1
      /\ \A k \in Deferreds : k # Item.d => remaining'[k] = remaining[k]
      /\ \A S : (\A k \in Deferreds : remaining'[k] \in S) => remaining' \in [Deferreds -> S]
  BY <1>1, <1>2, <1>6
<1>8. /\ View'.links = View.links \ {y}
      /\ View'.fires = IF remaining[Item.d] = 1
                       THEN View.fires \cup {<<Item.d, "resolve">>} ELSE View.fires
      /\ View'.checks = View.checks /\ View'.bodies = View.bodies
      /\ \A t \in Things(calls') : t \in Things(calls) \/ ThingFits(t)
  <2>1. CASE remaining[Item.d] # 1
    <3>1. calls' = calls
      BY <1>1, <2>1
    <3>2. Things(calls') = Things(calls)
      BY <3>1
    <3>3. /\ View'.links = ListLinks' \cup StackLinks(Things(calls))
          /\ View'.fires = View.fires /\ View'.checks = View.checks
          /\ View'.bodies = View.bodies
      BY <3>2, ViewFields, NextViewFields
    <3> QED  BY <1>5, <2>1, <3>2, <3>3
  <2>2. CASE remaining[Item.d] = 1
    <3>1. PICK p : p = Len(calls) + 1
      OBVIOUS
    <3>2. PICK x : x = Fires(Item.d, "resolve", 0)
      OBVIOUS
    <3>3. PICK f : f = Library(<<x>>)
      OBVIOUS
    <3>4. x \in Jobs(Made) /\ x.call = "fire"
      BY <1>2, <3>2, NewJobs DEF Fires, Actions
    <3>5. f \in Frames(Made) /\ calls' = <<f>> \o calls
      BY <1>1, <1>2, <2>2, <3>2, <3>3, QuietFires DEF Actions
    <3>6. In(f, p) = {<<p, 1, x>>}
      BY <3>3, <3>4, OneCall
    <3>a. 1 # 0 /\ Item.d \in Deferreds /\ "resolve" \in Settling
      BY <1>2 DEF Settling
    <3>7. Parts({<<p, 1, x>>}, {}, {<<Item.d, "resolve">>}, {}, {})
      BY <3>2, <3>a, FireThing
    <3>b. PICK u : u = {<<Item.d, "resolve">>}
      OBVIOUS
    <3>8. Parts(In(f, Len(calls) + 1), {}, u, {}, {})
      BY <3>1, <3>6, <3>7, <3>b
    <3>9. /\ Pushed({}, u, {}, {})
          /\ \A t \in Things(calls') :
               t \in Things(calls) \/ t \in In(f, Len(calls) + 1)
      BY <3>5, <3>8, PushView
    <3>10. ThingFits(<<p, 1, x>>)
      BY <3>4 DEF ThingFits
    <3>11. \A t \in In(f, Len(calls) + 1) : ThingFits(t)
      BY <3>1, <3>6, <3>10
    <3> QED  BY <1>5, <2>2, <3>9, <3>11, <3>b DEF Pushed
  <2> QED  BY <2>1, <2>2
<1>9. /\ View.remaining = remaining /\ View'.remaining = remaining'
      /\ View'.went = View.went /\ Alike(View, View') /\ View.derived = derived
      /\ View'.derived = derived
  BY <1>1, <1>5, ViewFields, NextViewFields DEF Alike, AllAlike
<1>10. Fits(View')
  BY <1>4, <1>5, <1>7, <1>8, <1>9, CountKeeps DEF VInv
<1>11. remaining'[Item.d] \in 0 .. 2
  <2>1. PICK t, u : IsTorn(View', t) /\ IsUntied(View', u) /\ AllFit(t) /\ AllFit(u)
    BY <1>10, FitsTwice
  <2>2. t.remaining = remaining' /\ Item.d \in t.derived
    BY <1>5, <1>9, <2>1 DEF IsTorn
  <2> QED  BY <2>1, <2>2 DEF AllFit, SizeFits
<1>12. remaining' \in [Deferreds -> 0 .. 2]
  <2>1. \A k \in Deferreds : remaining'[k] \in 0 .. 2
    BY <1>6, <1>7, <1>11
  <2> QED  BY <1>7, <2>1
<1>13. \A n \in Deferreds \ derived : remaining'[n] = 0
  BY <1>5, <1>7 DEF VInv, DerivedTypes
<1> QED
  BY <1>1, <1>8, <1>10, <1>12, <1>13, AdvanceKeeps

(* A deferred is settled, and its other lists are disabled or locked: the  *)
(* links that are lost would have been called the other way.               *)
LEMMA CallSettleView ==
  ASSUME DInv, VInv, CallSettle
  PROVE  VInv'
<1>1. PICK d, a, c, o : d = Top.d /\ a = Top.a /\ c = cb[d][a] /\ o = Opposite(a)
  OBVIOUS
<1>2. /\ Looping /\ Running("loop") /\ HasNext(c)
      /\ UNCHANGED <<owned, derived, calls, remaining, follows, tied, thrown>>
  BY <1>1 DEF CallSettle, Looping, history
<1>3. /\ d \in Deferreds /\ a \in Settling /\ a \in Actions /\ o \in Settling /\ o \in Actions
      /\ c \in Lists(Made) /\ IndexFits(c) /\ c.firing /\ Made \subseteq Deferreds
      /\ o # a /\ Opposite(o) = a /\ "notify" \in Actions /\ "notify" \notin Settling
      /\ \A b \in Settling : b = a \/ b = o
  <2>1. d \in Deferreds /\ c \in Lists(Made) /\ IndexFits(c) /\ c.firing
    BY <1>1, <1>2, LoopFacts
  <2>2. a \in Settling
    BY <1>1, CallSettleFacts
  <2>3. Made \subseteq Deferreds
    BY DEF DInv, Types, Made
  <2> QED  BY <1>1, <2>1, <2>2, <2>3, ActionFacts
<1>4. /\ \A e \in Deferreds : e # d => cb'[e] = cb[e]
      /\ \A b \in Actions : cb'[d][b].list \in {cb[d][b].list, Off}
      /\ cb'[d][o].list = Off \/ cb'[d][o] = cb[d][o]
      /\ IsAdvanced(Made, c, cb'[d][a])
  <2>1. Turned(d, a)
    BY <1>1, CallSettleTurns
  <2> QED  BY <1>1, <1>3, <2>1 DEF Turned
<1>5. /\ c.list # Off /\ c.list \in Seq(Firsts(Made) \cup Others(Made))
      /\ c.firingIndex + 1 \in DOMAIN c.list
      /\ Item = c.list[c.firingIndex + 1]
  BY <1>1, <1>2, ItemFacts
<1>6. ~IsLink(Item)
  BY DEF CallSettle, IsLink
<1>7. \A k, l : Waits(cb'[d][a], k, l) <=> Waits(c, k, l)
  <2>1. /\ \A k, l : Waits(cb'[d][a], k, l) <=> Waits(c, k, l) /\ k # c.firingIndex + 1
        /\ \A l : Waits(c, c.firingIndex + 1, l) <=> l = Item /\ IsLink(l)
    BY <1>3, <1>4, <1>5, WaitsAdvanced
  <2> QED  BY <1>6, <2>1
<1>8. cb'[d][a].list = c.list /\ cb'[d][a].fired = c.fired /\ c.fired
  BY <1>3, <1>4 DEF IsAdvanced, IndexFits
<1>9. ~(cb[d][o].list # Off /\ cb[d][o].fired)
  <2>1. TurnsAt(Made, d, state[d], cb[d], a)
    BY <1>1, CallSettleFacts
  <2>2. Fresh(Made, cb[d][o], d, o) \/ Disused(cb[d][o])
    BY <1>1, <2>1 DEF TurnsAt
  <2> QED  BY <2>2 DEF Fresh, Disused
<1>10. /\ \A e \in Deferreds, b \in Settling :
            <<e, b>> \in WentNow <=> cb[e][b].list # Off /\ cb[e][b].fired
       /\ \A e \in Deferreds, b \in Settling :
            <<e, b>> \in WentNow' <=> cb'[e][b].list # Off /\ cb'[e][b].fired
       /\ WentNow \subseteq Deferreds \X Settling
       /\ WentNow' \subseteq Deferreds \X Settling
  BY DEF WentNow
<1>11. WentNow' = WentNow
  <2>1. ASSUME NEW e \in Deferreds, NEW b \in Settling
        PROVE  <<e, b>> \in WentNow' <=> <<e, b>> \in WentNow
    <3>1. CASE e # d
      BY <1>4, <1>10, <3>1
    <3>2. CASE e = d /\ b = a
      BY <1>1, <1>8, <1>10, <3>2
    <3>3. CASE e = d /\ b = o
      BY <1>4, <1>9, <1>10, <3>3
    <3> QED  BY <1>3, <3>1, <3>2, <3>3
  <2>2. \A u \in Deferreds \X Settling : u \in WentNow' <=> u \in WentNow
    BY <2>1
  <2> QED  BY <1>10, <2>2
<1>12. \A y \in Links : /\ y \in ListLinks' => y \in ListLinks
                        /\ y \in ListLinks /\ y \notin ListLinks' => y.d = d /\ y.a = o
  <2> SUFFICES ASSUME NEW y \in Links
               PROVE  /\ y \in ListLinks' => y \in ListLinks
                      /\ y \in ListLinks /\ y \notin ListLinks' => y.d = d /\ y.a = o
    OBVIOUS
  <2>0. y.d \in Deferreds /\ y.a \in Settling
    BY DEF Links
  <2>1. CASE y.d # d
    BY <1>4, <2>0, <2>1 DEF ListLinks
  <2>2. CASE y.d = d /\ y.a = a
    <3>1. \A k, l : Waits(cb'[y.d][y.a], k, l) <=> Waits(cb[y.d][y.a], k, l)
      BY <1>1, <1>7, <2>2
    <3> QED  BY <3>1 DEF ListLinks
  <2>3. CASE y.d = d /\ y.a = o
    <3>1. \A k, l : Waits(cb'[y.d][y.a], k, l) => Waits(cb[y.d][y.a], k, l)
      BY <1>4, <2>3 DEF Waits
    <3> QED  BY <2>3, <3>1 DEF ListLinks
  <2> QED  BY <1>3, <2>0, <2>1, <2>2, <2>3
<1>13. ListLinks \subseteq Links /\ ListLinks' \subseteq Links
  BY DEF ListLinks
<1>14. Things(calls') = Things(calls)
  BY <1>2
<1>15. /\ View'.links \subseteq View.links
       /\ \A y \in View.links \ View'.links : y.d = d /\ y.a = o
  BY <1>12, <1>13, <1>14, ViewFields, NextViewFields
<1>16. /\ View'.fires = View.fires /\ View'.checks = View.checks
       /\ View'.bodies = View.bodies /\ View'.went = View.went
       /\ View'.remaining = View.remaining /\ Alike(View, View')
  BY <1>2, <1>11, <1>14, ViewFields, NextViewFields DEF Alike, AllAlike
<1>17. <<d, a>> \in View.went
  BY <1>1, <1>3, <1>5, <1>8, <1>10, ViewFields
<1>18. \A y \in View.links \ View'.links : ~Live(View, y)
  BY <1>3, <1>15, <1>17 DEF Live, Went
<1>19. Fits(View')
  BY <1>15, <1>16, <1>18, DropKeeps DEF VInv
<1>20. \A e \in Made' : \/ e \in Made /\ cb'[e]["notify"].list = cb[e]["notify"].list
                        \/ ListFits(cb'[e]["notify"].list)
  <2>1. Made' = Made
    BY <1>2 DEF Made
  <2>2. \A e \in Deferreds : cb'[e]["notify"].list \in {cb[e]["notify"].list, Off}
    BY <1>3, <1>4
  <2> QED  BY <1>3, <2>1, <2>2, NoListFits
<1>21. NotifyLinks'
  BY <1>14, <1>20, NotifyKeeps DEF VInv
<1>22. DerivedTypes'
  BY <1>2 DEF VInv, DerivedTypes
<1> QED
  BY <1>19, <1>21, <1>22 DEF VInv

(* A loop ends: nothing of its list waits any more.                        *)
LEMMA EmptyNotOff == <<>> # Off
<1>1. <<>> \in Seq(Firsts(Deferreds) \cup Others(Deferreds))
  OBVIOUS
<1> QED
  BY <1>1, OffFacts

LEMMA EndedWaits ==
  ASSUME NEW M, NEW c \in Lists(M), c.firing, IndexFits(c), ~HasNext(c)
  PROVE  \A k, l : ~Waits(c, k, l)
<1> SUFFICES ASSUME NEW k, NEW l, Waits(c, k, l)
             PROVE  FALSE
  OBVIOUS
<1>1. c.list # Off /\ k \in DOMAIN c.list /\ k > c.firingIndex
  BY DEF Waits, Reached
<1>2. /\ c.list \in Seq(Firsts(M) \cup Others(M))
      /\ c.firingIndex \in Nat /\ c.firingLength = Len(c.list)
      /\ ~(c.firingIndex < c.firingLength)
  BY <1>1 DEF Lists, IndexFits, HasNext
<1> QED
  BY <1>1, <1>2

LEMMA EndLoopView ==
  ASSUME DInv, VInv, EndLoop
  PROVE  VInv'
<1>1. PICK d, a, c : d = Top.d /\ a = Top.a /\ c = cb[d][a]
  OBVIOUS
<1>2. /\ Running("loop") /\ ~HasNext(c) /\ calls # <<>> /\ Top.runs = "loop"
      /\ UNCHANGED <<owned, derived, remaining, follows, tied, thrown>>
      /\ IF FiresAgain(c)
         THEN /\ cb' = [cb EXCEPT ![d][a] = Again(c)]
              /\ calls' = <<Loop(d, a, Head(c.waiting))>> \o Below
         ELSE /\ cb' = [cb EXCEPT ![d][a] = Ended(c)]
              /\ calls' = Below
  BY <1>1 DEF EndLoop, history, Running
<1>3. /\ d \in Deferreds /\ a \in Actions /\ c \in Lists(Made) /\ IndexFits(c)
      /\ c.firing /\ Stack(Made, Below) /\ d \in Made
      /\ \/ Steady(Made, d, state[d], cb[d])
         \/ a \in Settling /\ TurnsAt(Made, d, state[d], cb[d], a)
  BY <1>1, <1>2, LoopFacts
<1>4. /\ cb \in [Deferreds -> [Actions -> Lists(Made)]] /\ Made \subseteq Deferreds
      /\ Stack(Made, calls)
  BY DEF DInv, Types, Made
<1>5. \A k, l : ~Waits(c, k, l)
  BY <1>2, <1>3, EndedWaits
<1>6. PICK x : x = IF FiresAgain(c) THEN Again(c) ELSE Ended(c)
  OBVIOUS
<1>7. /\ x \in Lists(Made) /\ x.list \in {c.list, Off, <<>>}
      /\ FiresAgain(c) => Head(c.waiting) \in Nat
  BY <1>3, <1>6, AgainFacts, EndedFacts
<1>8. cb' = [cb EXCEPT ![d][a] = x]
  BY <1>2, <1>6
<1>9. OneCell(d, a) /\ cb'[d][a] = x
  BY <1>3, <1>4, <1>7, <1>8, SetCell DEF OneCell
(* A list that settles is not fired again, and is empty now.               *)
<1>10. ASSUME a \in Settling
       PROVE  /\ \A k, l : ~Waits(x, k, l)
              /\ x.list # Off /\ x.fired <=> c.list # Off /\ c.fired
  <2>1. CASE c.list = Off
    <3>1. ~FiresAgain(c)
      BY <2>1 DEF FiresAgain
    <3>2. x.list = Off
      BY <1>6, <2>1, <3>1 DEF Ended, Lists
    <3> QED  BY <2>1, <3>2 DEF Waits
  <2>2. CASE c.list # Off
    <3>1. \/ state[d] = a /\ Done(Made, c) /\ Disused(cb[d][Opposite(a)])
          \/ TurnsAt(Made, d, state[d], cb[d], a)
      BY <1>1, <1>3, <1>10, <2>2, FiringKinds
    <3>2. c.waiting = Off /\ c.memory # Off
      BY <1>1, <3>1 DEF Done, TurnsAt, Turning, Starts
    <3>3. ~FiresAgain(c)
      BY <3>2 DEF FiresAgain
    <3>4. x.list = <<>> /\ x.fired = c.fired
      BY <1>3, <1>6, <2>2, <3>2, <3>3, EndedFacts
    <3>5. x.list # Off
      BY <3>4, OffFacts, EmptyNotOff
    <3> QED  BY <2>2, <3>4, <3>5 DEF Waits
  <2> QED  BY <2>1, <2>2
<1>11. ListLinks' = ListLinks
  BY <1>1, <1>3, <1>5, <1>9, <1>10, LinksCell
<1>12. WentNow' = WentNow
  BY <1>1, <1>3, <1>9, <1>10, WentSame
<1>13. Parts(Things(calls'), StackLinks(Things(calls)), FiresIn(Things(calls)),
             ChecksIn(Things(calls)), BodiesIn(Things(calls)))
       /\ Things(calls') = Things(calls)
  <2>1. Things(calls) = Things(Below)
    <3>1. In(Top, Len(calls)) = {}
      BY <1>2 DEF In
    <3> QED  BY <1>2, <1>4, <3>1, TopThings
  <2>2. Things(calls') = Things(Below)
    <3>1. CASE ~FiresAgain(c)
      BY <1>2, <3>1
    <3>2. CASE FiresAgain(c)
      <4>1. PICK f : f = Loop(d, a, Head(c.waiting))
        OBVIOUS
      <4>2. f \in Frames(Made) /\ f.runs = "loop"
        BY <1>3, <1>7, <3>2, <4>1, NewFrames DEF Loop
      <4>3. In(f, Len(Below) + 1) = {}
        BY <4>2 DEF In
      <4>4. calls' = <<f>> \o Below
        BY <1>2, <3>2, <4>1
      <4>5. Things(<<f>> \o Below) = In(f, Len(Below) + 1) \cup Things(Below)
        BY <1>3, <4>2, PushThings
      <4> QED  BY <4>3, <4>4, <4>5
    <3> QED  BY <3>1, <3>2
  <2> QED  BY <2>1, <2>2 DEF Parts
<1>14. Fits(View')
  BY <1>2, <1>11, <1>12, <1>13, ViewSame DEF VInv
<1>15. NotifyLinks'
  <2>1. Made' = Made
    BY <1>2 DEF Made
  <2>2. \A e \in Deferreds : \/ cb'[e]["notify"].list = cb[e]["notify"].list
                             \/ ListFits(cb'[e]["notify"].list)
    <3> TAKE e \in Deferreds
    <3>1. CASE e = d /\ a = "notify"
      BY <1>1, <1>7, <1>9, <3>1, NoListFits
    <3>2. CASE e # d \/ a # "notify"
      BY <1>9, <3>2, ActionFacts DEF OneCell
    <3> QED  BY <3>1, <3>2
  <2>3. \A e \in Made' : e \in Made /\ e \in Deferreds
    BY <1>4, <2>1
  <2> QED  BY <1>13, <2>2, <2>3, NotifyKeeps DEF VInv
<1>16. DerivedTypes'
  BY <1>2 DEF VInv, DerivedTypes
<1> QED
  BY <1>14, <1>15, <1>16 DEF VInv

(* A loop that is put on the stack is nothing but a loop.                  *)
LEMMA LoopThings ==
  ASSUME NEW s, Stack(Made, s), NEW d \in Made, NEW a \in Actions, NEW v \in Nat
  PROVE  Things(<<Loop(d, a, v)>> \o s) = Things(s)
<1>1. PICK f : f = Loop(d, a, v)
  OBVIOUS
<1>2. f \in Frames(Made) /\ f.runs = "loop"
  BY <1>1, NewFrames DEF Loop
<1>3. In(f, Len(s) + 1) = {}
  BY <1>2 DEF In
<1>4. Things(<<f>> \o s) = In(f, Len(s) + 1) \cup Things(s)
  BY <1>2, PushThings
<1> QED
  BY <1>1, <1>3, <1>4

(* Firing a list changes nothing of what waits in the lists, and settles   *)
(* a deferred that is not settled.                                         *)
LEMMA FireCell ==
  ASSUME DInv, calls = <<>> \/ Head(calls).runs # "loop",
         NEW d \in Made, NEW a \in Actions, NEW v \in Nat,
         NEW rest, Stack(Made, rest), Fire(d, a, v, rest)
  PROVE  /\ ListLinks' = ListLinks /\ Things(calls') = Things(rest)
         /\ \A e \in Deferreds : cb'[e]["notify"].list = cb[e]["notify"].list
         /\ a \notin Settling => WentNow' = WentNow
         /\ a \in Settling =>
              \/ /\ WentNow' = WentNow \cup {<<d, a>>}
                 /\ \A b \in Settling : <<d, b>> \notin WentNow
              \/ WentNow' = WentNow /\ \E b \in Settling : <<d, b>> \in WentNow
<1>1. PICK c : c = cb[d][a]
  OBVIOUS
<1>2. /\ cb \in [Deferreds -> [Actions -> Lists(Made)]] /\ d \in Deferreds
      /\ c \in Lists(Made) /\ IndexFits(c) /\ Made \subseteq Deferreds
      /\ Steady(Made, d, state[d], cb[d])
  <2>1. Made \subseteq Deferreds /\ Types /\ LoopsFit /\ PairsFit
    BY DEF DInv, Types, Made
  <2>2. Steady(Made, d, state[d], cb[d])
    BY <2>1, AllSteady
  <2>3. cb \in [Deferreds -> [Actions -> Lists(Made)]] /\ IndexFits(c) /\ d \in Deferreds
    BY <1>1, <2>1 DEF Types, LoopsFit
  <2> QED  BY <1>1, <2>1, <2>2, <2>3
<1>3. PICK x : x = Fired(c, v)
  OBVIOUS
<1>w. \A e \in Deferreds, b \in Settling :
        <<e, b>> \in WentNow <=> cb[e][b].list # Off /\ cb[e][b].fired
  BY DEF WentNow
<1>4. CASE ~MayFire(c)
  <2>1. calls' = rest /\ cb' = cb
    BY <1>1, <1>4 DEF Fire
  <2>2. ListLinks' = ListLinks /\ WentNow' = WentNow
    BY <2>1 DEF ListLinks, WentNow
  <2>3. ASSUME a \in Settling
        PROVE  \E b \in Settling : <<d, b>> \in WentNow
    <3>1. \/ Fresh(Made, cb[d][a], d, a)
          \/ Done(Made, cb[d][a])
          \/ Done(Made, cb[d][Opposite(a)])
      BY <1>2, <2>3, SteadyKinds
    <3>2. ~Fresh(Made, cb[d][a], d, a)
      BY <1>1, <1>4 DEF Fresh, Starts, MayFire
    <3>3. Opposite(a) \in Settling
      BY <2>3, ActionFacts
    <3> QED  BY <1>2, <1>w, <2>3, <3>1, <3>2, <3>3 DEF Done
  <2> QED  BY <2>1, <2>2, <2>3
<1>5. CASE MayFire(c)
  <2>1. x \in Lists(Made) /\ x.list = c.list /\ c.list # Off
    BY <1>2, <1>3, <1>5, FiredFacts DEF MayFire
  <2>2. /\ cb' = [cb EXCEPT ![d][a] = x]
        /\ calls' = IF c.firing THEN rest ELSE <<Loop(d, a, v)>> \o rest
    BY <1>1, <1>3, <1>5 DEF Fire
  <2>3. OneCell(d, a) /\ cb'[d][a] = x
    BY <1>2, <2>1, <2>2, SetCell DEF OneCell
  <2>4. Things(calls') = Things(rest)
    BY <2>2, LoopThings
  <2>5. \A e \in Deferreds : cb'[e]["notify"].list = cb[e]["notify"].list
    BY <1>1, <2>1, <2>3, ActionFacts DEF OneCell
  <2>6. CASE a \notin Settling
    <3>1. ListLinks' = ListLinks
      BY <1>2, <2>3, <2>6, LinksCell
    <3>2. WentNow' = WentNow
      BY <1>2, <2>3, <2>6, WentSame
    <3> QED  BY <2>4, <2>5, <2>6, <3>1, <3>2
  <2>7. CASE a \in Settling
    <3>1. \/ Fresh(Made, c, d, a) /\ Fresh(Made, cb[d][Opposite(a)], d, Opposite(a))
          \/ Done(Made, c)
          \/ Disused(c)
      BY <1>1, <1>2, <2>7, SteadyKinds
    <3>2. Fresh(Made, c, d, a) /\ Fresh(Made, cb[d][Opposite(a)], d, Opposite(a))
      BY <1>5, <3>1 DEF Done, Disused, MayFire
    <3>3. ~c.firing /\ ~c.fired
      BY <3>2 DEF Fresh
    <3>4. x.firing = TRUE /\ x.fired = TRUE /\ x.firingIndex = 0
      <4>1. x = Started(c, v)
        BY <1>2, <1>3, <1>5, <3>3, FiredFacts
      <4> QED  BY <1>2, <2>1, <4>1, StartedFacts
    <3>5. \A k, l : Waits(x, k, l) <=> Waits(c, k, l)
      BY <2>1, <3>3, <3>4 DEF Waits, Reached
    <3>6. ListLinks' = ListLinks
      BY <1>1, <1>2, <2>3, <3>5, LinksCell
    <3>7. \A b \in Settling : <<d, b>> \notin WentNow
      <4>1. ~cb[d][Opposite(a)].fired
        BY <3>2 DEF Fresh
      <4> QED  BY <1>1, <1>2, <1>w, <2>7, <3>3, <4>1, ActionFacts
    <3>8. WentNow' = WentNow \cup {<<d, a>>}
      <4>1. /\ \A e \in Deferreds, b \in Settling : e # d \/ b # a =>
                 (<<e, b>> \in WentNow' <=> <<e, b>> \in WentNow)
            /\ <<d, a>> \in WentNow' <=> cb'[d][a].list # Off /\ cb'[d][a].fired
            /\ WentNow \subseteq Deferreds \X Settling
            /\ WentNow' \subseteq Deferreds \X Settling
        BY <1>2, <2>3, <2>7, WentCell
      <4>2. <<d, a>> \in WentNow'
        BY <2>1, <2>3, <3>4, <4>1
      <4>3. \A u \in Deferreds \X Settling :
              u \in WentNow' <=> u \in WentNow \/ u = <<d, a>>
        BY <4>1, <4>2
      <4>4. <<d, a>> \in Deferreds \X Settling
        BY <1>2, <2>7
      <4> QED  BY <4>1, <4>3, <4>4
    <3> QED  BY <2>4, <2>5, <2>7, <3>6, <3>7, <3>8
  <2> QED  BY <2>6, <2>7
<1> QED
  BY <1>4, <1>5

(* What was to be done with a deferred is done: it is settled, if it was   *)
(* not before.                                                             *)
LEMMA SettleKeeps ==
  ASSUME NEW m, NEW w, Fits(m), Alike(m, w), w.remaining = m.remaining,
         w.links = m.links, w.bodies = m.bodies,
         NEW d \in Deferreds, NEW a \in Settling,
         \/ d \notin m.derived
         \/ ToFire(m, d, a)
         \/ a = "resolve" /\ d \in m.checks /\ m.remaining[d] = 0,
         \/ w.went = m.went \cup {<<d, a>>} /\ ~Over(m, d)
         \/ w.went = m.went /\ Over(m, d),
         w.fires \subseteq m.fires, w.checks \subseteq m.checks,
         \A u \in m.fires \ w.fires : u[1] = d,
         \A n \in m.checks \ w.checks : n = d
  PROVE  Fits(w)
<1>1. PICK u : u = [links |-> m.links, fires |-> m.fires, checks |-> m.checks,
                    bodies |-> m.bodies, went |-> w.went, follows |-> m.follows,
                    remaining |-> m.remaining, derived |-> m.derived,
                    tied |-> m.tied, thrown |-> m.thrown]
  OBVIOUS
<1>2. /\ u.links = m.links /\ u.fires = m.fires /\ u.checks = m.checks
      /\ u.bodies = m.bodies /\ u.went = w.went /\ u.follows = m.follows
      /\ u.remaining = m.remaining /\ u.derived = m.derived /\ u.thrown = m.thrown
      /\ u.tied = m.tied
  BY <1>1
<1>3. Alike(m, u) /\ Alike(u, w)
  BY <1>2 DEF Alike, AllAlike
<1>4. Fits(u)
  <2>1. CASE w.went = m.went \cup {<<d, a>>} /\ ~Over(m, d)
    BY <1>2, <1>3, <2>1, WentKeeps
  <2>2. CASE w.went = m.went
    <3>1. u.links \subseteq m.links /\ \A y \in m.links \ u.links : ~Live(m, y)
      BY <1>2
    <3> QED  BY <1>2, <1>3, <2>2, <3>1, DropKeeps
  <2> QED  BY <2>1, <2>2
<1>5. Over(u, d)
  BY <1>2 DEF Over, Went
<1>6. \A n, b : ToFire(u, n, b) /\ ~ToFire(w, n, b) => Over(u, n)
  BY <1>2, <1>5 DEF ToFire
<1>7. \A n \in u.checks \ w.checks : Over(u, n) \/ u.remaining[n] > 0
  BY <1>2, <1>5
<1>8. /\ w.remaining = u.remaining /\ w.links = u.links /\ w.bodies = u.bodies
      /\ w.went = u.went /\ w.fires \subseteq u.fires /\ w.checks \subseteq u.checks
  BY <1>2
<1> QED
  BY <1>3, <1>4, <1>6, <1>7, <1>8, LateKeeps

LEMMA ActView ==
  ASSUME DInv, VInv, NEW d \in Deferreds, NEW a \in Actions, Act(d, a)
  PROVE  VInv'
<1>1. PICK v : v = IF a = "notify" THEN notified + 1 ELSE 0
  OBVIOUS
<1>2. /\ UserCode /\ d \in owned /\ d \in Made
      /\ Fire(d, a, v, calls)
      /\ UNCHANGED <<owned, derived, remaining, follows, tied, thrown>>
  BY <1>1 DEF Act, Made, history
<1>3. v \in Nat /\ Stack(Made, calls) /\ Made \subseteq Deferreds
  BY <1>1 DEF DInv, Types, Made
<1>4. calls = <<>> \/ Head(calls).runs # "loop"
  BY <1>2, UserCodeFacts
<1>5. d \notin View.derived
  BY <1>2, ViewFields DEF VInv, DerivedTypes
<1>6. /\ ListLinks' = ListLinks /\ Things(calls') = Things(calls)
      /\ \A e \in Deferreds : cb'[e]["notify"].list = cb[e]["notify"].list
      /\ a \notin Settling => WentNow' = WentNow
      /\ a \in Settling =>
           \/ /\ WentNow' = WentNow \cup {<<d, a>>}
              /\ \A b \in Settling : <<d, b>> \notin WentNow
           \/ WentNow' = WentNow /\ \E b \in Settling : <<d, b>> \in WentNow
  BY <1>2, <1>3, <1>4, FireCell
<1>7. /\ View'.links = View.links /\ View'.fires = View.fires
      /\ View'.checks = View.checks /\ View'.bodies = View.bodies
      /\ View'.remaining = View.remaining /\ Alike(View, View')
      /\ View.went = WentNow /\ View'.went = WentNow'
  BY <1>2, <1>6, ViewFields, NextViewFields DEF Alike, AllAlike
<1>8. Fits(View')
  <2>1. CASE a \in Settling
    <3>1. \/ View'.went = View.went \cup {<<d, a>>} /\ ~Over(View, d)
          \/ View'.went = View.went /\ Over(View, d)
      BY <1>6, <1>7, <2>1 DEF Over, Went
    <3>2. Fits(View)
      BY DEF VInv
    <3>3. /\ View'.fires \subseteq View.fires /\ View'.checks \subseteq View.checks
          /\ \A u \in View.fires \ View'.fires : u[1] = d
          /\ \A n \in View.checks \ View'.checks : n = d
      BY <1>7
    <3> QED  BY <1>5, <1>7, <2>1, <3>1, <3>2, <3>3, SettleKeeps
  <2>2. CASE a \notin Settling
    <3>1. View'.went = View.went
      BY <1>6, <1>7, <2>2
    <3>2. View'.links \subseteq View.links /\ \A y \in View.links \ View'.links : ~Live(View, y)
      BY <1>7
    <3> QED  BY <1>7, <3>1, <3>2, DropKeeps DEF VInv
  <2> QED  BY <2>1, <2>2
<1>9. NotifyLinks'
  <2>1. \A e \in Made' : e \in Made /\ e \in Deferreds
    BY <1>2, <1>3 DEF Made
  <2> QED  BY <1>6, <2>1, NotifyKeeps DEF VInv
<1>10. DerivedTypes'
  BY <1>2 DEF VInv, DerivedTypes
<1> QED
  BY <1>8, <1>9, <1>10 DEF VInv

(* The call that a piece of the library makes, and what is left.           *)
LEMMA TakesCall ==
  ASSUME DInv, Running("library"), NEW rest, rest = RestOf(calls)
  PROVE  \E p \in Nat, q \in Nat :
           /\ q # 0
           /\ Things(calls) = {<<p, q, Head(Top.todo)>>} \cup Things(rest)
           /\ \A t \in Things(rest) : t[1] = p => t[2] # q
<1>1. PICK todo, it : todo = Top.todo /\ it = Head(Top.todo)
  OBVIOUS
<1>2. /\ Stack(Made, calls) /\ calls # <<>> /\ Top.runs = "library"
      /\ Stack(Made, Below) /\ todo \in Seq(Jobs(Made)) /\ todo # <<>>
      /\ Top = Head(calls) /\ Below = Tail(calls)
  BY <1>1, RestFacts DEF DInv, Running, Top, Below
<1>3. /\ Things(calls) = In(Top, Len(calls)) \cup Things(Below)
      /\ Len(calls) \in Nat /\ Len(calls) = Len(Below) + 1
      /\ \A t \in Things(Below) : t[1] # Len(calls)
  BY <1>2, TopThings
<1>4. In(Top, Len(calls)) = In(Library(todo), Len(calls))
  BY <1>1, <1>2 DEF In, Library
<1>5. Len(todo) \in Nat /\ Len(todo) # 0
  BY <1>2
<1>6. CASE Len(todo) = 1
  <2>1. In(Top, Len(calls)) = {<<Len(calls), 1, it>>}
    BY <1>1, <1>2, <1>4, <1>6, InLibrary
  <2>2. rest = Below
    BY <1>1, <1>2, <1>6 DEF RestOf
  <2>3. Things(calls) = {<<Len(calls), 1, it>>} \cup Things(rest)
    BY <1>3, <2>1, <2>2
  <2>4. \A t \in Things(rest) : t[1] = Len(calls) => t[2] # 1
    BY <1>3, <2>2
  <2>5. 1 \in Nat /\ 1 # 0
    OBVIOUS
  <2> QED  BY <1>1, <1>3, <2>3, <2>4, <2>5
<1>7. CASE Len(todo) # 1
  <2>1. In(Top, Len(calls)) =
          {<<Len(calls), Len(todo), it>>} \cup In(Library(Tail(todo)), Len(calls))
    BY <1>1, <1>2, <1>4, <1>7, InLibrary
  <2>2. PICK f : f = Library(Tail(todo))
    OBVIOUS
  <2>3. rest = <<f>> \o Below
    BY <1>1, <1>2, <1>7, <2>2 DEF RestOf
  <2>4. f \in Frames(Made)
    <3>1. Tail(todo) \in Seq(Jobs(Made)) /\ Tail(todo) # <<>>
      BY <1>2, <1>7, TodoTail
    <3> QED  BY <2>2, <3>1, NewFrames
  <2>5. Things(<<f>> \o Below) = In(f, Len(Below) + 1) \cup Things(Below)
    BY <1>2, <2>4, PushThings
  <2>6. Things(rest) = In(f, Len(calls)) \cup Things(Below)
    BY <1>3, <2>3, <2>5
  <2>7. Things(calls) = {<<Len(calls), Len(todo), it>>} \cup Things(rest)
    BY <1>3, <2>1, <2>2, <2>6
  <2>8. \A t \in In(f, Len(calls)) : t[2] # Len(todo)
    <3>1. PICK s, n, l : s = Tail(todo) /\ n = Len(todo) /\ l = Len(s)
      OBVIOUS
    <3>2. n \in Nat /\ l = n - 1 /\ DOMAIN s = 1 .. l
      BY <1>2, <1>5, <3>1
    <3>3. In(f, Len(calls)) = {<<Len(calls), Len(s) + 1 - k, s[k]>> : k \in DOMAIN s}
      BY <2>2, <3>1 DEF In, Library
    <3>4. \A k \in DOMAIN s : Len(s) + 1 - k # n
      BY <3>1, <3>2
    <3> QED  BY <3>1, <3>3, <3>4
  <2>9. \A t \in Things(rest) : t[1] = Len(calls) => t[2] # Len(todo)
    BY <1>3, <2>6, <2>8
  <2> QED  BY <1>1, <1>3, <1>5, <2>7, <2>9
<1> QED
  BY <1>6, <1>7

(* What the state is seen as, by the parts of the call and of the rest.    *)
Taken(T, K, F, C, B) ==
  /\ View.links = ListLinks \cup K \cup StackLinks(T)
  /\ View.fires = F \cup FiresIn(T) /\ View.checks = C \cup ChecksIn(T)
  /\ View.bodies = B \cup BodiesIn(T) /\ View.went = WentNow

LEMMA TakenView ==
  ASSUME NEW T, NEW U, Things(calls) = U \cup T,
         NEW K, NEW F, NEW C, NEW B, Parts(U, K, F, C, B)
  PROVE  Taken(T, K, F, C, B)
<1>1. Parts(U \cup T, StackLinks(U) \cup StackLinks(T),
            FiresIn(U) \cup FiresIn(T), ChecksIn(U) \cup ChecksIn(T),
            BodiesIn(U) \cup BodiesIn(T))
  BY PartsUnion
<1>2. Parts(Things(calls), K \cup StackLinks(T), F \cup FiresIn(T),
            C \cup ChecksIn(T), B \cup BodiesIn(T))
  BY <1>1 DEF Parts
<1>3. View.links = ListLinks \cup K \cup StackLinks(T)
  BY <1>2, ViewFields DEF Parts
<1> QED
  BY <1>2, <1>3, ViewFields DEF Parts, Taken

LEMMA LeftView ==
  ASSUME NEW T, Things(calls') = T, UNCHANGED <<derived, remaining, follows, tied, thrown>>
  PROVE  /\ View'.links = ListLinks' \cup StackLinks(T) /\ View'.fires = FiresIn(T)
         /\ View'.checks = ChecksIn(T) /\ View'.bodies = BodiesIn(T)
         /\ View'.went = WentNow' /\ Alike(View, View')
         /\ View'.remaining = View.remaining
BY ViewFields, NextViewFields DEF Alike, AllAlike

(* A list is fired by a piece of the library, or the last check does it.   *)
LEMMA FireView ==
  ASSUME DInv, VInv, UNCHANGED <<derived, remaining, follows, tied, thrown>>,
         Head(calls).runs # "loop",
         NEW d \in Made, NEW a \in Settling, NEW v \in Nat,
         NEW rest, Stack(Made, rest), Fire(d, a, v, rest),
         NEW F, NEW C, Taken(Things(rest), {}, F, C, {}),
         \/ F = {<<d, a>>} /\ C = {}
         \/ F = {} /\ C = {d} /\ a = "resolve" /\ remaining[d] = 0
  PROVE  Fits(View')
<1>1. /\ ListLinks' = ListLinks /\ Things(calls') = Things(rest)
      /\ \/ /\ WentNow' = WentNow \cup {<<d, a>>}
            /\ \A b \in Settling : <<d, b>> \notin WentNow
         \/ WentNow' = WentNow /\ \E b \in Settling : <<d, b>> \in WentNow
  BY FireCell, ActionFacts
<1>2. PICK T : T = Things(rest)
  OBVIOUS
<1>3. /\ View.links = ListLinks \cup {} \cup StackLinks(T)
      /\ View.fires = F \cup FiresIn(T) /\ View.checks = C \cup ChecksIn(T)
      /\ View.bodies = {} \cup BodiesIn(T) /\ View.went = WentNow
  BY <1>2 DEF Taken
<1>4. /\ View'.links = ListLinks' \cup StackLinks(T) /\ View'.fires = FiresIn(T)
      /\ View'.checks = ChecksIn(T) /\ View'.bodies = BodiesIn(T)
      /\ View'.went = WentNow' /\ Alike(View, View')
      /\ View'.remaining = View.remaining
  BY <1>1, <1>2, LeftView
<1>5. /\ View'.links = View.links /\ View'.bodies = View.bodies
      /\ View'.fires \subseteq View.fires /\ View'.checks \subseteq View.checks
  BY <1>1, <1>3, <1>4
<1>6. \/ ToFire(View, d, a)
      \/ a = "resolve" /\ d \in View.checks /\ View.remaining[d] = 0
  BY <1>3, ViewFields DEF ToFire
<1>7. \/ View'.went = View.went \cup {<<d, a>>} /\ ~Over(View, d)
      \/ View'.went = View.went /\ Over(View, d)
  BY <1>1, <1>3, <1>4 DEF Over, Went
<1>8. /\ \A u \in View.fires \ View'.fires : u[1] = d
      /\ \A n \in View.checks \ View'.checks : n = d
  BY <1>3, <1>4
<1>9. d \in Deferreds /\ Fits(View)
  BY DEF VInv, DInv, Types, Made
<1> QED
  BY <1>4, <1>5, <1>6, <1>7, <1>8, <1>9, SettleKeeps

(* Adding to a list: what is added waits in it, if the list is enabled;    *)
(* else the deferred went the other way.                                   *)
LEMMA AddedWaits ==
  ASSUME NEW M, NEW c \in Lists(M), IndexFits(c), c.list # Off,
         NEW x, NEW n, n.list = Append(c.list, x), n.list # Off,
         \/ ~CallsAtOnce(c) /\ n.firing = c.firing /\ n.firingIndex = c.firingIndex
         \/ CallsAtOnce(c) /\ n.firing = TRUE /\ n.firingIndex = 0 /\ c.list = <<>>
  PROVE  /\ \A k, l : Waits(n, k, l)
                        <=> Waits(c, k, l) \/ (k = Len(c.list) + 1 /\ l = x /\ IsLink(x))
         /\ \A l : ~Waits(c, Len(c.list) + 1, l)
         /\ Len(c.list) + 1 \in Nat
<1>1. /\ c.list \in Seq(Firsts(M) \cup Others(M)) /\ Len(c.list) \in Nat
      /\ c.firingIndex \in Nat /\ Reached(n) = Reached(c) /\ Reached(c) \in Nat
  BY DEF Lists, Reached, CallsAtOnce
<1>2. Reached(c) <= Len(c.list)
  BY <1>1 DEF IndexFits, Reached
<1>3. PICK r, l, s, t : r = Reached(c) /\ l = Len(c.list) /\ s = c.list /\ t = n.list
  OBVIOUS
<1>4. /\ DOMAIN s = 1 .. l /\ DOMAIN t = 1 .. l + 1
      /\ \A k \in 1 .. l : t[k] = s[k]
      /\ t[l + 1] = x
  <2>1. \A S, z : \A q \in Seq(S) : /\ DOMAIN q = 1 .. Len(q)
                                    /\ DOMAIN Append(q, z) = 1 .. Len(q) + 1
                                    /\ \A k \in 1 .. Len(q) : Append(q, z)[k] = q[k]
                                    /\ Append(q, z)[Len(q) + 1] = z
    OBVIOUS
  <2> QED  BY <1>1, <1>3, <2>1
<1>5. /\ \A k, y : Waits(n, k, y) <=> k \in DOMAIN t /\ k > r /\ t[k] = y /\ IsLink(y)
      /\ \A k, y : Waits(c, k, y) <=> k \in DOMAIN s /\ k > r /\ s[k] = y /\ IsLink(y)
  BY <1>1, <1>3 DEF Waits
<1>6. l \in Nat /\ r \in Nat /\ r <= l
  BY <1>1, <1>2, <1>3
<1>7. \A k : k \in 1 .. l + 1 <=> k \in 1 .. l \/ k = l + 1
  BY <1>6
<1>8. l + 1 > r /\ l + 1 \notin 1 .. l /\ l + 1 \in Nat
  BY <1>6
<1>9. \A k, y : Waits(n, k, y) <=> Waits(c, k, y) \/ (k = l + 1 /\ y = x /\ IsLink(x))
  <2> SUFFICES ASSUME NEW k, NEW y
               PROVE  Waits(n, k, y) <=> Waits(c, k, y) \/ (k = l + 1 /\ y = x /\ IsLink(x))
    OBVIOUS
  <2>1. CASE k = l + 1
    BY <1>4, <1>5, <1>7, <1>8, <2>1
  <2>2. CASE k # l + 1
    BY <1>4, <1>5, <1>7, <2>2
  <2> QED  BY <2>1, <2>2
<1>10. \A y : ~Waits(c, l + 1, y)
  BY <1>4, <1>5, <1>8
<1> QED
  BY <1>3, <1>8, <1>9, <1>10

(* What a list is that calls at once what was added.                       *)
IsStarted(M, c, x, n) ==
  /\ n \in Lists(M) /\ IndexFits(n)
  /\ n.firing = TRUE /\ n.fired = TRUE /\ n.firingIndex = Len(c.list)
  /\ n.list = Append(c.list, x) /\ n.list # Off

LEMMA AddedStarts ==
  ASSUME NEW M, M \subseteq Deferreds, NEW c \in Lists(M), IndexFits(c),
         c.list # Off, NEW x \in Firsts(M) \cup Others(M), CallsAtOnce(c)
  PROVE  IsStarted(M, c, x, Started(Added(c, x), c.memory))
<1> DEFINE n == Started(Added(c, x), c.memory)
<1>1. /\ n \in Lists(M) /\ IndexFits(n)
      /\ n.firing = TRUE /\ n.fired = TRUE /\ n.firingIndex = Len(c.list)
      /\ n.list = Append(c.list, x) /\ n.list # Off
  BY AddedFacts
<1> HIDE DEF n
<1>2. IsStarted(M, c, x, n)
  BY <1>1 DEF IsStarted
<1> QED
  BY <1>2 DEF n

LEMMA AddCell ==
  ASSUME DInv, calls = <<>> \/ Head(calls).runs # "loop",
         NEW d \in Made, NEW a \in Actions, NEW x \in Others(Made),
         NEW rest, Stack(Made, rest), Add(d, a, x, rest)
  PROVE  /\ Things(calls') = Things(rest) /\ WentNow' = WentNow
         /\ \A e \in Deferreds :
              \/ cb'[e]["notify"].list = cb[e]["notify"].list
              \/ /\ e = d /\ a = "notify" /\ cb[e]["notify"].list # Off
                 /\ cb'[e]["notify"].list = Append(cb[e]["notify"].list, x)
         /\ ~(a \in Settling /\ IsLink(x)) => ListLinks' = ListLinks
         /\ a \in Settling /\ IsLink(x) =>
              \/ ListLinks' = ListLinks /\ <<d, Opposite(a)>> \in WentNow
              \/ \E y \in Links : /\ y \notin ListLinks /\ y.at = "list"
                                  /\ y.d = d /\ y.a = a /\ y.x = x
                                  /\ ListLinks' = ListLinks \cup {y}
<1>1. PICK c : c = cb[d][a]
  OBVIOUS
<1>2. /\ cb \in [Deferreds -> [Actions -> Lists(Made)]] /\ d \in Deferreds
      /\ c \in Lists(Made) /\ IndexFits(c) /\ Made \subseteq Deferreds
      /\ Steady(Made, d, state[d], cb[d])
  <2>1. Made \subseteq Deferreds /\ Types /\ LoopsFit /\ PairsFit
    BY DEF DInv, Types, Made
  <2>2. Steady(Made, d, state[d], cb[d])
    BY <2>1, AllSteady
  <2>3. cb \in [Deferreds -> [Actions -> Lists(Made)]] /\ IndexFits(c) /\ d \in Deferreds
    BY <1>1, <2>1 DEF Types, LoopsFit
  <2> QED  BY <1>1, <2>1, <2>2, <2>3
<1>w. \A e \in Deferreds, b \in Settling :
        <<e, b>> \in WentNow <=> cb[e][b].list # Off /\ cb[e][b].fired
  BY DEF WentNow
<1>3. PICK n : n = IF CallsAtOnce(c) THEN Started(Added(c, x), c.memory) ELSE Added(c, x)
  OBVIOUS
<1>4. /\ cb' = [cb EXCEPT ![d][a] = n]
      /\ calls' = IF CallsAtOnce(c) THEN <<Loop(d, a, c.memory)>> \o rest ELSE rest
  BY <1>1, <1>3 DEF Add
<1>5. CASE c.list = Off
  <2>1. n = c /\ ~CallsAtOnce(c)
    BY <1>3, <1>5 DEF Added, CallsAtOnce
  <2>2. cb' = cb
    BY <1>1, <1>2, <1>4, <2>1
  <2>3. calls' = rest
    BY <1>4, <2>1
  <2>4. ListLinks' = ListLinks /\ WentNow' = WentNow
    BY <2>2 DEF ListLinks, WentNow
  <2>5. ASSUME a \in Settling
        PROVE  <<d, Opposite(a)>> \in WentNow
    <3>1. \/ Fresh(Made, c, d, a)
          \/ Done(Made, c)
          \/ Done(Made, cb[d][Opposite(a)])
      BY <1>1, <1>2, <2>5, SteadyKinds
    <3>3. ~Fresh(Made, c, d, a) /\ ~Done(Made, c)
      BY <1>5 DEF Fresh, Starts, Done
    <3>2. Opposite(a) \in Settling
      BY <2>5, ActionFacts
    <3> QED  BY <1>2, <1>w, <3>1, <3>2, <3>3 DEF Done
  <2> QED  BY <2>2, <2>3, <2>4, <2>5
<1>6. CASE c.list # Off
  <2>1. /\ n \in Lists(Made) /\ IndexFits(n) /\ n.list = Append(c.list, x) /\ n.list # Off
        /\ CallsAtOnce(c) => n.firing = TRUE /\ n.fired = TRUE /\ n.firingIndex = Len(c.list)
        /\ ~CallsAtOnce(c) => /\ n.firing = c.firing /\ n.fired = c.fired
                              /\ n.firingIndex = c.firingIndex
    <3>0. x \in Firsts(Made) \cup Others(Made)
      OBVIOUS
    <3>1. CASE CallsAtOnce(c)
      <4>1. n = Started(Added(c, x), c.memory)
        BY <1>3, <3>1
      <4>2. /\ Made \subseteq Deferreds /\ c \in Lists(Made) /\ IndexFits(c)
            /\ c.list # Off /\ CallsAtOnce(c)
        BY <1>2, <1>6, <3>1
      <4>3. IsStarted(Made, c, x, n)
        BY <3>0, <4>1, <4>2, AddedStarts
      <4> QED  BY <3>1, <4>3 DEF IsStarted
    <3>2. CASE ~CallsAtOnce(c)
      <4>1. n = Added(c, x)
        BY <1>3, <3>2
      <4>2. IsAdded(Made, c, x, n)
        BY <1>2, <1>6, <3>0, <3>2, <4>1, AddedLater
      <4> QED  BY <3>2, <4>2 DEF IsAdded
    <3> QED  BY <3>1, <3>2
  <2>2. OneCell(d, a) /\ cb'[d][a] = n
    BY <1>2, <1>4, <2>1, SetCell DEF OneCell
  <2>3. Things(calls') = Things(rest)
    <3>1. CallsAtOnce(c) => c.memory \in Nat
      BY <1>2 DEF CallsAtOnce, Lists
    <3> QED  BY <1>4, <3>1, LoopThings
  <2>4. \A e \in Deferreds :
          \/ cb'[e]["notify"].list = cb[e]["notify"].list
          \/ /\ e = d /\ a = "notify" /\ cb[e]["notify"].list # Off
             /\ cb'[e]["notify"].list = Append(cb[e]["notify"].list, x)
    <3> TAKE e \in Deferreds
    <3>1. CASE e = d /\ a = "notify"
      BY <1>1, <1>6, <2>1, <2>2, <3>1
    <3>2. CASE e # d \/ a # "notify"
      BY <2>2, <3>2, ActionFacts DEF OneCell
    <3> QED  BY <3>1, <3>2
  <2>5. CASE a \notin Settling
    <3>1. ListLinks' = ListLinks
      BY <1>2, <2>2, <2>5, LinksCell
    <3>2. WentNow' = WentNow
      BY <1>2, <2>2, <2>5, WentSame
    <3> QED  BY <2>3, <2>4, <2>5, <3>1, <3>2
  <2>6. CASE a \in Settling
    <3>1. Fresh(Made, c, d, a) \/ Done(Made, c)
      BY <1>1, <1>2, <1>6, <2>6, SteadyKinds DEF Disused
    <3>2. CallsAtOnce(c) => Done(Made, c) /\ c.fired /\ c.list = <<>>
      BY <3>1 DEF CallsAtOnce, Fresh, Done
    <3>3. WentNow' = WentNow
      BY <1>1, <1>2, <1>6, <2>1, <2>2, <3>2, WentSame
    <3>4. \/ ~CallsAtOnce(c) /\ n.firing = c.firing /\ n.firingIndex = c.firingIndex
          \/ CallsAtOnce(c) /\ n.firing = TRUE /\ n.firingIndex = 0 /\ c.list = <<>>
      BY <2>1, <3>2
    <3>5. PICK i : i = Len(c.list) + 1
      OBVIOUS
    <3>a. /\ \A k, l : Waits(n, k, l)
                         <=> Waits(c, k, l) \/ (k = Len(c.list) + 1 /\ l = x /\ IsLink(x))
          /\ \A l : ~Waits(c, Len(c.list) + 1, l)
          /\ Len(c.list) + 1 \in Nat
      BY <1>2, <1>6, <2>1, <3>4, AddedWaits
    <3>6. /\ \A k, l : Waits(n, k, l)
                         <=> Waits(c, k, l) \/ (k = i /\ l = x /\ IsLink(x))
          /\ \A l : ~Waits(c, i, l)
          /\ i \in Nat
      BY <3>5, <3>a
    <3>7. CASE ~IsLink(x)
      <4>1. \A k, l : Waits(n, k, l) <=> Waits(c, k, l)
        BY <3>6, <3>7
      <4>2. ListLinks' = ListLinks
        BY <1>1, <1>2, <2>2, <4>1, LinksCell
      <4> QED  BY <2>3, <2>4, <3>3, <3>7, <4>2
    <3>8. CASE IsLink(x)
      <4>1. /\ \A k, l : Waits(cb'[d][a], k, l) <=> Waits(cb[d][a], k, l) \/ (k = i /\ l = x)
            /\ \A l : ~Waits(cb[d][a], i, l)
            /\ i \in Nat
        BY <1>1, <2>2, <3>6, <3>8
      <4>2. x \in Others(Deferreds)
        BY <1>2, ItemsGrow
      <4>a. d \in Deferreds /\ OneCell(d, a)
        BY <1>2, <2>2
      <4>3. \E y \in Links : /\ y \notin ListLinks /\ y.at = "list"
                             /\ y.d = d /\ y.a = a /\ y.x = x
                             /\ ListLinks' = ListLinks \cup {y}
        BY <2>6, <3>8, <4>1, <4>2, <4>a, LinksMore
      <4> QED  BY <2>3, <2>4, <3>3, <3>8, <4>3, <2>6
    <3> QED  BY <3>7, <3>8
  <2> QED  BY <2>5, <2>6
<1> QED
  BY <1>5, <1>6

LEMMA JobForm ==
  ASSUME NEW M, NEW x \in Jobs(M)
  PROVE  /\ x.call = "add" => x = Adds(x.d, x.a, x.f)
         /\ x.call = "fire" => x = Fires(x.d, x.a, x.v)
         /\ x.call = "check" => x = Checks(x.d)
BY DEF Jobs, Adds, Fires, Checks

LEMMA ListGrows ==
  ASSUME NEW S, NEW l \in Seq(S), ListFits(l), l # Off, NEW x, NotifyLink(x)
  PROVE  ListFits(Append(l, x))
<1>1. /\ DOMAIN l = 1 .. Len(l) /\ DOMAIN Append(l, x) = 1 .. Len(l) + 1
      /\ \A k \in 1 .. Len(l) : Append(l, x)[k] = l[k]
      /\ Append(l, x)[Len(l) + 1] = x
      /\ Len(l) \in Nat
  OBVIOUS
<1>2. \A k \in 1 .. Len(l) : NotifyLink(l[k])
  BY <1>1 DEF ListFits
<1>3. \A k \in 1 .. Len(l) + 1 : k \in 1 .. Len(l) \/ k = Len(l) + 1
  BY <1>1
<1>4. \A k \in 1 .. Len(l) + 1 : NotifyLink(Append(l, x)[k])
  BY <1>1, <1>2, <1>3
<1> QED
  BY <1>1, <1>4 DEF ListFits

(* A call that has to do with no link, or with one to a list of            *)
(* notifications.                                                          *)
LEMMA QuietView ==
  ASSUME VInv, UNCHANGED <<derived, remaining, follows, tied, thrown>>,
         NEW T, Things(calls') = T, Taken(T, {}, {}, {}, {}),
         ListLinks' = ListLinks, WentNow' = WentNow
  PROVE  Fits(View')
<1>1. /\ View'.links = ListLinks' \cup StackLinks(T) /\ View'.fires = FiresIn(T)
      /\ View'.checks = ChecksIn(T) /\ View'.bodies = BodiesIn(T)
      /\ View'.went = WentNow' /\ Alike(View, View')
      /\ View'.remaining = View.remaining
  BY LeftView
<1>2. /\ View.links = ListLinks \cup {} \cup StackLinks(T)
      /\ View.fires = {} \cup FiresIn(T) /\ View.checks = {} \cup ChecksIn(T)
      /\ View.bodies = {} \cup BodiesIn(T) /\ View.went = WentNow
  BY DEF Taken
<1>3. /\ View'.links = View.links /\ View'.fires = View.fires
      /\ View'.checks = View.checks /\ View'.bodies = View.bodies
      /\ View'.went = View.went
  BY <1>1, <1>2
<1>4. View'.links \subseteq View.links /\ \A y \in View.links \ View'.links : ~Live(View, y)
  BY <1>3
<1> QED
  BY <1>1, <1>3, <1>4, DropKeeps DEF VInv

(* A link comes from the stack into the list.                              *)
LEMMA AddView ==
  ASSUME DInv, VInv, UNCHANGED <<derived, remaining, follows, tied, thrown>>,
         Head(calls).runs # "loop",
         NEW d \in Made, NEW a \in Settling, NEW x \in Others(Made), IsLink(x),
         NEW rest, Stack(Made, rest), Add(d, a, x, rest),
         NEW p \in Nat, NEW q \in Nat, q # 0,
         Things(calls) = {<<p, q, Adds(d, a, x)>>} \cup Things(rest),
         \A t \in Things(rest) : t[1] = p => t[2] # q
  PROVE  Fits(View')
<1>1. PICK y : y = [at |-> "stack", d |-> d, a |-> a, i |-> p, j |-> q, x |-> x]
  OBVIOUS
<1>2. PICK T : T = Things(rest)
  OBVIOUS
<1>3. /\ y.at = "stack" /\ y.d = d /\ y.a = a /\ y.i = p /\ y.j = q /\ y.x = x
      /\ y \in Links /\ d \in Deferreds
  <2>1. Made \subseteq Deferreds
    BY DEF DInv, Types, Made
  <2>2. x \in Others(Deferreds)
    BY <2>1, ItemsGrow
  <2> QED  BY <1>1, <2>1, <2>2 DEF Links
<1>4. Taken(T, {y}, {}, {}, {})
  <2>1. Parts({<<y.i, y.j, Adds(y.d, y.a, y.x)>>}, {y}, {}, {}, {})
    BY <1>3, LinkThing
  <2>2. Parts({<<p, q, Adds(d, a, x)>>}, {y}, {}, {}, {})
    BY <1>3, <2>1
  <2> QED  BY <1>2, <2>2, TakenView
<1>5. y \notin ListLinks /\ y \notin StackLinks(T)
  <2>1. y \notin ListLinks
    BY <1>3 DEF ListLinks
  <2>2. ASSUME y \in StackLinks(T)
        PROVE  FALSE
    <3>1. <<y.i, y.j, Adds(y.d, y.a, y.x)>> \in T
      BY <2>2 DEF StackLinks
    <3>2. PICK t : t = <<y.i, y.j, Adds(y.d, y.a, y.x)>>
      OBVIOUS
    <3>3. t \in Things(rest) /\ t[1] = p /\ t[2] = q
      BY <1>2, <1>3, <3>1, <3>2
    <3> QED  BY <3>3
  <2> QED  BY <2>1, <2>2
<1>6. /\ View.links = ListLinks \cup {y} \cup StackLinks(T)
      /\ View.fires = {} \cup FiresIn(T) /\ View.checks = {} \cup ChecksIn(T)
      /\ View.bodies = {} \cup BodiesIn(T) /\ View.went = WentNow
  BY <1>4 DEF Taken
<1>7. /\ Things(calls') = Things(rest) /\ WentNow' = WentNow
      /\ \/ ListLinks' = ListLinks /\ <<d, Opposite(a)>> \in WentNow
         \/ \E z \in Links : /\ z \notin ListLinks /\ z.at = "list"
                             /\ z.d = d /\ z.a = a /\ z.x = x
                             /\ ListLinks' = ListLinks \cup {z}
  BY AddCell, ActionFacts
<1>8. /\ View'.links = ListLinks' \cup StackLinks(T) /\ View'.fires = FiresIn(T)
      /\ View'.checks = ChecksIn(T) /\ View'.bodies = BodiesIn(T)
      /\ View'.went = WentNow' /\ Alike(View, View')
      /\ View'.remaining = View.remaining
  BY <1>2, <1>7, LeftView
<1>9. /\ View'.fires = View.fires /\ View'.checks = View.checks
      /\ View'.bodies = View.bodies /\ View'.went = View.went
  BY <1>6, <1>7, <1>8
<1>10. CASE ListLinks' = ListLinks /\ <<d, Opposite(a)>> \in WentNow
  <2>1. View'.links \subseteq View.links
    BY <1>6, <1>8, <1>10
  <2>2. ASSUME NEW z \in View.links \ View'.links
        PROVE  ~Live(View, z)
    <3>1. z = y
      BY <1>6, <1>8, <1>10, <2>2
    <3>2. <<z.d, Opposite(z.a)>> \in View.went
      BY <1>3, <1>6, <1>10, <3>1
    <3> QED  BY <3>2 DEF Live, Went
  <2>3. \A z \in View.links \ View'.links : ~Live(View, z)
    BY <2>2
  <2> QED  BY <1>8, <1>9, <2>1, <2>3, DropKeeps DEF VInv
<1>11. CASE \E z \in Links : /\ z \notin ListLinks /\ z.at = "list"
                             /\ z.d = d /\ z.a = a /\ z.x = x
                             /\ ListLinks' = ListLinks \cup {z}
  <2>1. PICK z \in Links : /\ z \notin ListLinks /\ z.at = "list"
                           /\ z.d = d /\ z.a = a /\ z.x = x
                           /\ ListLinks' = ListLinks \cup {z}
    BY <1>11
  <2>2. z \notin StackLinks(T) /\ z # y
    BY <1>3, <2>1 DEF StackLinks
  <2>3. y \in View.links /\ z \notin View.links
    BY <1>6, <2>1, <2>2
  <2>4. View'.links = (View.links \ {y}) \cup {z}
    BY <1>5, <1>6, <1>8, <2>1, <2>2
  <2>5. z.d = y.d /\ z.a = y.a /\ z.x = y.x
    BY <1>3, <2>1
  <2> QED  BY <1>8, <1>9, <2>1, <2>3, <2>4, <2>5, MoveKeeps DEF VInv
<1> QED
  BY <1>7, <1>10, <1>11

(* A check before everything was counted.                                  *)
LEMMA EarlyView ==
  ASSUME VInv, UNCHANGED <<derived, remaining, follows, tied, thrown, cb>>,
         NEW T, Things(calls') = T, NEW n, Taken(T, {}, {}, {n}, {}),
         remaining[n] > 0
  PROVE  Fits(View')
<1>1. ListLinks' = ListLinks /\ WentNow' = WentNow
  BY DEF ListLinks, WentNow
<1>2. /\ View'.links = ListLinks' \cup StackLinks(T) /\ View'.fires = FiresIn(T)
      /\ View'.checks = ChecksIn(T) /\ View'.bodies = BodiesIn(T)
      /\ View'.went = WentNow' /\ Alike(View, View')
      /\ View'.remaining = View.remaining
  BY LeftView
<1>3. /\ View.links = ListLinks \cup {} \cup StackLinks(T)
      /\ View.fires = {} \cup FiresIn(T) /\ View.checks = {n} \cup ChecksIn(T)
      /\ View.bodies = {} \cup BodiesIn(T) /\ View.went = WentNow
  BY DEF Taken
<1>4. /\ View'.links = View.links /\ View'.fires = View.fires
      /\ View'.checks \subseteq View.checks
      /\ View'.bodies = View.bodies /\ View'.went = View.went
  BY <1>1, <1>2, <1>3
<1>5. \A k \in View.checks \ View'.checks : k = n
  BY <1>2, <1>3
<1>6. \A k \in View.checks \ View'.checks : Over(View, k) \/ View.remaining[k] > 0
  BY <1>5, ViewFields
<1>7. \A k, a : ToFire(View, k, a) /\ ~ToFire(View', k, a) => Over(View, k)
  BY <1>4 DEF ToFire
<1>8. View'.fires \subseteq View.fires
  BY <1>4
<1> QED
  BY <1>2, <1>4, <1>6, <1>7, <1>8, LateKeeps DEF VInv

(* The call as a part of the stack.                                        *)
LEMMA CallView ==
  ASSUME DInv, VInv, CallLibrary,
         NEW rest, rest = RestOf(calls), NEW it, it = Head(Top.todo)
  PROVE  /\ Stack(Made, rest) /\ it \in Jobs(Made)
         /\ \/ it.call = "add" /\ Add(it.d, it.a, it.f, rest)
            \/ it.call = "fire" /\ Fire(it.d, it.a, it.v, rest)
            \/ /\ it.call = "check"
               /\ IF remaining[it.d] = 0 THEN Fire(it.d, "resolve", 0, rest)
                  ELSE calls' = rest /\ UNCHANGED cb
         /\ UNCHANGED <<owned, derived, state, remaining, given, called, unused,
                        notified, follows, tied, thrown>>
         /\ Head(calls).runs # "loop"
         /\ it.call \in {"add", "fire", "check"} /\ it.d \in Made
         /\ it.call = "add" => it.a \in Actions /\ it.f \in Others(Made)
         /\ it.call = "fire" => it.a \in Actions /\ it.v \in Nat
         /\ it.call = "add" => it = Adds(it.d, it.a, it.f)
         /\ it.call = "fire" => it = Fires(it.d, it.a, it.v)
         /\ it.call = "check" => it = Checks(it.d)
<1>1. /\ calls # <<>> /\ Top.runs = "library" /\ Top = Head(calls)
      /\ Below = Tail(calls) /\ Running("library")
  BY DEF CallLibrary, Running, Top, Below
<1>2. AddsFit /\ Stack(Made, calls)
  BY DEF DInv
<1>3. Stack(Made, rest) /\ it \in Jobs(Made)
  BY <1>1, <1>2, RestFacts
<1>4. /\ \/ it.call = "add" /\ Add(it.d, it.a, it.f, rest)
         \/ it.call = "fire" /\ Fire(it.d, it.a, it.v, rest)
         \/ /\ it.call = "check"
            /\ IF remaining[it.d] = 0 THEN Fire(it.d, "resolve", 0, rest)
               ELSE calls' = rest /\ UNCHANGED cb
      /\ UNCHANGED <<owned, derived, state, remaining, given, called, unused,
                     notified, follows, tied, thrown>>
  BY <1>1 DEF CallLibrary, RestOf, Top, Below, history
<1>5. Head(calls).runs # "loop"
  BY <1>1
<1> QED
  BY <1>3, <1>4, <1>5, JobKinds, JobForm

LEMMA CallLibraryFits ==
  ASSUME DInv, VInv, CallLibrary
  PROVE  Fits(View')
<1>1. PICK rest, it : rest = RestOf(calls) /\ it = Head(Top.todo)
  OBVIOUS
<1>2. /\ Stack(Made, rest) /\ it \in Jobs(Made)
      /\ \/ it.call = "add" /\ Add(it.d, it.a, it.f, rest)
         \/ it.call = "fire" /\ Fire(it.d, it.a, it.v, rest)
         \/ /\ it.call = "check"
            /\ IF remaining[it.d] = 0 THEN Fire(it.d, "resolve", 0, rest)
               ELSE calls' = rest /\ UNCHANGED cb
      /\ UNCHANGED <<owned, derived, state, remaining, given, called, unused,
                     notified, follows, tied, thrown>>
      /\ Head(calls).runs # "loop"
      /\ it.call \in {"add", "fire", "check"} /\ it.d \in Made
      /\ it.call = "add" => it.a \in Actions /\ it.f \in Others(Made)
      /\ it.call = "fire" => it.a \in Actions /\ it.v \in Nat
      /\ it.call = "add" => it = Adds(it.d, it.a, it.f)
      /\ it.call = "fire" => it = Fires(it.d, it.a, it.v)
      /\ it.call = "check" => it = Checks(it.d)
  BY <1>1, CallView
<1>3. Running("library")
  BY DEF CallLibrary
<1>4. PICK p \in Nat, q \in Nat :
        /\ q # 0 /\ Things(calls) = {<<p, q, it>>} \cup Things(rest)
        /\ \A t \in Things(rest) : t[1] = p => t[2] # q
  <2>1. \E p \in Nat, q \in Nat :
           /\ q # 0
           /\ Things(calls) = {<<p, q, Head(Top.todo)>>} \cup Things(rest)
           /\ \A t \in Things(rest) : t[1] = p => t[2] # q
    BY <1>1, <1>3, TakesCall
  <2> QED  BY <1>1, <2>1
<1>5. PICK d : d = it.d
  OBVIOUS
<1>6. d \in Made /\ d \in Deferreds
  BY <1>2, <1>5 DEF DInv, Types, Made
<1>7. CASE Silent(it) /\ it.call = "add"
  <2>1. Taken(Things(rest), {}, {}, {}, {})
    BY <1>4, <1>7, SilentThing, TakenView
  <2>2. PICK a, x : a = it.a /\ x = it.f
    OBVIOUS
  <2>3. /\ Add(d, a, x, rest) /\ a \in Actions /\ x \in Others(Made)
        /\ ~(a \in Settling /\ IsLink(x))
    BY <1>2, <1>5, <1>7, <2>2, ActionFacts DEF Silent
  <2>4. Stack(Made, rest) /\ (calls = <<>> \/ Head(calls).runs # "loop")
    BY <1>2
  <2>5. Things(calls') = Things(rest) /\ WentNow' = WentNow
    BY <1>6, <2>3, <2>4, AddCell
  <2>6. ListLinks' = ListLinks
    BY <1>6, <2>3, <2>4, AddCell
  <2> QED  BY <1>2, <2>1, <2>5, <2>6, QuietView
<1>8. CASE ~Silent(it) /\ it.call = "add"
  <2>1. PICK a, x : a = it.a /\ x = it.f
    OBVIOUS
  <2>2. /\ Add(d, a, x, rest) /\ a \in Settling /\ x \in Others(Made) /\ IsLink(x)
    BY <1>2, <1>5, <1>8, <2>1, ActionFacts DEF Silent
  <2>3. Things(calls) = {<<p, q, Adds(d, a, x)>>} \cup Things(rest)
    BY <1>2, <1>4, <1>5, <1>8, <2>1
  <2> QED  BY <1>2, <1>4, <1>6, <2>2, <2>3, AddView
<1>9. CASE it.call = "fire"
  <2>1. PICK a, v : a = it.a /\ v = it.v
    OBVIOUS
  <2>2. Fire(d, a, v, rest) /\ a \in Actions /\ v \in Nat /\ it = Fires(d, a, v)
    BY <1>2, <1>5, <1>9, <2>1
  <2>3. CASE a \notin Settling
    <3>1. Silent(it)
      BY <1>9, <2>1, <2>2, <2>3, ActionFacts DEF Silent
    <3>2. Taken(Things(rest), {}, {}, {}, {})
      BY <1>4, <3>1, SilentThing, TakenView
    <3>3. ListLinks' = ListLinks /\ Things(calls') = Things(rest) /\ WentNow' = WentNow
      BY <1>2, <1>6, <2>2, <2>3, FireCell
    <3> QED  BY <1>2, <3>2, <3>3, QuietView
  <2>4. CASE a \in Settling
    <3>1. Parts({<<p, q, Fires(d, a, v)>>}, {}, {<<d, a>>}, {}, {})
      BY <1>4, <1>6, <2>4, FireThing
    <3>2. Parts({<<p, q, it>>}, {}, {<<d, a>>}, {}, {})
      BY <2>2, <3>1
    <3>3. Taken(Things(rest), {}, {<<d, a>>}, {}, {})
      BY <1>4, <3>2, TakenView
    <3> QED  BY <1>2, <1>6, <2>2, <2>4, <3>3, FireView
  <2> QED  BY <2>3, <2>4
<1>10. CASE it.call = "check"
  <2>1. Parts({<<p, q, Checks(d)>>}, {}, {}, {d}, {})
    BY <1>4, <1>6, CheckThing
  <2>2. Parts({<<p, q, it>>}, {}, {}, {d}, {})
    BY <1>2, <1>5, <1>10, <2>1
  <2>3. Taken(Things(rest), {}, {}, {d}, {})
    BY <1>4, <2>2, TakenView
  <2>4. CASE remaining[d] = 0
    <3>1. Fire(d, "resolve", 0, rest)
      BY <1>2, <1>5, <1>10, <2>4
    <3>2. "resolve" \in Settling /\ 0 \in Nat
      BY DEF Settling
    <3> QED  BY <1>2, <1>6, <2>3, <2>4, <3>1, <3>2, FireView
  <2>5. CASE remaining[d] # 0
    <3>1. calls' = rest /\ UNCHANGED cb
      BY <1>2, <1>5, <1>10, <2>5
    <3>2. remaining[d] > 0
      BY <1>6, <2>5 DEF VInv, DerivedTypes
    <3>3. Things(calls') = Things(rest)
      BY <3>1
    <3> QED  BY <1>2, <2>3, <3>1, <3>2, <3>3, EarlyView
  <2> QED  BY <2>4, <2>5
<1> QED
  BY <1>2, <1>7, <1>8, <1>9, <1>10

LEMMA CallLibraryNotifies ==
  ASSUME DInv, VInv, CallLibrary
  PROVE  NotifyLinks'
<1>1. PICK rest, it : rest = RestOf(calls) /\ it = Head(Top.todo)
  OBVIOUS
<1>2. /\ Stack(Made, rest) /\ it \in Jobs(Made)
      /\ \/ it.call = "add" /\ Add(it.d, it.a, it.f, rest)
         \/ it.call = "fire" /\ Fire(it.d, it.a, it.v, rest)
         \/ /\ it.call = "check"
            /\ IF remaining[it.d] = 0 THEN Fire(it.d, "resolve", 0, rest)
               ELSE calls' = rest /\ UNCHANGED cb
      /\ UNCHANGED <<owned, derived, state, remaining, given, called, unused,
                     notified, follows, tied, thrown>>
      /\ Head(calls).runs # "loop"
      /\ it.call \in {"add", "fire", "check"} /\ it.d \in Made
      /\ it.call = "add" => it.a \in Actions /\ it.f \in Others(Made)
      /\ it.call = "fire" => it.a \in Actions /\ it.v \in Nat
  BY <1>1, CallView
<1>3. Running("library")
  BY DEF CallLibrary
<1>4. PICK p \in Nat, q \in Nat :
        q # 0 /\ Things(calls) = {<<p, q, it>>} \cup Things(rest)
  <2>1. \E p \in Nat, q \in Nat :
           /\ q # 0
           /\ Things(calls) = {<<p, q, Head(Top.todo)>>} \cup Things(rest)
           /\ \A t \in Things(rest) : t[1] = p => t[2] # q
    BY <1>1, <1>3, TakesCall
  <2> QED  BY <1>1, <2>1
<1>5. PICK d : d = it.d
  OBVIOUS
<1>6. /\ d \in Made /\ d \in Deferreds /\ Made \subseteq Deferreds /\ Made' = Made
      /\ cb \in [Deferreds -> [Actions -> Lists(Made)]]
  BY <1>2, <1>5 DEF DInv, Types, Made
<1>7. Stack(Made, rest) /\ (calls = <<>> \/ Head(calls).runs # "loop")
  BY <1>2
<1>8. CASE it.call = "add"
  <2>1. PICK a, x : a = it.a /\ x = it.f
    OBVIOUS
  <2>2. Add(d, a, x, rest) /\ a \in Actions /\ x \in Others(Made)
    BY <1>2, <1>5, <1>8, <2>1
  <2>3. Things(calls') = Things(rest)
    BY <1>6, <1>7, <2>2, AddCell
  <2>4. \A e \in Deferreds :
              \/ cb'[e]["notify"].list = cb[e]["notify"].list
              \/ /\ e = d /\ a = "notify" /\ cb[e]["notify"].list # Off
                 /\ cb'[e]["notify"].list = Append(cb[e]["notify"].list, x)
    BY <1>6, <1>7, <2>2, AddCell
  <2>5. ASSUME a = "notify"
        PROVE  NotifyLink(x)
    <3>1. PICK t : t = <<p, q, it>>
      OBVIOUS
    <3>2. ThingFits(t)
      BY <1>4, <3>1 DEF VInv, NotifyLinks
    <3> QED  BY <1>4, <1>8, <2>1, <2>5, <3>1, <3>2 DEF ThingFits
  <2>6. ASSUME NEW e \in Made
        PROVE  \/ cb'[e]["notify"].list = cb[e]["notify"].list
               \/ ListFits(cb'[e]["notify"].list)
    <3>1. CASE /\ e = d /\ a = "notify" /\ cb[e]["notify"].list # Off
               /\ cb'[e]["notify"].list = Append(cb[e]["notify"].list, x)
      <4>1. PICK l : l = cb[e]["notify"].list
        OBVIOUS
      <4>2. l # Off /\ NotifyLink(x)
        BY <2>5, <3>1, <4>1
      <4>3. ListFits(l)
        BY <1>6, <2>6, <4>1 DEF VInv, NotifyLinks
      <4>4. l \in Seq(Firsts(Made) \cup Others(Made))
        <5>1. cb[e]["notify"] \in Lists(Made)
          BY <1>6, <2>6, ActionFacts
        <5> QED  BY <4>1, <4>2, <5>1 DEF Lists
      <4>5. ListFits(Append(l, x))
        BY <4>2, <4>3, <4>4, ListGrows
      <4> QED  BY <3>1, <4>1, <4>5
    <3> QED  BY <1>6, <2>4, <2>6, <3>1
  <2>7. \A t \in Things(calls') : t \in Things(calls)
    BY <1>4, <2>3
  <2>8. NotifyLinks
    BY DEF VInv
  <2> QED  BY <1>6, <2>6, <2>7, <2>8, NotifyKeeps
<1>9. CASE \E a \in Actions, v \in Nat : Fire(d, a, v, rest)
  <2>1. PICK a \in Actions, v \in Nat : Fire(d, a, v, rest)
    BY <1>9
  <2>2. Things(calls') = Things(rest)
    BY <1>6, <1>7, <2>1, FireCell
  <2>3. \A e \in Deferreds : cb'[e]["notify"].list = cb[e]["notify"].list
    BY <1>6, <1>7, <2>1, FireCell
  <2>4. \A t \in Things(calls') : t \in Things(calls)
    BY <1>4, <2>2
  <2>5. NotifyLinks
    BY DEF VInv
  <2> QED  BY <1>6, <2>3, <2>4, <2>5, NotifyKeeps
<1>10. CASE calls' = rest /\ UNCHANGED cb
  <2>1. Things(calls') = Things(rest)
    BY <1>10
  <2>4. \A t \in Things(calls') : t \in Things(calls)
    BY <1>4, <2>1
  <2>5. NotifyLinks
    BY DEF VInv
  <2> QED  BY <1>6, <1>10, <2>4, <2>5, NotifyKeeps
<1>11. "resolve" \in Actions /\ 0 \in Nat
  BY DEF Actions
<1> QED
  BY <1>2, <1>5, <1>8, <1>9, <1>10, <1>11

LEMMA CallLibraryView ==
  ASSUME DInv, VInv, CallLibrary
  PROVE  VInv'
<1>1. UNCHANGED <<owned, derived, remaining, follows, tied>>
  BY DEF CallLibrary, history
<1>2. DerivedTypes'
  BY <1>1 DEF VInv, DerivedTypes
<1> QED
  BY <1>2, CallLibraryFits, CallLibraryNotifies DEF VInv

-----------------------------------------------------------------------------
(* User code.  A deferred that is made has no links and went no way.       *)
LEMMA UnmadeLists ==
  ASSUME DInv, NEW n \in Deferreds, n \notin Made
  PROVE  \A a \in Actions : /\ cb[n][a].list = <<>> /\ cb[n][a].fired = FALSE
                            /\ \A k, x : ~Waits(cb[n][a], k, x)
<1>1. cb[n] = [a \in Actions |-> NewList(TRUE)]
  BY DEF DInv, UnmadeFits
<1>2. NewList(TRUE).list = <<>> /\ NewList(TRUE).fired = FALSE
  BY DEF NewList
<1>3. \A k : k \notin DOMAIN <<>>
  OBVIOUS
<1> QED
  BY <1>1, <1>2, <1>3 DEF Waits

LEMMA NewCell ==
  ASSUME DInv, NEW n \in Deferreds, n \notin Made,
         cb' = [cb EXCEPT ![n] = NewLists(n)]
  PROVE  /\ ListLinks' = ListLinks /\ WentNow' = WentNow
         /\ \A e \in Made : cb'[e] = cb[e]
         /\ ListFits(cb'[n]["notify"].list)
         /\ \A a \in Settling : <<n, a>> \notin WentNow
<1>1. PICK N : N = Made \cup {n}
  OBVIOUS
<1>2. /\ Made \subseteq Deferreds /\ cb \in [Deferreds -> [Actions -> Lists(Made)]]
      /\ N \subseteq Deferreds /\ n \in N
  BY <1>1 DEF DInv, Types, Made
<1>3. /\ \A a \in Settling : Fresh(N, NewLists(n)[a], n, a)
      /\ NewLists(n)["notify"].list = <<>>
      /\ \A a \in Settling : \A k \in DOMAIN NewLists(n)[a].list :
           NewLists(n)[a].list[k] \in Firsts(N)
  BY <1>2, NewListsFacts
<1>4. cb'[n] = NewLists(n) /\ \A e \in Deferreds : e # n => cb'[e] = cb[e]
  BY <1>2
<1>5. /\ \A a \in Actions : /\ cb[n][a].fired = FALSE
                            /\ \A k, x : ~Waits(cb[n][a], k, x)
  BY UnmadeLists
<1>6. \A a \in Settling : /\ cb'[n][a].fired = FALSE
                          /\ \A k, x : ~Waits(cb'[n][a], k, x)
  <2> TAKE a \in Settling
  <2>1. cb'[n][a].fired # TRUE
    BY <1>3, <1>4 DEF Fresh
  <2>2. cb'[n][a].fired = FALSE
    <3>1. NewLists(n) \in [Actions -> Lists(N)]
      BY <1>2, NewListsFacts
    <3>2. cb'[n][a] \in Lists(N)
      BY <1>4, <3>1, ActionFacts
    <3> QED  BY <2>1, <3>2 DEF Lists
  <2>3. \A k \in DOMAIN cb'[n][a].list : ~IsLink(cb'[n][a].list[k])
    <3>1. \A k \in DOMAIN cb'[n][a].list : cb'[n][a].list[k] \in Firsts(N)
      BY <1>3, <1>4
    <3> QED  BY <3>1, FirstKinds DEF IsLink
  <2>4. \A k, x : ~Waits(cb'[n][a], k, x)
    BY <2>3 DEF Waits
  <2> QED  BY <2>2, <2>4
<1>7. ListLinks' = ListLinks
  <2> SUFFICES ASSUME NEW e \in Deferreds, NEW b \in Settling, NEW k, NEW x
               PROVE  Waits(cb'[e][b], k, x) <=> Waits(cb[e][b], k, x)
    BY LinksSame
  <2>1. CASE e = n
    BY <1>5, <1>6, <2>1, ActionFacts
  <2>2. CASE e # n
    BY <1>4, <2>2
  <2> QED  BY <2>1, <2>2
<1>8. WentNow' = WentNow
  <2>1. \A e \in Deferreds, b \in Settling :
          cb'[e][b].list # Off /\ cb'[e][b].fired <=> cb[e][b].list # Off /\ cb[e][b].fired
    <3> TAKE e \in Deferreds, b \in Settling
    <3>1. CASE e = n
      BY <1>5, <1>6, <3>1, ActionFacts
    <3>2. CASE e # n
      BY <1>4, <3>2
    <3> QED  BY <3>1, <3>2
  <2> QED  BY <2>1 DEF WentNow
<1>9. \A a \in Settling : <<n, a>> \notin WentNow
  BY <1>5, ActionFacts DEF WentNow
<1>10. ListFits(cb'[n]["notify"].list)
  BY <1>3, <1>4, NoListFits
<1>11. \A e \in Made : cb'[e] = cb[e]
  BY <1>2, <1>4
<1> QED
  BY <1>7, <1>8, <1>9, <1>10, <1>11

(* Nothing is known of a deferred that was not made.                       *)
LEMMA UnmadeView ==
  ASSUME DInv, VInv, NEW n \in Deferreds, n \notin Made
  PROVE  /\ ~Over(View, n) /\ n \notin View.checks /\ \A a : ~ToFire(View, n, a)
         /\ \A y \in LinksOf(View, n) : FALSE
         /\ \A b \in View.bodies : b.d # n
         /\ n \notin View.derived
<1>1. Shape(View) /\ View.derived = derived /\ n \notin derived
  BY FitsShape, ViewFields DEF VInv, Made
<1>2. \A a \in Settling : <<n, a>> \notin WentNow
  BY UnmadeLists, ActionFacts DEF WentNow
<1>3. ~Over(View, n)
  BY <1>2, ViewFields DEF Over, Went
<1>4. n \notin View.checks /\ \A a : ~ToFire(View, n, a)
  BY <1>1 DEF Shape, ToFire
<1>5. \A y \in LinksOf(View, n) : FALSE
  BY <1>1 DEF Shape, LinksOf
<1>6. \A b \in View.bodies : b.d # n
  BY <1>1 DEF Shape
<1> QED
  BY <1>1, <1>3, <1>4, <1>5, <1>6

LEMMA MakeDeferredView ==
  ASSUME DInv, VInv, NEW d \in Deferreds, MakeDeferred(d)
  PROVE  VInv'
<1>1. /\ d \notin Made /\ owned' = owned \cup {d}
      /\ cb' = [cb EXCEPT ![d] = NewLists(d)] /\ calls' = calls
      /\ UNCHANGED <<derived, remaining, follows, tied, thrown>>
  BY DEF MakeDeferred, history
<1>2. /\ ListLinks' = ListLinks /\ WentNow' = WentNow
      /\ \A e \in Made : cb'[e] = cb[e]
      /\ ListFits(cb'[d]["notify"].list)
  BY <1>1, NewCell
<1>3. Fits(View')
  <2>1. Parts(Things(calls'), StackLinks(Things(calls)), FiresIn(Things(calls)),
              ChecksIn(Things(calls)), BodiesIn(Things(calls)))
    BY <1>1 DEF Parts
  <2> QED  BY <1>1, <1>2, <2>1, ViewSame DEF VInv
<1>4. NotifyLinks'
  <2>1. \A e \in Made' : e \in Made \/ e = d
    BY <1>1 DEF Made
  <2>2. \A t \in Things(calls') : t \in Things(calls)
    BY <1>1
  <2> QED  BY <1>2, <2>1, <2>2, NotifyKeeps DEF VInv
<1>5. DerivedTypes'
  BY <1>1 DEF VInv, DerivedTypes, Made
<1> QED
  BY <1>3, <1>4, <1>5 DEF VInv

(* What calls that only have to do with lists of notifications add.        *)
LEMMA SilentTodo ==
  ASSUME NEW S, NEW todo \in Seq(S), \A k \in DOMAIN todo : Silent(todo[k]), NEW p
  PROVE  Parts(In(Library(todo), p), {}, {}, {}, {})
<1>1. PICK T : T = In(Library(todo), p)
  OBVIOUS
<1>2. \A t \in T : \E k \in DOMAIN todo : t = <<p, Len(todo) + 1 - k, todo[k]>>
  BY <1>1 DEF In, Library
<1>3. \A t \in T : Silent(t[3]) /\ t[2] # 0
  <2> TAKE t \in T
  <2>1. PICK k \in DOMAIN todo : t = <<p, Len(todo) + 1 - k, todo[k]>>
    BY <1>2
  <2>2. Len(todo) + 1 - k # 0
    OBVIOUS
  <2> QED  BY <2>1, <2>2
<1>4. StackLinks(T) = {}
  <2> SUFFICES ASSUME NEW y \in Links, IsLink(y.x), NEW t \in T,
                      t = <<y.i, y.j, Adds(y.d, y.a, y.x)>>
               PROVE  FALSE
    BY DEF StackLinks
  <2>1. t[3].call = "add" /\ t[3].a = y.a /\ t[3].f = y.x /\ y.a \in Settling
    BY DEF Adds, Links
  <2> QED  BY <1>3, <2>1, ActionFacts DEF Silent
<1>5. FiresIn(T) = {}
  <2> SUFFICES ASSUME NEW d \in Deferreds, NEW a \in Settling, NEW v, NEW q, NEW r,
                      NEW t \in T, t = <<r, q, Fires(d, a, v)>>
               PROVE  FALSE
    BY DEF FiresIn
  <2>1. t[3].call = "fire" /\ t[3].a = a
    BY DEF Fires
  <2> QED  BY <1>3, <2>1, ActionFacts DEF Silent
<1>6. ChecksIn(T) = {}
  <2> SUFFICES ASSUME NEW d \in Deferreds, NEW q, NEW r,
                      NEW t \in T, t = <<r, q, Checks(d)>>
               PROVE  FALSE
    BY DEF ChecksIn
  <2>1. t[3].call = "check"
    BY DEF Checks
  <2> QED  BY <1>3, <2>1 DEF Silent
<1>7. BodiesIn(T) = {}
  <2> SUFFICES ASSUME NEW t \in T, NEW i, NEW b, t = <<i, 0, b>>
               PROVE  FALSE
    BY DEF BodiesIn
  <2> QED  BY <1>3
<1> QED
  BY <1>1, <1>4, <1>5, <1>6, <1>7 DEF Parts

(* What is given to the lists is put on the stack first.                   *)
LEMMA GivesView ==
  ASSUME DInv, VInv, UNCHANGED <<owned, derived, follows, remaining, tied, thrown, cb>>,
         NEW todo \in Seq(Jobs(Made)), todo # <<>>,
         \A k \in DOMAIN todo : todo[k].call = "add" /\ todo[k].f.does = "user",
         NEW x, x = Library(todo), calls' = <<x>> \o calls
  PROVE  VInv'
<1>1. x \in Frames(Made) /\ Stack(Made, calls)
  BY NewFrames DEF DInv
<1>2. \A k \in DOMAIN todo : Silent(todo[k])
  BY DEF Silent, IsLink
<1>3. PICK p : p = Len(calls) + 1
  OBVIOUS
<1>4. Parts(In(x, p), {}, {}, {}, {})
  BY <1>2, SilentTodo
<1>5. Parts(Things(<<x>> \o calls), StackLinks(Things(calls)) \cup {},
            FiresIn(Things(calls)) \cup {}, ChecksIn(Things(calls)) \cup {},
            BodiesIn(Things(calls)) \cup {})
  BY <1>1, <1>3, <1>4, StackPush
<1>6. Parts(Things(calls'), StackLinks(Things(calls)), FiresIn(Things(calls)),
            ChecksIn(Things(calls)), BodiesIn(Things(calls)))
  BY <1>5
<1>7. ListLinks' = ListLinks /\ WentNow' = WentNow
  BY DEF ListLinks, WentNow
<1>8. Fits(View')
  BY <1>6, <1>7, ViewSame DEF VInv
<1>9. NotifyLinks'
  <2>1. Things(calls') = In(x, p) \cup Things(calls)
    BY <1>1, <1>3, PushThings
  <2>2. \A t \in In(x, p) : \E k \in DOMAIN todo : t = <<p, Len(todo) + 1 - k, todo[k]>>
    BY DEF In, Library
  <2>3. \A t \in In(x, p) : ThingFits(t)
    <3> TAKE t \in In(x, p)
    <3>1. PICK k \in DOMAIN todo : t = <<p, Len(todo) + 1 - k, todo[k]>>
      BY <2>2
    <3>2. Len(todo) + 1 - k # 0
      OBVIOUS
    <3>3. t[2] # 0 /\ t[3] = todo[k]
      BY <3>1, <3>2
    <3>4. NotifyLink(todo[k].f)
      BY DEF NotifyLink, IsLink
    <3> QED  BY <3>3, <3>4 DEF ThingFits
  <2>4. \A e \in Made' : e \in Made /\ cb'[e]["notify"].list = cb[e]["notify"].list
    BY DEF Made
  <2>5. NotifyLinks /\ \A t \in Things(calls') : t \in Things(calls) \/ ThingFits(t)
    BY <2>1, <2>3 DEF VInv
  <2> QED  BY <2>4, <2>5, NotifyKeeps
<1>10. DerivedTypes'
  BY DEF VInv, DerivedTypes
<1> QED
  BY <1>8, <1>9, <1>10 DEF VInv

LEMMA AddUserView ==
  ASSUME DInv, VInv, NEW d \in Deferreds, NEW f \in Fn,
         NEW as, as = Settling \/ \E a \in Actions : as = {a},
         AddUser(d, as, f)
  PROVE  VInv'
<1>1. d \in Made /\ UNCHANGED <<owned, derived, follows, remaining, tied, thrown, cb>>
  BY DEF AddUser, lists
<1>2. User(f) \in Others(Made) /\ User(f).does = "user"
  BY ItemKinds DEF User
<1>3. \A a \in Actions : /\ Adds(d, a, User(f)) \in Jobs(Made)
                         /\ Adds(d, a, User(f)).call = "add"
                         /\ Adds(d, a, User(f)).f.does = "user"
  BY <1>1, <1>2, NewJobs DEF Adds
<1>4. CASE as = Settling
  <2> DEFINE s == Adds(d, "resolve", User(f))
             t == Adds(d, "reject", User(f))
             todo == <<s, t>>
  <2>1. calls' = <<Library(todo)>> \o calls
    BY <1>4 DEF AddUser
  <2>2. /\ s \in Jobs(Made) /\ s.call = "add" /\ s.f.does = "user"
        /\ t \in Jobs(Made) /\ t.call = "add" /\ t.f.does = "user"
    BY <1>3 DEF Actions
  <2> HIDE DEF s, t
  <2>3. todo \in Seq(Jobs(Made)) /\ todo # <<>> /\ DOMAIN todo = {1, 2}
        /\ todo[1] = s /\ todo[2] = t
    BY <2>2
  <2> HIDE DEF todo
  <2>4. \A k \in DOMAIN todo : todo[k].call = "add" /\ todo[k].f.does = "user"
    BY <2>2, <2>3
  <2> QED  BY <1>1, <2>1, <2>3, <2>4, GivesView
<1>5. CASE \E a \in Actions : as = {a}
  <2>1. PICK a \in Actions : as = {a}
    BY <1>5
  <2> DEFINE s == Adds(d, a, User(f))
             todo == <<s>>
  <2>2. as # Settling /\ (CHOOSE b \in as : TRUE) = a
    <3>1. "resolve" \in Settling /\ "reject" \in Settling /\ "resolve" # "reject"
      BY DEF Settling
    <3>2. as # Settling
      BY <2>1, <3>1
    <3>3. (CHOOSE b \in as : TRUE) \in as
      BY <2>1
    <3> QED  BY <2>1, <3>2, <3>3
  <2>3. calls' = <<Library(todo)>> \o calls
    BY <2>2 DEF AddUser
  <2>4. s \in Jobs(Made) /\ s.call = "add" /\ s.f.does = "user"
    BY <1>3
  <2> HIDE DEF s
  <2>5. todo \in Seq(Jobs(Made)) /\ todo # <<>> /\ DOMAIN todo = {1} /\ todo[1] = s
    BY <2>4
  <2> HIDE DEF todo
  <2>6. \A k \in DOMAIN todo : todo[k].call = "add" /\ todo[k].f.does = "user"
    BY <2>4, <2>5
  <2> QED  BY <1>1, <2>3, <2>5, <2>6, GivesView
<1> QED
  BY <1>4, <1>5

(* Three calls of a piece of the library, before others.                   *)
LEMMA ThreeThings ==
  ASSUME NEW S, NEW x \in S, NEW y \in S, NEW z \in S, NEW t \in Seq(S), NEW p
  PROVE  In(Library(<<x, y, z>> \o t), p) =
           {<<p, Len(t) + 3, x>>} \cup {<<p, Len(t) + 2, y>>}
             \cup {<<p, Len(t) + 1, z>>} \cup In(Library(t), p)
<1>1. PICK s, n : s = <<x, y, z>> \o t /\ n = Len(t)
  OBVIOUS
<1>2. /\ n \in Nat /\ DOMAIN t = 1 .. n /\ DOMAIN s = 1 .. n + 3 /\ Len(s) = n + 3
      /\ s[1] = x /\ s[2] = y /\ s[3] = z
      /\ \A k \in 1 .. n : s[k + 3] = t[k]
  <2>1. \A q \in Seq(S) : \A r \in Seq(S) :
          /\ Len(q \o r) = Len(q) + Len(r) /\ DOMAIN (q \o r) = 1 .. Len(q) + Len(r)
          /\ \A k \in 1 .. Len(q) : (q \o r)[k] = q[k]
          /\ \A k \in 1 .. Len(r) : (q \o r)[k + Len(q)] = r[k]
    OBVIOUS
  <2>2. PICK q : q = <<x, y, z>>
    OBVIOUS
  <2>3. q \in Seq(S) /\ Len(q) = 3 /\ q[1] = x /\ q[2] = y /\ q[3] = z
    BY <2>2
  <2>4. n \in Nat /\ DOMAIN t = 1 .. n
    BY <1>1
  <2> QED  BY <1>1, <2>1, <2>2, <2>3, <2>4
<1>3. In(Library(s), p) = {<<p, Len(s) + 1 - k, s[k]>> : k \in DOMAIN s}
  BY DEF In, Library
<1>4. In(Library(t), p) = {<<p, Len(t) + 1 - k, t[k]>> : k \in DOMAIN t}
  BY DEF In, Library
<1>5. ASSUME NEW v \in In(Library(s), p)
      PROVE  \/ v = <<p, n + 3, x>> \/ v = <<p, n + 2, y>> \/ v = <<p, n + 1, z>>
             \/ v \in In(Library(t), p)
  <2>1. PICK k \in 1 .. n + 3 : v = <<p, n + 4 - k, s[k]>>
    BY <1>2, <1>3
  <2>2. CASE k = 1
    BY <1>2, <2>1, <2>2
  <2>3. CASE k = 2
    BY <1>2, <2>1, <2>3
  <2>4. CASE k = 3
    BY <1>2, <2>1, <2>4
  <2>5. CASE k > 3
    <3>1. k - 3 \in 1 .. n /\ n + 1 - (k - 3) = n + 4 - k /\ (k - 3) + 3 = k
      BY <1>2, <2>5
    <3>2. v = <<p, n + 1 - (k - 3), t[k - 3]>>
      BY <1>2, <2>1, <3>1
    <3> QED  BY <1>1, <1>2, <1>4, <3>1, <3>2
  <2>6. k = 1 \/ k = 2 \/ k = 3 \/ k > 3
    BY <1>2
  <2> QED  BY <2>2, <2>3, <2>4, <2>5, <2>6
<1>6. /\ <<p, n + 3, x>> \in In(Library(s), p) /\ <<p, n + 2, y>> \in In(Library(s), p)
      /\ <<p, n + 1, z>> \in In(Library(s), p)
  <2>1. /\ 1 \in 1 .. n + 3 /\ 2 \in 1 .. n + 3 /\ 3 \in 1 .. n + 3
        /\ n + 3 + 1 - 1 = n + 3 /\ n + 3 + 1 - 2 = n + 2 /\ n + 3 + 1 - 3 = n + 1
    BY <1>2
  <2> QED  BY <1>2, <1>3, <2>1
<1>7. ASSUME NEW v \in In(Library(t), p)
      PROVE  v \in In(Library(s), p)
  <2>1. PICK k \in 1 .. n : v = <<p, n + 1 - k, t[k]>>
    BY <1>1, <1>2, <1>4
  <2>2. k + 3 \in 1 .. n + 3 /\ n + 3 + 1 - (k + 3) = n + 1 - k
    BY <1>2
  <2> QED  BY <1>2, <1>3, <2>1, <2>2
<1> QED
  BY <1>1, <1>5, <1>6, <1>7

(* The links that three calls of then(), when() or a filter will make, one *)
(* each way; the third is for the progress.                                *)
PairCalls(M, d, u, v, w, t, s) ==
  /\ M \subseteq Deferreds /\ d \in M
  /\ u \in Others(M) /\ v \in Others(M) /\ w \in Others(M)
  /\ IsLink(u) /\ IsLink(v) /\ t \in Seq(Jobs(M))
  /\ s = <<Adds(d, "resolve", u), Adds(d, "reject", v), Adds(d, "notify", w)>> \o t
PairLinks(y, z, d, u, v, j) ==
  /\ y.d = d /\ y.a = "resolve" /\ y.x = u /\ y.j = j
  /\ z.d = d /\ z.a = "reject" /\ z.x = v
PairMore(T, y, z, K, C) == Parts(T, {y, z} \cup K, {}, C, {})

LEMMA PairParts ==
  ASSUME NEW M, NEW d, NEW u, NEW v, NEW w, NEW t, NEW s, NEW p \in Nat,
         PairCalls(M, d, u, v, w, t, s),
         NEW K, NEW C, Parts(In(Library(t), p), K, {}, C, {})
  PROVE  \E y, z \in Links : /\ PairLinks(y, z, d, u, v, Len(t) + 3)
                             /\ PairMore(In(Library(s), p), y, z, K, C)
<1>0. /\ M \subseteq Deferreds /\ d \in M
      /\ u \in Others(M) /\ v \in Others(M) /\ w \in Others(M)
      /\ IsLink(u) /\ IsLink(v) /\ t \in Seq(Jobs(M))
      /\ s = <<Adds(d, "resolve", u), Adds(d, "reject", v), Adds(d, "notify", w)>> \o t
  BY DEF PairCalls
<1>1. PICK n : n = Len(t)
  OBVIOUS
<1>2. n \in Nat /\ d \in Deferreds
  BY <1>0, <1>1
<1>3. /\ u \in Others(Deferreds) /\ v \in Others(Deferreds)
      /\ "resolve" \in Settling /\ "reject" \in Settling
  BY <1>0, ItemsGrow DEF Settling
<1>4. PICK y, z :
        /\ y = [at |-> "stack", d |-> d, a |-> "resolve", i |-> p, j |-> n + 3, x |-> u]
        /\ z = [at |-> "stack", d |-> d, a |-> "reject", i |-> p, j |-> n + 2, x |-> v]
  OBVIOUS
<1>5. /\ y \in Links /\ y.at = "stack" /\ y.i = p /\ y.j = n + 3 /\ y.j # 0 /\ y.x = u
      /\ y.d = d /\ y.a = "resolve"
  BY <1>2, <1>3, <1>4 DEF Links
<1>6. /\ z \in Links /\ z.at = "stack" /\ z.i = p /\ z.j = n + 2 /\ z.j # 0 /\ z.x = v
      /\ z.d = d /\ z.a = "reject"
  BY <1>2, <1>3, <1>4 DEF Links
<1>7. PICK X, Y, Z :
        /\ X = {<<p, n + 3, Adds(d, "resolve", u)>>}
        /\ Y = {<<p, n + 2, Adds(d, "reject", v)>>}
        /\ Z = {<<p, n + 1, Adds(d, "notify", w)>>}
  OBVIOUS
<1>8. Parts(X, {y}, {}, {}, {})
  <2>1. Parts({<<y.i, y.j, Adds(y.d, y.a, y.x)>>}, {y}, {}, {}, {})
    BY <1>0, <1>5, LinkThing
  <2> QED  BY <1>5, <1>7, <2>1
<1>9. Parts(Y, {z}, {}, {}, {})
  <2>1. Parts({<<z.i, z.j, Adds(z.d, z.a, z.x)>>}, {z}, {}, {}, {})
    BY <1>0, <1>6, LinkThing
  <2> QED  BY <1>6, <1>7, <2>1
<1>10. Parts(Z, {}, {}, {}, {})
  <2>1. Silent(Adds(d, "notify", w))
    BY DEF Silent, Adds
  <2>2. n + 1 # 0
    BY <1>2
  <2>3. Parts({<<p, n + 1, Adds(d, "notify", w)>>}, {}, {}, {}, {})
    BY <2>1, <2>2, SilentThing
  <2> QED  BY <1>7, <2>3
<1>11. In(Library(s), p) = X \cup Y \cup Z \cup In(Library(t), p)
  <2>1. /\ Adds(d, "resolve", u) \in Jobs(M) /\ Adds(d, "reject", v) \in Jobs(M)
        /\ Adds(d, "notify", w) \in Jobs(M)
    BY <1>0, NewJobs DEF Actions
  <2>2. In(Library(s), p) =
           {<<p, Len(t) + 3, Adds(d, "resolve", u)>>}
             \cup {<<p, Len(t) + 2, Adds(d, "reject", v)>>}
             \cup {<<p, Len(t) + 1, Adds(d, "notify", w)>>} \cup In(Library(t), p)
    BY <1>0, <2>1, ThreeThings
  <2> QED  BY <1>1, <1>7, <2>2
<1>12. PICK T, U : T = In(Library(t), p) /\ U = In(Library(s), p)
  OBVIOUS
<1>13. /\ StackLinks(U) = {y, z} \cup K /\ FiresIn(U) = {}
       /\ ChecksIn(U) = C /\ BodiesIn(U) = {}
  <2>1. U = ((X \cup Y) \cup Z) \cup T
    BY <1>11, <1>12
  <2>2. Parts(X \cup Y, {y} \cup {z}, {}, {}, {})
    <3>1. Parts(X \cup Y, StackLinks(X) \cup StackLinks(Y),
                FiresIn(X) \cup FiresIn(Y), ChecksIn(X) \cup ChecksIn(Y),
                BodiesIn(X) \cup BodiesIn(Y))
      BY PartsUnion
    <3> QED  BY <1>8, <1>9, <3>1 DEF Parts
  <2>3. Parts((X \cup Y) \cup Z, {y} \cup {z}, {}, {}, {})
    <3>1. Parts((X \cup Y) \cup Z, StackLinks(X \cup Y) \cup StackLinks(Z),
                FiresIn(X \cup Y) \cup FiresIn(Z), ChecksIn(X \cup Y) \cup ChecksIn(Z),
                BodiesIn(X \cup Y) \cup BodiesIn(Z))
      BY PartsUnion
    <3> QED  BY <1>10, <2>2, <3>1 DEF Parts
  <2>4. PICK V : V = (X \cup Y) \cup Z
    OBVIOUS
  <2>5. Parts(V, {y} \cup {z}, {}, {}, {})
    BY <2>3, <2>4
  <2>6. Parts(V \cup T, StackLinks(V) \cup StackLinks(T),
              FiresIn(V) \cup FiresIn(T), ChecksIn(V) \cup ChecksIn(T),
              BodiesIn(V) \cup BodiesIn(T))
    BY PartsUnion
  <2>7. U = V \cup T
    BY <2>1, <2>4
  <2> QED  BY <1>12, <2>5, <2>6, <2>7 DEF Parts
<1>14. PairMore(In(Library(s), p), y, z, K, C)
  BY <1>12, <1>13 DEF Parts, PairMore
<1>15. PairLinks(y, z, d, u, v, Len(t) + 3)
  BY <1>1, <1>5, <1>6 DEF PairLinks
<1> QED
  BY <1>5, <1>6, <1>14, <1>15

(* The stack when a piece of the library of a new deferred is put on it.   *)
LEMMA PushNew ==
  ASSUME DInv, NEW N, Made \subseteq N, NEW f \in Frames(N), calls' = <<f>> \o calls,
         NEW K, NEW F, NEW C, NEW B, Parts(In(f, Len(calls) + 1), K, F, C, B)
  PROVE  /\ Pushed(K, F, C, B)
         /\ Things(calls') = In(f, Len(calls) + 1) \cup Things(calls)
<1>1. Stack(Made, calls)
  BY DEF DInv
<1>2. Parts(Things(<<f>> \o calls), StackLinks(Things(calls)) \cup K,
            FiresIn(Things(calls)) \cup F, ChecksIn(Things(calls)) \cup C,
            BodiesIn(Things(calls)) \cup B)
  BY <1>1, StackPush
<1>3. Things(<<f>> \o calls) = In(f, Len(calls) + 1) \cup Things(calls)
  BY <1>1, PushThings
<1>4. Parts(Things(calls'), StackLinks(Things(calls)) \cup K,
            FiresIn(Things(calls)) \cup F, ChecksIn(Things(calls)) \cup C,
            BodiesIn(Things(calls)) \cup B)
  BY <1>2
<1>5. View'.links = ListLinks' \cup StackLinks(Things(calls)) \cup K
  BY <1>4, NextViewFields DEF Parts
<1>6. /\ View'.fires = View.fires \cup F /\ View'.checks = View.checks \cup C
      /\ View'.bodies = View.bodies \cup B
  BY <1>4, ViewFields, NextViewFields DEF Parts
<1> QED
  BY <1>3, <1>5, <1>6 DEF Pushed

(* What is to be called for the progress fits when the new calls do.       *)
LEMMA TodoThings ==
  ASSUME NEW S, NEW todo \in Seq(S), NEW p,
         \A k \in DOMAIN todo :
           todo[k].call = "add" /\ todo[k].a = "notify" => NotifyLink(todo[k].f)
  PROVE  \A t \in In(Library(todo), p) : ThingFits(t)
<1>1. \A t \in In(Library(todo), p) :
        \E k \in DOMAIN todo : t = <<p, Len(todo) + 1 - k, todo[k]>>
  BY DEF In, Library
<1> TAKE t \in In(Library(todo), p)
<1>2. PICK k \in DOMAIN todo : t = <<p, Len(todo) + 1 - k, todo[k]>>
  BY <1>1
<1>3. Len(todo) + 1 - k # 0
  OBVIOUS
<1>4. t[2] # 0 /\ t[3] = todo[k]
  BY <1>2, <1>3
<1> QED
  BY <1>4 DEF ThingFits

(* What then() and when() make of it: a deferred that goes by others, as   *)
(* soon as what is put on the stack is done.                               *)
DerivesBy(n, x, S, K, C) ==
  /\ n \in Deferreds /\ n \notin Made
  /\ owned' = owned /\ derived' = derived \cup {n} /\ thrown' = thrown
  /\ tied' = tied /\ cb' = [cb EXCEPT ![n] = NewLists(n)]
  /\ x \in Frames(Made \cup {n}) /\ calls' = <<x>> \o calls
  /\ S # {} /\ S \subseteq Deferreds /\ follows' = [follows EXCEPT ![n] = S]
  /\ remaining' \in [Deferreds -> 0 .. 2]
  /\ \A k \in Deferreds : k # n => remaining'[k] = remaining[k]
  /\ C \in {{}, {n}} /\ Parts(In(x, Len(calls) + 1), K, {}, C, {})
  /\ \A z \in K : /\ z.x.d = n /\ IsLink(z.x)
                  /\ IF Counts(z.x) THEN z.a = "resolve" ELSE z.x.a = z.a
  /\ \A t \in In(x, Len(calls) + 1) : ThingFits(t)

LEMMA Derives ==
  ASSUME DInv, VInv, NEW n, NEW x, NEW S, NEW K, NEW C, DerivesBy(n, x, S, K, C)
  PROVE  /\ GoesBy(View, View', n, K)
         /\ NotifyLinks' /\ DerivedTypes'
         /\ View'.follows[n] = S /\ View'.remaining[n] = remaining'[n]
         /\ View'.checks = View.checks \cup C /\ View'.tied = View.tied
<1>0. /\ n \in Deferreds /\ n \notin Made
      /\ owned' = owned /\ derived' = derived \cup {n} /\ thrown' = thrown
      /\ tied' = tied /\ cb' = [cb EXCEPT ![n] = NewLists(n)]
      /\ x \in Frames(Made \cup {n}) /\ calls' = <<x>> \o calls
      /\ S # {} /\ S \subseteq Deferreds /\ follows' = [follows EXCEPT ![n] = S]
      /\ remaining' \in [Deferreds -> 0 .. 2]
      /\ \A k \in Deferreds : k # n => remaining'[k] = remaining[k]
      /\ C \in {{}, {n}} /\ Parts(In(x, Len(calls) + 1), K, {}, C, {})
      /\ \A z \in K : /\ z.x.d = n /\ IsLink(z.x)
                      /\ IF Counts(z.x) THEN z.a = "resolve" ELSE z.x.a = z.a
      /\ \A t \in In(x, Len(calls) + 1) : ThingFits(t)
  BY DEF DerivesBy
<1>1. /\ Pushed(K, {}, C, {})
      /\ Things(calls') = In(x, Len(calls) + 1) \cup Things(calls)
  <2>1. Made \subseteq Made \cup {n}
    OBVIOUS
  <2> QED  BY <1>0, <2>1, PushNew
<1>2. /\ ListLinks' = ListLinks /\ WentNow' = WentNow
      /\ \A e \in Made : cb'[e] = cb[e]
      /\ ListFits(cb'[n]["notify"].list)
  BY <1>0, NewCell
<1>3. DerivedTypes
  BY DEF VInv
<1>4. /\ View'.links = View.links \cup K /\ View'.fires = View.fires
      /\ View'.checks = View.checks \cup C /\ View'.bodies = View.bodies
  BY <1>1, <1>2, ViewFields DEF Pushed
<1>5. /\ View'.went = View.went /\ View'.follows = follows'
      /\ View'.remaining = remaining' /\ View'.derived = View.derived \cup {n}
      /\ View'.thrown = View.thrown
  BY <1>0, <1>2, ViewFields, NextViewFields
<1>6. /\ follows'[n] = S
      /\ \A k \in Deferreds : k # n => follows'[k] = follows[k]
      /\ follows' \in [Deferreds -> SUBSET Deferreds]
  BY <1>0, <1>3 DEF DerivedTypes
<1>7. K \subseteq Links
  BY <1>0 DEF Parts, StackLinks
<1>8. GoesBy(View, View', n, K)
  <2>1. /\ ~Over(View, n) /\ n \notin View.checks /\ \A a : ~ToFire(View, n, a)
        /\ \A y \in LinksOf(View, n) : FALSE
        /\ \A b \in View.bodies : b.d # n
    BY <1>0, UnmadeView
  <2>2. View'.checks \in {View.checks, View.checks \cup {n}}
    BY <1>0, <1>4
  <2>3. \A b \in View.bodies : b \in View'.bodies <=> b.d # n
    BY <1>4, <2>1
  <2>4. \A k \in Deferreds : k # n => /\ View'.follows[k] = View.follows[k]
                                      /\ View'.remaining[k] = View.remaining[k]
    BY <1>0, <1>5, <1>6, ViewFields
  <2>5. View'.follows[n] # {} /\ View'.follows[n] \subseteq Deferreds
    BY <1>0, <1>5, <1>6
  <2>6. \A z \in K : /\ z.x.d = n /\ IsLink(z.x)
                     /\ IF Counts(z.x) THEN z.a = "resolve" ELSE z.x.a = z.a
    BY <1>0
  <2>7. View'.bodies \subseteq View.bodies
    BY <1>4
  <2> QED  BY <1>0, <1>4, <1>5, <1>7, <2>1, <2>2, <2>3, <2>4, <2>5, <2>6, <2>7 DEF GoesBy
<1>9. NotifyLinks'
  <2>1. \A e \in Made' : e \in Made \/ e = n
    BY <1>0 DEF Made
  <2>2. \A t \in Things(calls') : t \in Things(calls) \/ ThingFits(t)
    BY <1>0, <1>1
  <2> QED  BY <1>2, <2>1, <2>2, NotifyKeeps DEF VInv
<1>10. DerivedTypes'
  <2>1. owned' \cap derived' = {}
    BY <1>0, <1>3 DEF DerivedTypes, Made
  <2>2. \A k \in Deferreds \ derived' : remaining'[k] = 0
    BY <1>0, <1>3 DEF DerivedTypes
  <2>3. tied' \subseteq derived'
    BY <1>0, <1>3 DEF DerivedTypes
  <2> QED  BY <1>0, <1>6, <2>1, <2>2, <2>3 DEF DerivedTypes
<1>11. View'.follows[n] = S /\ View'.remaining[n] = remaining'[n]
  BY <1>5, <1>6
<1>12. View'.tied = View.tied
  BY <1>0, ViewFields, NextViewFields
<1> QED
  BY <1>4, <1>8, <1>9, <1>10, <1>11, <1>12

LEMMA ThenView ==
  ASSUME DInv, VInv, NEW d \in Deferreds, NEW n \in Deferreds, NEW a \in Actions,
         NEW f \in Fn \cup {Off}, Then(d, n, a, f)
  PROVE  VInv'
<1> DEFINE item(b) == Filter(n, b, IF a = b THEN f ELSE Off)
           todo == <<Adds(d, "resolve", item("resolve")),
                     Adds(d, "reject", item("reject")),
                     Adds(d, "notify", item("notify"))>>
           N == Made \cup {n}
<1>1. /\ d \in Made /\ n \notin Made
      /\ owned' = owned /\ derived' = derived \cup {n} /\ thrown' = thrown
      /\ cb' = [cb EXCEPT ![n] = NewLists(n)]
      /\ calls' = <<Library(todo)>> \o calls
      /\ follows' = [follows EXCEPT ![n] = {d}] /\ remaining' = remaining
      /\ tied' = tied
  BY DEF Then
<1>2. N \subseteq Deferreds /\ d \in N
  BY <1>1 DEF DInv, Types, Made
<1>3. \A b \in Actions : /\ item(b) \in Others(N) /\ IsLink(item(b))
                         /\ item(b).does = "filter" /\ item(b).d = n /\ item(b).a = b
                         /\ item(b).f \in {f, Off} /\ (b # a => item(b).f = Off)
  <2> TAKE b \in Actions
  <2>1. (IF a = b THEN f ELSE Off) \in Fn \cup {Off} /\ n \in N
    OBVIOUS
  <2>2. \A g \in Fn \cup {Off} : Filter(n, b, g) \in Others(N)
    BY <2>1, ItemKinds
  <2> QED  BY <2>1, <2>2 DEF Filter, IsLink
<1> HIDE DEF item
<1>4. "resolve" \in Actions /\ "reject" \in Actions /\ "notify" \in Actions
  BY DEF Actions
<1>5. PICK u, v, w : u = item("resolve") /\ v = item("reject") /\ w = item("notify")
  OBVIOUS
<1>6. /\ u \in Others(N) /\ IsLink(u) /\ u.does = "filter" /\ u.d = n /\ u.a = "resolve"
      /\ v \in Others(N) /\ IsLink(v) /\ v.does = "filter" /\ v.d = n /\ v.a = "reject"
      /\ w \in Others(N) /\ NotifyLink(w)
  <2>1. w \in Others(N) /\ w.does = "filter" /\ w.a = "notify"
    BY <1>3, <1>4, <1>5
  <2>2. NotifyLink(w)
    BY <2>1 DEF NotifyLink, Counts
  <2> QED  BY <1>3, <1>4, <1>5, <2>1, <2>2
<1>7. /\ Adds(d, "resolve", u) \in Jobs(N) /\ Adds(d, "reject", v) \in Jobs(N)
      /\ Adds(d, "notify", w) \in Jobs(N)
  BY <1>2, <1>4, <1>6, NewJobs
<1>8. PICK s : s = <<Adds(d, "resolve", u), Adds(d, "reject", v), Adds(d, "notify", w)>>
  OBVIOUS
<1>9. s \in Seq(Jobs(N)) /\ s # <<>> /\ DOMAIN s = {1, 2, 3} /\ calls' = <<Library(s)>> \o calls
  BY <1>1, <1>5, <1>7, <1>8
<1>10. PICK p : p = Len(calls) + 1
  OBVIOUS
<1>11. p \in Nat
  BY <1>10 DEF DInv, Stack
<1>12. PICK y \in Links, z \in Links :
         /\ y.d = d /\ y.a = "resolve" /\ y.x = u
         /\ z.d = d /\ z.a = "reject" /\ z.x = v
         /\ Parts(In(Library(s), p), {y, z}, {}, {}, {})
  <2>1. PICK t : t = <<>>
    OBVIOUS
  <2>2. PICK Z : Z = {}
    OBVIOUS
  <2>3. t \in Seq(Jobs(N)) /\ \A k \in DOMAIN t : Silent(t[k])
    BY <2>1
  <2>4. Parts(In(Library(t), p), {}, {}, {}, {})
    BY <2>3, SilentTodo
  <2>5. Parts(In(Library(t), p), Z, {}, Z, {})
    BY <2>2, <2>4
  <2>6. s = <<Adds(d, "resolve", u), Adds(d, "reject", v), Adds(d, "notify", w)>> \o t
    BY <1>7, <1>8, <2>1
  <2> HIDE DEF N
  <2>7. PairCalls(N, d, u, v, w, t, s)
    BY <1>2, <1>6, <2>3, <2>6 DEF PairCalls
  <2>8. PICK y, z \in Links : /\ PairLinks(y, z, d, u, v, Len(t) + 3)
                             /\ PairMore(In(Library(s), p), y, z, Z, Z)
    BY <1>11, <2>5, <2>7, PairParts
  <2> QED  BY <2>2, <2>8 DEF PairLinks, PairMore
<1>13. \A t \in In(Library(s), p) : ThingFits(t)
  <2>1. /\ s[1].a = "resolve" /\ s[2].a = "reject" /\ s[3].f = w
    BY <1>8 DEF Adds
  <2>2. \A k \in DOMAIN s : s[k].call = "add" /\ s[k].a = "notify" => NotifyLink(s[k].f)
    BY <1>6, <1>9, <2>1
  <2> QED  BY <1>9, <2>2, TodoThings
<1>14. /\ \A q \in {y, z} : /\ q.x.d = n /\ IsLink(q.x) /\ ~Counts(q.x)
                            /\ q.x.a = q.a
  BY <1>6, <1>12 DEF Counts
<1>15. /\ GoesBy(View, View', n, {y, z}) /\ NotifyLinks' /\ DerivedTypes'
       /\ View'.follows[n] = {d} /\ View'.remaining[n] = remaining'[n]
       /\ View'.checks = View.checks \cup {} /\ View'.tied = View.tied
  <2>1. Library(s) \in Frames(N)
    BY <1>9, NewFrames
  <2>2. PICK x : x = Library(s)
    OBVIOUS
  <2>3. remaining' \in [Deferreds -> 0 .. 2] /\ \A k \in Deferreds : k # n => remaining'[k] = remaining[k]
    BY <1>1 DEF VInv, DerivedTypes
  <2>4. x \in Frames(Made \cup {n}) /\ calls' = <<x>> \o calls
    BY <1>9, <2>1, <2>2
  <2>5. Parts(In(x, Len(calls) + 1), {y, z}, {}, {}, {})
    BY <1>10, <1>12, <2>2
  <2>6. \A t \in In(x, Len(calls) + 1) : ThingFits(t)
    BY <1>10, <1>13, <2>2
  <2>7. \A q \in {y, z} : /\ q.x.d = n /\ IsLink(q.x)
                          /\ IF Counts(q.x) THEN q.a = "resolve" ELSE q.x.a = q.a
    BY <1>14
  <2>8. PICK S, C, K : S = {d} /\ C = {} /\ K = {y, z}
    OBVIOUS
  <2>9. /\ S # {} /\ S \subseteq Deferreds /\ follows' = [follows EXCEPT ![n] = S]
        /\ C \in {{}, {n}} /\ Parts(In(x, Len(calls) + 1), K, {}, C, {})
    BY <1>1, <2>5, <2>8
  <2>10. \A q \in K : /\ q.x.d = n /\ IsLink(q.x)
                      /\ IF Counts(q.x) THEN q.a = "resolve" ELSE q.x.a = q.a
    BY <2>7, <2>8
  <2>11. DerivesBy(n, x, S, K, C)
    BY <1>1, <2>3, <2>4, <2>6, <2>9, <2>10 DEF DerivesBy
  <2>12. /\ GoesBy(View, View', n, K) /\ NotifyLinks' /\ DerivedTypes'
         /\ View'.follows[n] = S /\ View'.remaining[n] = remaining'[n]
         /\ View'.checks = View.checks \cup C /\ View'.tied = View.tied
    BY <2>11, Derives
  <2> QED  BY <2>8, <2>12
<1>16. remaining'[n] = 0
  BY <1>1 DEF VInv, DerivedTypes, Made
<1>17. Fits(View')
  <2>1. Fits(View) /\ View'.remaining[n] = 0 /\ View'.checks = View.checks
    BY <1>15, <1>16 DEF VInv
  <2>2. ~Counts(y.x) /\ ~Counts(z.x)
    BY <1>14
  <2> QED  BY <1>12, <1>15, <2>1, <2>2, OneTurns
<1> QED
  BY <1>15, <1>17 DEF VInv

(* when(): the links that count, as many as are counted down from, and     *)
(* those that reject.                                                      *)
CountsBy(n, y, z, d) ==
  /\ y \in Links /\ Counts(y.x) /\ y.a = "resolve" /\ y.d = d /\ y.x.d = n
  /\ IsLink(y.x) /\ IsLink(z.x)
  /\ z \in Links /\ ~Counts(z.x) /\ ~Filters(z.x) /\ z.a = "reject" /\ z.d = d
  /\ z.x.d = n /\ z.x.a = "reject"

LEMMA WhenMakes ==
  ASSUME DInv, VInv, NEW n, NEW x, NEW S, NEW K, NEW T, T = {n},
         DerivesBy(n, x, S, K, T),
         NEW C, NEW R, K = C \cup R, Size(C, remaining'[n]),
         \A y \in C : \E z \in R, d \in S : CountsBy(n, y, z, d),
         \A z \in R : \E y \in C, d \in S : CountsBy(n, y, z, d),
         \A d \in S : \E y \in C, z \in R : CountsBy(n, y, z, d)
  PROVE  VInv'
<1>1. /\ GoesBy(View, View', n, K) /\ NotifyLinks' /\ DerivedTypes'
      /\ View'.follows[n] = S /\ View'.remaining[n] = remaining'[n]
      /\ View'.checks = View.checks \cup T /\ View'.tied = View.tied
  BY Derives
<1>2. remaining'[n] \in 0 .. 2
  BY DEF DerivesBy
<1>3. Fits(View')
  <2>1. Fits(View) /\ GoesBy(View, View', n, C \cup R)
    BY <1>1 DEF VInv
  <2>2. /\ View'.remaining[n] \in 0 .. 2 /\ Size(C, View'.remaining[n])
        /\ View'.checks = View.checks \cup {n} /\ View'.tied = View.tied
    BY <1>1, <1>2
  <2>3. \A z \in C : Counts(z.x) /\ z.a = "resolve" /\ z.d \in View'.follows[n]
    <3> TAKE y \in C
    <3>1. PICK z \in R, d \in S : CountsBy(n, y, z, d)
      OBVIOUS
    <3> QED  BY <1>1, <3>1 DEF CountsBy
  <2>4. \A z \in R : /\ ~Counts(z.x) /\ ~Filters(z.x)
                     /\ z.a = "reject" /\ z.d \in View'.follows[n]
    BY <1>1 DEF CountsBy
  <2>5. \A d \in View'.follows[n] : /\ \E z \in C : z.d = d
                                    /\ \E z \in R : z.d = d
    BY <1>1 DEF CountsBy
  <2> QED  BY <2>1, <2>2, <2>3, <2>4, <2>5, AllTurn
<1> QED
  BY <1>1, <1>3 DEF VInv

LEMMA ConcatGroups ==
  ASSUME NEW S, NEW p \in Seq(S), NEW q \in Seq(S), NEW r \in Seq(S)
  PROVE  (p \o q) \o r = p \o (q \o r) /\ p \o <<>> = p
OBVIOUS

(* One of the deferreds that when() waits for.                             *)
Three(n, d) ==
  <<Adds(d, "resolve", Count(n)), Adds(d, "reject", Forward(n, "reject")),
    Adds(d, "notify", Forward(n, "notify"))>>

FirstThree(s, n, d, t) == s = Three(n, d) \o t

LEMMA CountParts ==
  ASSUME NEW M, M \subseteq Deferreds, NEW n \in M, NEW d \in M,
         NEW t \in Seq(Jobs(M)), NEW s, FirstThree(s, n, d, t), NEW p \in Nat,
         NEW K, NEW C, Parts(In(Library(t), p), K, {}, C, {})
  PROVE  \E y, z \in Links : /\ CountsBy(n, y, z, d) /\ y.j = Len(t) + 3
                             /\ PairMore(In(Library(s), p), y, z, K, C)
<1>1. PICK u, v, w : u = Count(n) /\ v = Forward(n, "reject") /\ w = Forward(n, "notify")
  OBVIOUS
<1>2. u \in Others(M) /\ v \in Others(M) /\ w \in Others(M)
  BY <1>1, ItemKinds DEF Actions
<1>3. /\ IsLink(u) /\ IsLink(v) /\ Counts(u) /\ ~Counts(v) /\ ~Filters(v)
      /\ u.d = n /\ v.d = n /\ v.a = "reject"
  BY <1>1 DEF IsLink, Counts, Filters, Count, Forward
<1>4. PairCalls(M, d, u, v, w, t, s)
  BY <1>1, <1>2, <1>3 DEF PairCalls, Three, FirstThree
<1>5. PICK y, z \in Links : /\ PairLinks(y, z, d, u, v, Len(t) + 3)
                            /\ PairMore(In(Library(s), p), y, z, K, C)
  BY <1>4, PairParts
<1>6. CountsBy(n, y, z, d) /\ y.j = Len(t) + 3
  BY <1>3, <1>5 DEF PairLinks, CountsBy
<1> QED
  BY <1>5, <1>6

LEMMA ThreeJobs ==
  ASSUME NEW M, NEW n \in M, NEW d \in M
  PROVE  /\ Three(n, d) \in Seq(Jobs(M)) /\ Len(Three(n, d)) = 3
         /\ \A k \in DOMAIN Three(n, d) :
              Three(n, d)[k].call = "add" /\ Three(n, d)[k].a = "notify" =>
                NotifyLink(Three(n, d)[k].f)
<1>1. /\ Adds(d, "resolve", Count(n)) \in Jobs(M)
      /\ Adds(d, "reject", Forward(n, "reject")) \in Jobs(M)
      /\ Adds(d, "notify", Forward(n, "notify")) \in Jobs(M)
  BY ItemKinds, NewJobs DEF Actions
<1>2. PICK x, y, z : /\ x = Adds(d, "resolve", Count(n))
                     /\ y = Adds(d, "reject", Forward(n, "reject"))
                     /\ z = Adds(d, "notify", Forward(n, "notify"))
  OBVIOUS
<1>3. PICK s : s = <<x, y, z>>
  OBVIOUS
<1>4. Three(n, d) = s /\ x \in Jobs(M) /\ y \in Jobs(M) /\ z \in Jobs(M)
  BY <1>1, <1>2, <1>3 DEF Three
<1>5. s \in Seq(Jobs(M)) /\ Len(s) = 3 /\ DOMAIN s = {1, 2, 3} /\ s[1] = x /\ s[2] = y /\ s[3] = z
  BY <1>3, <1>4
<1>6. x.a = "resolve" /\ y.a = "reject" /\ NotifyLink(z.f)
  BY <1>2 DEF Adds, Forward, NotifyLink, Counts
<1> QED
  BY <1>4, <1>5, <1>6

(* One more element than the calls before the check.                       *)
LEMMA CheckParts ==
  ASSUME NEW n \in Deferreds, NEW M, n \in M, NEW t, t = <<Checks(n)>>, NEW p
  PROVE  /\ t \in Seq(Jobs(M)) /\ Len(t) = 1
         /\ \A k \in DOMAIN t : t[k].call # "add"
         /\ Parts(In(Library(t), p), {}, {}, {n}, {})
<1>1. Checks(n) \in Jobs(M)
  BY NewJobs
<1>2. In(Library(<<Checks(n)>>), p) = {<<p, 1, Checks(n)>>}
  BY <1>1, OneCall
<1>3. 1 # 0
  OBVIOUS
<1>4. Parts({<<p, 1, Checks(n)>>}, {}, {}, {n}, {})
  BY <1>3, CheckThing
<1>5. Parts(In(Library(t), p), {}, {}, {n}, {})
  BY <1>2, <1>4
<1>6. PICK c : c = Checks(n)
  OBVIOUS
<1>7. c.call # "add" /\ c \in Jobs(M)
  BY <1>1, <1>6 DEF Checks
<1>8. t = <<c>>
  BY <1>6
<1>9. t \in Seq(Jobs(M)) /\ Len(t) = 1 /\ \A k \in DOMAIN t : t[k].call # "add"
  BY <1>7, <1>8
<1> QED
  BY <1>5, <1>9

(* The calls that have to do with the lists of notifications, in parts.    *)
Notifies(todo) ==
  \A k \in DOMAIN todo :
    todo[k].call = "add" /\ todo[k].a = "notify" => NotifyLink(todo[k].f)

LEMMA NotifiesJoin ==
  ASSUME NEW S, NEW s \in Seq(S), NEW t \in Seq(S), Notifies(s), Notifies(t)
  PROVE  Notifies(s \o t) /\ s \o t \in Seq(S) /\ Len(s \o t) = Len(s) + Len(t)
<1>1. s \o t \in Seq(S) /\ Len(s \o t) = Len(s) + Len(t)
  OBVIOUS
<1>2. Notifies(s \o t)
  <2> SUFFICES ASSUME NEW k \in DOMAIN (s \o t), (s \o t)[k].call = "add",
                      (s \o t)[k].a = "notify"
               PROVE  NotifyLink((s \o t)[k].f)
    BY DEF Notifies
  <2>1. CASE k \in DOMAIN s
    <3>1. (s \o t)[k] = s[k]
      BY <2>1
    <3> QED  BY <2>1, <3>1 DEF Notifies
  <2>2. CASE k \notin DOMAIN s
    <3>1. k - Len(s) \in DOMAIN t /\ (s \o t)[k] = t[k - Len(s)]
      BY <2>2
    <3> QED  BY <3>1 DEF Notifies
  <2> QED  BY <2>1, <2>2
<1> QED
  BY <1>1, <1>2

LEMMA WhenView ==
  ASSUME DInv, VInv, NEW d \in Deferreds, NEW n \in Deferreds,
         NEW e \in Deferreds \cup {Off}, When(d, e, n)
  PROVE  VInv'
<1> DEFINE N == Made \cup {n}
           both == Three(n, d) \o (IF e = Off THEN <<>> ELSE Three(n, e))
<1>1. /\ d \in Made /\ e \in Made \cup {Off} /\ n \notin Made
      /\ owned' = owned /\ derived' = derived \cup {n} /\ thrown' = thrown
      /\ cb' = [cb EXCEPT ![n] = NewLists(n)]
      /\ follows' = [follows EXCEPT ![n] = {d, e} \ {Off}]
      /\ remaining' = [remaining EXCEPT ![n] = IF e = Off THEN 1 ELSE 2]
      /\ calls' = <<Library(both \o <<Checks(n)>>)>> \o calls
      /\ tied' = tied
  <2>1. calls' = <<Library(both \o <<Checks(n)>>)>> \o calls
    BY DEF When, Three
  <2> QED  BY <2>1 DEF When
<1> HIDE DEF both
<1>2. /\ N \subseteq Deferreds /\ d \in N /\ n \in N /\ d # Off
      /\ e # Off => e \in N
  BY <1>1, OffFacts DEF DInv, Types, Made
<1>3. PICK p : p = Len(calls) + 1
  OBVIOUS
<1>4. p \in Nat
  BY <1>3 DEF DInv, Stack
<1>5. /\ remaining' \in [Deferreds -> 0 .. 2]
      /\ \A k \in Deferreds : k # n => remaining'[k] = remaining[k]
      /\ remaining'[n] = IF e = Off THEN 1 ELSE 2
  BY <1>1 DEF VInv, DerivedTypes
<1>6. PICK t : t = <<Checks(n)>>
  OBVIOUS
<1>7. PICK Z, T : Z = {} /\ T = {n}
  OBVIOUS
<1>8. /\ t \in Seq(Jobs(N)) /\ Len(t) = 1 /\ Notifies(t)
      /\ Parts(In(Library(t), p), Z, {}, T, {})
  <2>1. /\ t \in Seq(Jobs(N)) /\ Len(t) = 1 /\ \A k \in DOMAIN t : t[k].call # "add"
        /\ Parts(In(Library(t), p), {}, {}, {n}, {})
    BY <1>2, <1>6, CheckParts
  <2> QED  BY <1>7, <2>1 DEF Notifies
<1> HIDE DEF N
<1>9. ASSUME NEW s, s \in Seq(Jobs(N)), s # <<>>, Notifies(s),
             calls' = <<Library(s)>> \o calls,
             NEW K, Parts(In(Library(s), p), K, {}, T, {}),
             \A z \in K : /\ z.x.d = n /\ IsLink(z.x)
                         /\ IF Counts(z.x) THEN z.a = "resolve" ELSE z.x.a = z.a,
             NEW S, S = {d, e} \ {Off}
      PROVE  DerivesBy(n, Library(s), S, K, T)
  <2>1. Library(s) \in Frames(N)
    BY <1>9, NewFrames
  <2>2. PICK x : x = Library(s)
    OBVIOUS
  <2>3. S # {} /\ S \subseteq Deferreds /\ follows' = [follows EXCEPT ![n] = S]
    BY <1>1, <1>2, <1>9
  <2>4. \A q \in In(x, Len(calls) + 1) : ThingFits(q)
    <3>1. \A k \in DOMAIN s : s[k].call = "add" /\ s[k].a = "notify" => NotifyLink(s[k].f)
      BY <1>9 DEF Notifies
    <3> QED  BY <1>3, <1>9, <2>2, <3>1, TodoThings
  <2>5. Parts(In(x, Len(calls) + 1), K, {}, T, {}) /\ T \in {{}, {n}}
    BY <1>3, <1>7, <1>9, <2>2
  <2>6. x \in Frames(Made \cup {n}) /\ calls' = <<x>> \o calls
    BY <1>9, <2>1, <2>2 DEF N
  <2> QED  BY <1>1, <1>5, <1>9, <2>2, <2>3, <2>4, <2>5, <2>6 DEF DerivesBy
<1>10. PICK S : S = {d, e} \ {Off}
  OBVIOUS
<1>11. PICK u : u = Three(n, d)
  OBVIOUS
<1>12. u \in Seq(Jobs(N)) /\ Len(u) = 3 /\ Notifies(u)
  BY <1>2, <1>11, ThreeJobs DEF Notifies
<1>13. CASE e = Off
  <2>1. PICK s : s = u \o t
    OBVIOUS
  <2>2. both = u
    <3>1. both = u \o <<>>
      BY <1>11, <1>13 DEF both
    <3>2. u \o <<>> = u
      BY <1>12, ConcatGroups
    <3> QED  BY <3>1, <3>2
  <2>3. s \in Seq(Jobs(N)) /\ Notifies(s) /\ Len(s) = 4
    <3>1. /\ Notifies(u \o t) /\ u \o t \in Seq(Jobs(N))
          /\ Len(u \o t) = Len(u) + Len(t)
      BY <1>8, <1>12, NotifiesJoin
    <3> QED  BY <1>8, <1>12, <2>1, <3>1
  <2>4. s # <<>> /\ calls' = <<Library(s)>> \o calls
    <3>1. calls' = <<Library(both \o t)>> \o calls
      BY <1>1, <1>6
    <3>2. both \o t = s
      BY <2>1, <2>2
    <3>3. Len(s) # Len(<<>>)
      BY <2>3
    <3>4. s # <<>>
      BY ONLY <3>3
    <3> QED  BY <3>1, <3>2, <3>4
  <2>5. FirstThree(s, n, d, t)
    BY <1>11, <2>1 DEF FirstThree
  <2>6. PICK y, z \in Links : /\ CountsBy(n, y, z, d) /\ y.j = Len(t) + 3
                             /\ PairMore(In(Library(s), p), y, z, Z, T)
    <3>1. N \subseteq Deferreds /\ n \in N /\ d \in N /\ t \in Seq(Jobs(N))
      BY <1>2, <1>8
    <3>2. Parts(In(Library(t), p), Z, {}, T, {})
      BY <1>8
    <3> QED  BY <1>4, <2>5, <3>1, <3>2, CountParts
  <2>7. PICK K, C, R : K = {y, z} /\ C = {y} /\ R = {z}
    OBVIOUS
  <2>8. Parts(In(Library(s), p), K, {}, T, {})
    BY <1>7, <2>6, <2>7 DEF PairMore
  <2>9. \A q \in K : /\ q.x.d = n /\ IsLink(q.x)
                    /\ IF Counts(q.x) THEN q.a = "resolve" ELSE q.x.a = q.a
    BY <2>6, <2>7 DEF CountsBy
  <2>10. DerivesBy(n, Library(s), S, K, T)
    BY <1>9, <1>10, <2>3, <2>4, <2>8, <2>9
  <2>11. S = {d}
    BY <1>2, <1>10, <1>13
  <2>12. K = C \cup R /\ Size(C, remaining'[n])
    BY <1>5, <1>13, <2>7 DEF Size
  <2>13. /\ \A b \in C : \E r \in R, k \in S : CountsBy(n, b, r, k)
         /\ \A r \in R : \E b \in C, k \in S : CountsBy(n, b, r, k)
         /\ \A k \in S : \E b \in C, r \in R : CountsBy(n, b, r, k)
    BY <2>6, <2>7, <2>11
  <2> QED  BY <1>7, <2>10, <2>12, <2>13, WhenMakes
<1>14. CASE e # Off
  <2>1. PICK v : v = Three(n, e)
    OBVIOUS
  <2>2. v \in Seq(Jobs(N)) /\ Len(v) = 3 /\ Notifies(v)
    BY <1>2, <1>14, <2>1, ThreeJobs DEF Notifies
  <2>3. PICK s : s = v \o t
    OBVIOUS
  <2>4. s \in Seq(Jobs(N)) /\ Notifies(s) /\ Len(s) = 4
    <3>1. /\ Notifies(v \o t) /\ v \o t \in Seq(Jobs(N))
          /\ Len(v \o t) = Len(v) + Len(t)
      BY <1>8, <2>2, NotifiesJoin
    <3> QED  BY <1>8, <2>2, <2>3, <3>1
  <2>5. PICK r : r = u \o s
    OBVIOUS
  <2>6. r \in Seq(Jobs(N)) /\ Notifies(r) /\ Len(r) = 7
    <3>1. /\ Notifies(u \o s) /\ u \o s \in Seq(Jobs(N))
          /\ Len(u \o s) = Len(u) + Len(s)
      BY <1>12, <2>4, NotifiesJoin
    <3> QED  BY <1>12, <2>4, <2>5, <3>1
  <2>7. r # <<>> /\ calls' = <<Library(r)>> \o calls
    <3>1. both = u \o v
      BY <1>11, <1>14, <2>1 DEF both
    <3>2. (u \o v) \o t = u \o (v \o t)
      BY <1>8, <1>12, <2>2, ConcatGroups
    <3>3. calls' = <<Library(both \o t)>> \o calls
      BY <1>1, <1>6
    <3>4. both \o t = r
      BY <2>3, <2>5, <3>1, <3>2
    <3>5. Len(r) # Len(<<>>)
      BY <2>6
    <3>6. r # <<>>
      BY ONLY <3>5
    <3> QED  BY <3>3, <3>4, <3>6
  <2>8. PICK y, z \in Links : /\ CountsBy(n, y, z, e) /\ y.j = Len(t) + 3
                             /\ PairMore(In(Library(s), p), y, z, Z, T)
    <3>1. FirstThree(s, n, e, t) /\ e \in N
      BY <1>2, <1>14, <2>1, <2>3 DEF FirstThree
    <3>2. N \subseteq Deferreds /\ n \in N /\ e \in N /\ t \in Seq(Jobs(N))
      BY <1>2, <1>8, <3>1
    <3>3. Parts(In(Library(t), p), Z, {}, T, {})
      BY <1>8
    <3> QED  BY <1>4, <3>1, <3>2, <3>3, CountParts
  <2>9. PICK L : L = {y, z}
    OBVIOUS
  <2>10. Parts(In(Library(s), p), L, {}, T, {})
    BY <1>7, <2>8, <2>9 DEF PairMore
  <2>11. PICK b, g \in Links : /\ CountsBy(n, b, g, d) /\ b.j = Len(s) + 3
                              /\ PairMore(In(Library(r), p), b, g, L, T)
    <3>1. FirstThree(r, n, d, s)
      BY <1>11, <2>5 DEF FirstThree
    <3>2. N \subseteq Deferreds /\ n \in N /\ d \in N /\ s \in Seq(Jobs(N))
      BY <1>2, <2>4
    <3> QED  BY <1>4, <2>10, <3>1, <3>2, CountParts
  <2>12. PICK K, C, R : K = {b, g} \cup L /\ C = {b, y} /\ R = {g, z}
    OBVIOUS
  <2>13. Parts(In(Library(r), p), K, {}, T, {})
    BY <2>11, <2>12 DEF PairMore
  <2>14. \A q \in K : /\ q.x.d = n /\ IsLink(q.x)
                     /\ IF Counts(q.x) THEN q.a = "resolve" ELSE q.x.a = q.a
    BY <2>8, <2>9, <2>11, <2>12 DEF CountsBy
  <2>15. DerivesBy(n, Library(r), S, K, T)
    BY <1>9, <1>10, <2>6, <2>7, <2>13, <2>14
  <2>16. S = {d, e}
    BY <1>2, <1>10, <1>14
  <2>17. K = C \cup R
    BY <2>9, <2>12
  <2>18. Size(C, remaining'[n])
    <3>1. b # y
      BY <1>8, <2>4, <2>8, <2>11
    <3>2. remaining'[n] = 2
      BY <1>5, <1>14
    <3> QED  BY <2>12, <3>1, <3>2 DEF Size
  <2>19. /\ \A q \in C : \E h \in R, k \in S : CountsBy(n, q, h, k)
         /\ \A h \in R : \E q \in C, k \in S : CountsBy(n, q, h, k)
         /\ \A k \in S : \E q \in C, h \in R : CountsBy(n, q, h, k)
    BY <2>8, <2>11, <2>12, <2>16
  <2> QED  BY <1>7, <2>15, <2>17, <2>18, <2>19, WhenMakes
<1> QED
  BY <1>13, <1>14

(* A function that was called returns; a filter may leave something to do. *)
LEMMA BodyForm ==
  ASSUME NEW M, NEW x \in Frames(M), x.runs = "body"
  PROVE  x = Body(x.f, x.d, x.a)
<1>1. \/ x \in [runs : {"body"}, f : Fn, d : {Off}, a : {Off}]
      \/ x \in [runs : {"body"}, f : Fn, d : M, a : Actions]
  BY DEF Frames
<1> QED
  BY <1>1 DEF Body

(* What a filter returns, that for the progress too, is for what is        *)
(* derived.                                                                *)
BodyDerived == Running("body") /\ Top.d # Off => Top.d \in derived

(* A filter for the progress is not seen before it returns.                *)
BodyLeaves(B, K, F) ==
  /\ IF Top.a \in Settling
     THEN \E b \in View.bodies : B = {b} /\ b.d = Top.d /\ b.a = Top.a
     ELSE B = {}
  /\ View'.bodies = View.bodies \ B /\ View'.links = View.links \cup K
  /\ View'.fires = View.fires \cup F /\ View'.checks = View.checks
  /\ View'.went = View.went /\ View'.derived = View.derived
  /\ NotifyLinks'

LEMMA FilterLeaves ==
  ASSUME DInv, VInv, Running("body"), Top.d # Off, UNCHANGED <<owned, derived, cb>>,
         NEW f \in Frames(Made), calls' = <<f>> \o Below, NEW K, NEW F,
         Parts(In(f, Len(Below) + 1), K, F, {}, {}),
         \A t \in In(f, Len(Below) + 1) : ThingFits(t)
  PROVE  \E B : BodyLeaves(B, K, F)
<1>1. Stack(Made, calls) /\ calls # <<>> /\ Top.runs = "body"
  BY DEF DInv, Running
<1>2. Stack(Made, Below) /\ Top \in Frames(Made)
  BY <1>1, Pop DEF Top, Below
<1>3. PICK p : p = Len(calls)
  OBVIOUS
<1>4. /\ p \in Nat /\ p = Len(Below) + 1
      /\ Things(calls) = In(Top, p) \cup Things(Below)
      /\ \A t \in Things(Below) : t[1] # p
  BY <1>1, <1>3, TopThings
<1>5. /\ Top.f \in Fn /\ Top.d \in Made /\ Top = Body(Top.f, Top.d, Top.a)
      /\ In(Top, p) = {<<p, 0, Top>>}
  <2>1. Top.f \in Fn /\ Top.d \in Made
    BY <1>1, <1>2, FrameKinds
  <2>2. Top = Body(Top.f, Top.d, Top.a)
    BY <1>1, <1>2, BodyForm
  <2>3. In(Top, p) = {<<p, 0, Top>>}
    BY <1>1 DEF In
  <2> QED  BY <2>1, <2>2, <2>3
<1>7. Top.d \in Deferreds /\ Made \subseteq Deferreds
  BY <1>5 DEF DInv, Types, Made
<1>8. PICK b : b = [i |-> p, f |-> Top.f, d |-> Top.d, a |-> Top.a]
  OBVIOUS
<1>9. b.i = p /\ b.d = Top.d /\ b.a = Top.a
  BY <1>8
<1>a. PICK B : B = IF Top.a \in Settling THEN {b} ELSE {}
  OBVIOUS
<1>10. Parts(In(Top, p), {}, {}, {}, B)
  <2>1. PICK g, d, a : g = Top.f /\ d = Top.d /\ a = Top.a
    OBVIOUS
  <2>3. {<<p, 0, Body(g, d, a)>>} = In(Top, p)
    BY <1>5, <2>1
  <2>4. b = [i |-> p, f |-> g, d |-> d, a |-> a]
    BY <1>8, <2>1
  <2>5. CASE Top.a \in Settling
    <3>1. Parts({<<p, 0, Body(g, d, a)>>}, {}, {}, {}, {[i |-> p, f |-> g, d |-> d, a |-> a]})
      BY <1>4, <1>5, <1>7, <2>1, <2>5, BodyThing
    <3>2. B = {b}
      BY <1>a, <2>5
    <3> QED  BY <2>3, <2>4, <3>1, <3>2
  <2>6. CASE Top.a \notin Settling
    <3>1. Parts({<<p, 0, Body(g, d, a)>>}, {}, {}, {}, {})
      BY <2>1, <2>6, QuietBody
    <3>2. B = {}
      BY <1>a, <2>6
    <3> QED  BY <2>3, <3>1, <3>2
  <2> QED  BY <2>5, <2>6
<1>11. PICK T : T = Things(Below)
  OBVIOUS
<1>12. Parts(Things(calls), StackLinks(T) \cup {}, FiresIn(T) \cup {},
             ChecksIn(T) \cup {}, BodiesIn(T) \cup B)
  BY <1>1, <1>3, <1>10, <1>11, StackPop
<1>13. Parts(Things(calls'), StackLinks(T) \cup K, FiresIn(T) \cup F,
             ChecksIn(T) \cup {}, BodiesIn(T) \cup {})
  <2>1. Parts(Things(<<f>> \o Below), StackLinks(T) \cup K, FiresIn(T) \cup F,
              ChecksIn(T) \cup {}, BodiesIn(T) \cup {})
    BY <1>2, <1>11, StackPush
  <2> QED  BY <2>1
<1>14. \A c \in B : c \notin BodiesIn(T)
  <2>1. \A c \in BodiesIn(T) : \E t \in T : t[1] = c.i
    BY DEF BodiesIn
  <2> QED  BY <1>4, <1>9, <1>11, <1>a, <2>1
<1>15. ListLinks' = ListLinks /\ WentNow' = WentNow
  BY DEF ListLinks, WentNow
<1>16. /\ View.links = ListLinks \cup StackLinks(T) /\ View.fires = FiresIn(T)
       /\ View.checks = ChecksIn(T) /\ View.bodies = BodiesIn(T) \cup B
  BY <1>12, ViewFields DEF Parts
<1>17. /\ View'.links = ListLinks \cup (StackLinks(T) \cup K)
       /\ View'.fires = FiresIn(T) \cup F
       /\ View'.checks = ChecksIn(T) /\ View'.bodies = BodiesIn(T)
  BY <1>13, <1>15, NextViewFields DEF Parts
<1>18. View'.went = View.went /\ View'.derived = View.derived
  BY <1>15, ViewFields, NextViewFields
<1>19. NotifyLinks'
  <2>1. Things(calls') = In(f, Len(Below) + 1) \cup T
    BY <1>2, <1>11, PushThings
  <2>2. \A t \in Things(calls') : t \in Things(calls) \/ ThingFits(t)
    BY <1>4, <1>11, <2>1
  <2>3. \A e \in Made' : e \in Made /\ cb'[e]["notify"].list = cb[e]["notify"].list
    BY DEF Made
  <2> QED  BY <2>2, <2>3, NotifyKeeps DEF VInv
<1>20. /\ View'.bodies = View.bodies \ B /\ View'.links = View.links \cup K
       /\ View'.fires = View.fires \cup F /\ View'.checks = View.checks
  BY <1>14, <1>16, <1>17
<1>21. IF Top.a \in Settling
       THEN \E c \in View.bodies : B = {c} /\ c.d = Top.d /\ c.a = Top.a
       ELSE B = {}
  BY <1>9, <1>16, <1>a
<1> QED
  BY <1>18, <1>19, <1>20, <1>21 DEF BodyLeaves

LEMMA ReturnView ==
  ASSUME DInv, VInv, Return
  PROVE  VInv'
<1>1. /\ calls # <<>> /\ Top.runs = "body" /\ Top.d = Off /\ calls' = Below
      /\ UNCHANGED <<owned, derived, cb, remaining, follows, tied, thrown>>
  BY DEF Return, Running, lists, history
<1>2. Things(calls') = Things(calls)
  <2>1. In(Top, Len(calls)) = {}
    BY <1>1 DEF In
  <2>2. Things(calls) = In(Top, Len(calls)) \cup Things(Below)
    BY <1>1, TopThings DEF DInv
  <2> QED  BY <1>1, <2>1, <2>2
<1>3. Fits(View')
  <2>1. ListLinks' = ListLinks /\ WentNow' = WentNow
    BY <1>1 DEF ListLinks, WentNow
  <2>2. Parts(Things(calls'), StackLinks(Things(calls)), FiresIn(Things(calls)),
              ChecksIn(Things(calls)), BodiesIn(Things(calls)))
    BY <1>2 DEF Parts
  <2> QED  BY <1>1, <2>1, <2>2, ViewSame DEF VInv
<1>4. NotifyLinks'
  <2>1. \A e \in Made' : e \in Made /\ cb'[e]["notify"].list = cb[e]["notify"].list
    BY <1>1 DEF Made
  <2> QED  BY <1>2, <2>1, NotifyKeeps DEF VInv
<1>5. DerivedTypes'
  BY <1>1 DEF VInv, DerivedTypes
<1> QED
  BY <1>3, <1>4, <1>5 DEF VInv

LEMMA ReturnValueView ==
  ASSUME DInv, VInv, ReturnValue
  PROVE  VInv'
<1>1. /\ Running("body") /\ calls # <<>> /\ Top.runs = "body" /\ Top.d # Off
      /\ calls' = <<Library(<<Fires(Top.d, Top.a, 0)>>)>> \o Below
      /\ UNCHANGED <<owned, derived, cb, remaining, follows, tied, thrown>>
  BY DEF ReturnValue, Running, lists, history
<1>2. Top \in Frames(Made) /\ Top.d \in Made /\ Top.a \in Actions
  <2>1. Top \in Frames(Made)
    BY <1>1, Pop DEF DInv, Top, Below
  <2> QED  BY <1>1, <2>1, FrameKinds
<1>3. PICK d, a : d = Top.d /\ a = Top.a
  OBVIOUS
<1>4. a \in Actions /\ d \in Deferreds
  BY <1>2, <1>3 DEF DInv, Types, Made
<1>5. PICK x, f : x = Fires(d, a, 0) /\ f = Library(<<x>>)
  OBVIOUS
<1>6. x \in Jobs(Made) /\ f \in Frames(Made)
  <2>1. x \in Jobs(Made)
    BY <1>2, <1>3, <1>5, NewJobs
  <2>2. <<x>> \in Seq(Jobs(Made)) /\ <<x>> # <<>>
    BY <2>1
  <2> QED  BY <1>5, <2>1, <2>2, NewFrames
<1>7. In(f, Len(Below) + 1) = {<<Len(Below) + 1, 1, x>>}
  BY <1>5, <1>6, OneCall
<1>8. PICK F, K : /\ F = IF a \in Settling THEN {<<d, a>>} ELSE {}
                  /\ K = {}
  OBVIOUS
<1>9. Parts(In(f, Len(Below) + 1), K, F, {}, {})
  <2>1. 1 # 0
    OBVIOUS
  <2>2. CASE a \in Settling
    <3>1. Parts({<<Len(Below) + 1, 1, Fires(d, a, 0)>>}, {}, {<<d, a>>}, {}, {})
      BY <1>4, <2>1, <2>2, FireThing
    <3>2. F = {<<d, a>>}
      BY <1>8, <2>2
    <3> QED  BY <1>5, <1>7, <1>8, <3>1, <3>2
  <2>3. CASE a \notin Settling
    <3>1. Silent(x)
      BY <1>4, <1>5, <2>3 DEF Silent, Fires, Actions, Settling
    <3>2. Parts({<<Len(Below) + 1, 1, x>>}, {}, {}, {}, {})
      BY <2>1, <3>1, SilentThing
    <3>3. F = {}
      BY <1>8, <2>3
    <3> QED  BY <1>7, <1>8, <3>2, <3>3
  <2> QED  BY <2>2, <2>3
<1>10. \A t \in In(f, Len(Below) + 1) : ThingFits(t)
  BY <1>5, <1>7 DEF ThingFits, Fires
<1>11. calls' = <<f>> \o Below
  BY <1>1, <1>3, <1>5
<1>12. PICK B : BodyLeaves(B, K, F)
  BY <1>1, <1>6, <1>9, <1>10, <1>11, FilterLeaves
<1>a. /\ Alike(View, View') /\ View'.remaining = View.remaining
      /\ View'.links = View.links /\ View'.checks = View.checks
      /\ View'.went = View.went
  BY <1>1, <1>8, <1>12, ViewFields, NextViewFields DEF BodyLeaves, Alike, AllAlike
<1>13. Fits(View')
  <2>1. CASE a \in Settling
    <3>1. PICK b \in View.bodies : B = {b} /\ b.d = d /\ b.a = a
      BY <1>3, <1>12, <2>1 DEF BodyLeaves
    <3>2. /\ View'.fires = View.fires \cup {<<b.d, b.a>>}
          /\ View'.bodies = View.bodies \ {b}
      BY <1>8, <1>12, <2>1, <3>1 DEF BodyLeaves
    <3> QED  BY <1>a, <3>2, ValueKeeps DEF VInv
  <2>2. CASE a \notin Settling
    <3>1. View'.fires = View.fires /\ View'.bodies = View.bodies
      BY <1>3, <1>8, <1>12, <2>2 DEF BodyLeaves
    <3>2. \A y \in View.links \ View'.links : ~Live(View, y)
      BY <1>a
    <3>3. View'.links \subseteq View.links
      BY <1>a
    <3> QED  BY <1>a, <3>1, <3>2, <3>3, DropKeeps DEF VInv
  <2> QED  BY <2>1, <2>2
<1>14. DerivedTypes'
  BY <1>1 DEF VInv, DerivedTypes
<1> QED
  BY <1>12, <1>13, <1>14 DEF VInv, BodyLeaves

LEMMA ReturnPromiseView ==
  ASSUME DInv, VInv, BodyDerived, NEW o \in Deferreds, ReturnPromise(o)
  PROVE  VInv'
<1>1. /\ Running("body") /\ calls # <<>> /\ Top.runs = "body" /\ Top.d # Off
      /\ o \in Made
      /\ IF Top.a = "notify"
         THEN tied' = tied \cup {Top.d} /\ follows' = follows
         ELSE follows' = [follows EXCEPT ![Top.d] = {o}] /\ tied' = tied
      /\ calls' = <<Library(<<Adds(o, "resolve", Forward(Top.d, "resolve")),
                              Adds(o, "reject", Forward(Top.d, "reject")),
                              Adds(o, "notify", Forward(Top.d, "notify"))>>)>> \o Below
      /\ UNCHANGED <<owned, derived, cb, remaining, thrown>>
  BY DEF ReturnPromise, Running, lists
<1>2. PICK n : n = Top.d
  OBVIOUS
<1>3. n \in Made /\ n \in Deferreds /\ Made \subseteq Deferreds
  <2>1. Top \in Frames(Made)
    BY <1>1, Pop DEF DInv, Top, Below
  <2> QED  BY <1>1, <1>2, <2>1, FrameKinds DEF DInv, Types, Made
<1>4. PICK u, v, w : u = Forward(n, "resolve") /\ v = Forward(n, "reject") /\ w = Forward(n, "notify")
  OBVIOUS
<1>5. /\ u \in Others(Made) /\ v \in Others(Made) /\ w \in Others(Made)
      /\ IsLink(u) /\ IsLink(v) /\ ~Counts(u) /\ ~Counts(v) /\ NotifyLink(w)
      /\ u.d = n /\ v.d = n /\ u.a = "resolve" /\ v.a = "reject"
  <2>1. u \in Others(Made) /\ v \in Others(Made) /\ w \in Others(Made)
    BY <1>3, <1>4, ItemKinds DEF Actions
  <2> QED  BY <1>4, <2>1 DEF Forward, IsLink, Counts, NotifyLink
<1>6. /\ Adds(o, "resolve", u) \in Jobs(Made) /\ Adds(o, "reject", v) \in Jobs(Made)
      /\ Adds(o, "notify", w) \in Jobs(Made)
  BY <1>1, <1>5, NewJobs DEF Actions
<1>7. PICK s : s = <<Adds(o, "resolve", u), Adds(o, "reject", v), Adds(o, "notify", w)>>
  OBVIOUS
<1>8. /\ s \in Seq(Jobs(Made)) /\ s # <<>> /\ DOMAIN s = {1, 2, 3}
      /\ calls' = <<Library(s)>> \o Below
  BY <1>1, <1>2, <1>4, <1>6, <1>7
<1>9. PICK p : p = Len(Below) + 1
  OBVIOUS
<1>10. p \in Nat
  <2>1. Stack(Made, Below)
    BY <1>1, Pop DEF DInv, Top, Below
  <2> QED  BY <1>9, <2>1 DEF Stack
<1>11. PICK y \in Links, z \in Links :
         /\ y.d = o /\ y.a = "resolve" /\ y.x = u
         /\ z.d = o /\ z.a = "reject" /\ z.x = v
         /\ Parts(In(Library(s), p), {y, z}, {}, {}, {})
  <2>1. PICK t : t = <<>>
    OBVIOUS
  <2>2. PICK Z : Z = {}
    OBVIOUS
  <2>3. t \in Seq(Jobs(Made)) /\ \A k \in DOMAIN t : Silent(t[k])
    BY <2>1
  <2>4. Parts(In(Library(t), p), {}, {}, {}, {})
    BY <2>3, SilentTodo
  <2>5. Parts(In(Library(t), p), Z, {}, Z, {})
    BY <2>2, <2>4
  <2>6. s = <<Adds(o, "resolve", u), Adds(o, "reject", v), Adds(o, "notify", w)>> \o t
    BY <1>6, <1>7, <2>1
  <2>7. PairCalls(Made, o, u, v, w, t, s)
    BY <1>1, <1>3, <1>5, <2>3, <2>6 DEF PairCalls
  <2>8. PICK y, z \in Links : /\ PairLinks(y, z, o, u, v, Len(t) + 3)
                             /\ PairMore(In(Library(s), p), y, z, Z, Z)
    BY <1>10, <2>5, <2>7, PairParts
  <2> QED  BY <2>2, <2>8 DEF PairLinks, PairMore
<1>12. \A t \in In(Library(s), p) : ThingFits(t)
  <2>1. /\ s[1].a = "resolve" /\ s[2].a = "reject" /\ s[3].f = w
    BY <1>7 DEF Adds
  <2>2. \A k \in DOMAIN s : s[k].call = "add" /\ s[k].a = "notify" => NotifyLink(s[k].f)
    BY <1>5, <1>8, <2>1
  <2> QED  BY <1>8, <2>2, TodoThings
<1>13. PICK K, F : K = {y, z} /\ F = {}
  OBVIOUS
<1>14. PICK B : BodyLeaves(B, K, F)
  <2>1. PICK f : f = Library(s)
    OBVIOUS
  <2>2. f \in Frames(Made) /\ calls' = <<f>> \o Below
    BY <1>8, <2>1, NewFrames
  <2>3. Parts(In(f, Len(Below) + 1), K, F, {}, {})
    BY <1>9, <1>11, <1>13, <2>1
  <2>4. \A t \in In(f, Len(Below) + 1) : ThingFits(t)
    BY <1>9, <1>12, <2>1
  <2> QED  BY <1>1, <2>2, <2>3, <2>4, FilterLeaves
<1>15. /\ View'.bodies = View.bodies \ B /\ View'.links = View.links \cup K
       /\ View'.fires = View.fires /\ View'.checks = View.checks
       /\ View'.went = View.went /\ View'.derived = View.derived
       /\ \A c \in B : c \in View.bodies /\ c.d = n
  BY <1>2, <1>13, <1>14 DEF BodyLeaves
<1>a. Top.a # "notify" => Top.a \in Settling
  <2>1. Top \in Frames(Made)
    BY <1>1, Pop DEF DInv, Top, Below
  <2>2. Top.a \in Actions
    BY <1>1, <2>1, FrameKinds
  <2> QED  BY <2>2 DEF Actions, Settling
<1>17. /\ View'.follows = follows' /\ View'.remaining = View.remaining
       /\ View'.thrown = View.thrown /\ View'.tied = tied' /\ View.tied = tied
       /\ View.follows = follows /\ View.derived = derived
  BY <1>1, ViewFields, NextViewFields
<1>18. Fits(View) /\ Shape(View)
  BY FitsShape DEF VInv
<1>19. n \in View.derived
  BY <1>1, <1>2, <1>17 DEF BodyDerived
<1>16. /\ follows'[n] # {} /\ follows'[n] \subseteq Deferreds
       /\ \A k \in Deferreds : k # n => follows'[k] = follows[k]
       /\ follows' \in [Deferreds -> SUBSET Deferreds]
  <2>1. follows \in [Deferreds -> SUBSET Deferreds]
    BY DEF VInv, DerivedTypes
  <2>2. CASE Top.a = "notify"
    <3>1. follows' = follows
      BY <1>1, <2>2
    <3>2. follows[n] # {} /\ follows[n] \subseteq Deferreds
      BY <1>17, <1>18, <1>19 DEF Shape
    <3> QED  BY <2>1, <3>1, <3>2
  <2>3. CASE Top.a # "notify"
    <3>1. follows' = [follows EXCEPT ![n] = {o}]
      BY <1>1, <1>2, <2>3
    <3> QED  BY <1>1, <1>3, <2>1, <3>1
  <2> QED  BY <2>2, <2>3
<1>20. \A q \in {y, z} : /\ q \in Links /\ q.x.d = n /\ IsLink(q.x) /\ ~Counts(q.x)
                         /\ q.x.a = q.a
  BY <1>5, <1>11
<1>21. ASSUME ~View.thrown, Top.a # "notify", n \notin tied
       PROVE  Fits(View')
  <2>0. PICK g, r : IsTorn(View, g) /\ IsUntied(View, r) /\ AllFit(g) /\ AllFit(r)
    BY <1>18, FitsTwice
  <2>b. PICK b \in View.bodies : B = {b} /\ b.d = n
    BY <1>2, <1>14, <1>a, <1>21 DEF BodyLeaves
  <2>1. BodyFits(r, b)
    <3>1. b \in r.bodies /\ ~r.thrown
      BY <1>17, <1>21, <2>0, <2>b DEF IsUntied
    <3> QED  BY <2>0, <3>1 DEF AllFit, BodiesFit
  <2>c. /\ \A d, e : Went(r, d, e) <=> Went(View, d, e)
        /\ r.remaining[n] = View.remaining[n]
        /\ LinksOf(r, n) = LinksOf(View, n)
    BY <1>3, <1>17, <1>21, <2>0 DEF IsUntied, Went, LinksOf
  <2>2. /\ ~Over(View, n) /\ n \notin View.checks /\ View.remaining[n] = 0
        /\ \A e \in Settling : ~ToFire(View, n, e)
        /\ \A q \in LinksOf(View, n) : ~Live(View, q) /\ ~Counts(q.x)
        /\ \A c \in View.bodies : c.d = n => c = b
    <3>1. /\ ~Over(r, n) /\ n \notin r.checks /\ r.remaining[n] = 0
          /\ \A e \in Settling : ~ToFire(r, n, e)
          /\ \A q \in LinksOf(r, n) : ~Live(r, q) /\ ~Counts(q.x)
          /\ \A c \in r.bodies : c.d = n => c = b
      BY <2>1, <2>b DEF BodyFits
    <3>2. /\ \A q : Live(r, q) <=> Live(View, q)
          /\ Over(r, n) <=> Over(View, n)
      BY <2>c DEF Live, Over
    <3>3. /\ n \in View.checks => n \in r.checks
          /\ \A e : ToFire(View, n, e) => ToFire(r, n, e)
          /\ \A c \in View.bodies : c.d = n => c \in r.bodies
      BY <1>17, <1>21, <2>0 DEF IsUntied, ToFire
    <3> QED  BY <2>c, <3>1, <3>2, <3>3
  <2>3. \A e : ~ToFire(View, n, e)
    BY <1>18, <2>2 DEF Shape, ToFire
  <2>4. GoesBy(View, View', n, {y, z})
    <3>1. \A c \in View.bodies : c \in View'.bodies <=> c.d # n
      BY <1>15, <2>2, <2>b
    <3>2. \A k \in Deferreds : k # n => /\ View'.follows[k] = View.follows[k]
                                        /\ View'.remaining[k] = View.remaining[k]
      BY <1>16, <1>17
    <3>3. View'.derived = View.derived \cup {n}
      BY <1>15, <1>19
    <3>4. View'.follows[n] # {} /\ View'.follows[n] \subseteq Deferreds
      BY <1>16, <1>17
    <3>5. View'.checks \in {View.checks, View.checks \cup {n}}
      BY <1>15
    <3>6. View'.links = View.links \cup {y, z} /\ {y, z} \subseteq Links
      BY <1>13, <1>15
    <3>7. \A q \in {y, z} : /\ q.x.d = n /\ IsLink(q.x)
                            /\ IF Counts(q.x) THEN q.a = "resolve" ELSE q.x.a = q.a
      BY <1>20
    <3> QED
      BY <1>3, <1>13, <1>14, <1>15, <1>17, <2>2, <2>3, <3>1, <3>2, <3>3, <3>4, <3>5, <3>6, <3>7 DEF GoesBy
  <2>5. View'.follows[n] = {o} /\ View'.remaining[n] = 0 /\ View'.tied = View.tied
    <3>1. follows' = [follows EXCEPT ![n] = {o}] /\ tied' = tied
      BY <1>1, <1>2, <1>21
    <3>2. follows'[n] = {o}
      BY <1>3, <3>1 DEF VInv, DerivedTypes
    <3> QED  BY <1>17, <2>2, <3>1, <3>2
  <2>6. ~Counts(y.x) /\ ~Counts(z.x)
    BY <1>20
  <2>7. /\ y.a = "resolve" /\ y.d = o /\ z.a = "reject" /\ z.d = o
        /\ View'.checks = View.checks /\ Fits(View)
    BY <1>11, <1>15, <1>18
  <2> QED  BY <2>4, <2>5, <2>6, <2>7, OneTurns
<1>b. ASSUME NEW k \in View.derived
      PROVE  View'.follows[k] # {} /\ View'.follows[k] \subseteq Deferreds
  <2>1. CASE k = n
    BY <1>16, <1>17, <2>1
  <2>2. CASE k # n
    BY <1>16, <1>17, <1>18, <2>2 DEF Shape
  <2> QED  BY <2>1, <2>2
<1>c. /\ View'.bodies \subseteq View.bodies
      /\ \A c \in View.bodies : c.d # n => c \in View'.bodies
  BY <1>15
<1>d. K \subseteq Links /\ \A q \in K : /\ IsLink(q.x) /\ q.x.d = n
                                         /\ ~Counts(q.x) /\ q.x.a = q.a
  BY <1>13, <1>20
<1>22. ASSUME View.thrown, View'.tied = View.tied
       PROVE  Fits(View')
  <2>1. View.thrown = TRUE /\ View'.thrown = TRUE
    BY <1>17, <1>18, <1>22 DEF Shape
  <2>2. K \subseteq Links /\ \A q \in K : /\ IsLink(q.x) /\ q.x.d \in View.derived
                                          /\ ~Counts(q.x) /\ q.x.a = q.a
    BY <1>19, <1>d
  <2>3. /\ View'.derived = View.derived /\ View'.went = View.went
        /\ View'.fires = View.fires /\ View'.checks = View.checks
        /\ View'.remaining = View.remaining
        /\ View'.links = View.links \cup K /\ Fits(View)
    BY <1>15, <1>17, <1>18
  <2> QED  BY <1>22, <1>b, <1>c, <2>1, <2>2, <2>3, ThrownTurns
<1>23. ASSUME View'.tied = View.tied \cup {n}
       PROVE  Fits(View')
  <2>1. /\ View'.derived = View.derived /\ View'.went = View.went
        /\ View'.fires = View.fires /\ View'.checks = View.checks
        /\ View'.remaining = View.remaining /\ View'.thrown = View.thrown
        /\ View'.links = View.links \cup K /\ Fits(View)
    BY <1>15, <1>17, <1>18
  <2>2. \A k \in Deferreds : k # n => View'.follows[k] = View.follows[k]
    BY <1>16, <1>17
  <2>3. View'.follows[n] # {} /\ View'.follows[n] \subseteq Deferreds
    BY <1>19, <1>b
  <2> QED
    BY ONLY <1>19, <1>23, <1>c, <1>d, <2>1, <2>2, <2>3, TiedTurns
<1>24. Fits(View')
  <2>1. CASE Top.a = "notify" \/ n \in tied
    <3>1. View'.tied = View.tied \cup {n}
      BY <1>1, <1>2, <1>17, <2>1
    <3> QED  BY <1>23, <3>1
  <2>2. CASE Top.a # "notify" /\ n \notin tied /\ View.thrown
    <3>1. View'.tied = View.tied
      BY <1>1, <1>17, <2>2
    <3> QED  BY <1>22, <2>2, <3>1
  <2>3. CASE Top.a # "notify" /\ n \notin tied /\ ~View.thrown
    BY <1>21, <2>3
  <2> QED  BY <2>1, <2>2, <2>3
<1>25. DerivedTypes'
  <2>1. tied' \subseteq derived'
    BY <1>1, <1>2, <1>17, <1>19 DEF VInv, DerivedTypes
  <2> QED  BY <1>1, <1>16, <2>1 DEF VInv, DerivedTypes
<1> QED
  BY <1>14, <1>24, <1>25 DEF VInv, BodyLeaves

LEMMA NoThings == Things(<<>>) = {}
BY DEF Things

LEMMA ThrowView ==
  ASSUME DInv, VInv, Throw
  PROVE  VInv'
<1>1. /\ calls' = <<>> /\ thrown' = TRUE
      /\ UNCHANGED <<owned, derived, cb, remaining, follows, tied>>
  BY DEF Throw, lists
<1>2. Things(calls') = {}
  BY <1>1, NoThings
<1>3. /\ ListLinks' = ListLinks /\ WentNow' = WentNow
  BY <1>1 DEF ListLinks, WentNow
<1>4. Parts(Things(calls'), {}, {}, {}, {})
  BY <1>2, PartsNone
<1>5. Fits(View')
  <2>1. /\ View'.links = ListLinks /\ View'.fires = {} /\ View'.checks = {}
        /\ View'.bodies = {}
    BY <1>3, <1>4, NextViewFields DEF Parts
  <2>2. View'.links \subseteq View.links
    BY <2>1, ViewFields
  <2>3. /\ View'.derived = View.derived /\ View'.follows = View.follows
        /\ View'.remaining = View.remaining /\ View'.went = View.went
        /\ View'.thrown = TRUE /\ View'.tied = View.tied
    BY <1>1, <1>3, ViewFields, NextViewFields
  <2>4. View'.fires = {} /\ View'.checks = {} /\ View'.bodies = {} /\ Fits(View)
    BY <2>1 DEF VInv
  <2> QED  BY <2>2, <2>3, <2>4, ThrownKeeps
<1>6. NotifyLinks'
  <2>1. \A e \in Made' : e \in Made /\ cb'[e]["notify"].list = cb[e]["notify"].list
    BY <1>1 DEF Made
  <2> QED  BY <1>2, <2>1, NotifyKeeps DEF VInv
<1>7. DerivedTypes'
  BY <1>1 DEF VInv, DerivedTypes
<1> QED
  BY <1>5, <1>6, <1>7 DEF VInv

(* In the beginning there is nothing.                                      *)
LEMMA ViewInit == Init => VInv
<1> SUFFICES ASSUME Init PROVE VInv
  OBVIOUS
<1>1. DInv
  BY InitOK
<1>2. /\ owned = {} /\ derived = {} /\ calls = <<>> /\ thrown = FALSE
      /\ remaining = [d \in Deferreds |-> 0]
      /\ follows = [d \in Deferreds |-> {}] /\ Made = {} /\ tied = {}
  BY DEF Init, Made
<1>3. Things(calls) = {}
  BY <1>2, NoThings
<1>4. ListLinks = {} /\ WentNow = {}
  <2>1. \A n \in Deferreds, a \in Actions :
          cb[n][a].fired = FALSE /\ \A k, x : ~Waits(cb[n][a], k, x)
    BY <1>1, <1>2, UnmadeLists
  <2>2. ListLinks = {}
    <3>1. \A y \in Links : y.d \in Deferreds /\ y.a \in Actions
      BY ActionFacts DEF Links
    <3> QED  BY <2>1, <3>1 DEF ListLinks
  <2>3. WentNow = {}
    BY <2>1, ActionFacts DEF WentNow
  <2> QED  BY <2>2, <2>3
<1>5. Parts(Things(calls), {}, {}, {}, {})
  BY <1>3, PartsNone
<1>6. /\ View.links = {} /\ View.fires = {} /\ View.checks = {} /\ View.bodies = {}
      /\ View.went = {} /\ View.derived = {} /\ View.thrown = FALSE
  BY <1>2, <1>4, <1>5, ViewFields DEF Parts
<1>7. Fits(View)
  <2>1. ASSUME NEW m, m.links = {}, m.fires = {}, m.checks = {}, m.bodies = {},
               m.went = {}, m.derived = {}, m.thrown \in BOOLEAN
        PROVE  AllFit(m)
    <3>1. Shape(m) /\ SizeFits(m)
      BY <2>1 DEF Shape, SizeFits, Went
    <3>2. LinksFit(m) /\ ReasonsFit(m) /\ FiltersFit(m) /\ BodiesFit(m)
      BY <2>1 DEF LinksFit, ReasonsFit, FiltersFit, BodiesFit
    <3>3. CountsFit(m) /\ WillReject(m) /\ WillResolve(m)
      BY <2>1 DEF CountsFit, WillReject, WillResolve
    <3> QED  BY <3>1, <3>2, <3>3 DEF AllFit
  <2>2. PICK t, u : t = Torn(View) /\ u = Untied(View)
    OBVIOUS
  <2>3. IsTorn(View, t) /\ IsUntied(View, u)
    BY <2>2, SeenTwice
  <2>4. AllFit(t)
    BY <1>6, <2>1, <2>3 DEF IsTorn
  <2>5. AllFit(u)
    BY <1>6, <2>1, <2>3 DEF IsUntied
  <2> QED  BY <2>2, <2>4, <2>5 DEF Fits
<1>8. NotifyLinks
  BY <1>2, <1>3 DEF NotifyLinks
<1>9. DerivedTypes
  BY <1>2 DEF DerivedTypes
<1> QED
  BY <1>7, <1>8, <1>9 DEF VInv

LEMMA ViewKeeps == DInv /\ VInv /\ BodyDerived /\ [Next]_vars => VInv'
<1> SUFFICES ASSUME DInv, VInv, BodyDerived, [Next]_vars PROVE VInv'
  OBVIOUS
<1>1. CASE LibraryStep
  BY <1>1, CallUserView, CallSettleView, CallForwardView, CallFilterView,
     CallCountView, EndLoopView, CallLibraryView DEF LibraryStep
<1>2. CASE UserStep
  <2>1. ASSUME NEW d \in Deferreds, MakeDeferred(d) PROVE VInv'
    BY <2>1, MakeDeferredView
  <2>2. ASSUME NEW d \in Deferreds, NEW f \in Fn, NEW a \in Actions, AddUser(d, {a}, f)
        PROVE  VInv'
    BY <2>2, AddUserView
  <2>3. ASSUME NEW d \in Deferreds, NEW f \in Fn, AddUser(d, Settling, f)
        PROVE  VInv'
    BY <2>3, AddUserView
  <2>4. ASSUME NEW d \in Deferreds, NEW a \in Actions, Act(d, a) PROVE VInv'
    BY <2>4, ActView
  <2>5. ASSUME NEW d \in Deferreds, NEW n \in Deferreds, NEW a \in Actions,
               NEW f \in Fn \cup {Off}, Then(d, n, a, f)
        PROVE  VInv'
    BY <2>5, ThenView
  <2>6. ASSUME NEW d \in Deferreds, NEW n \in Deferreds, NEW e \in Deferreds \cup {Off},
               When(d, e, n)
        PROVE  VInv'
    BY <2>6, WhenView
  <2>7. CASE Return
    BY <2>7, ReturnView
  <2>8. CASE ReturnValue
    BY <2>8, ReturnValueView
  <2>9. CASE Throw
    BY <2>9, ThrowView
  <2>10. ASSUME NEW p \in Deferreds, ReturnPromise(p) PROVE VInv'
    BY <2>10, ReturnPromiseView
  <2> QED
    BY <1>2, <2>1, <2>2, <2>3, <2>4, <2>5, <2>6, <2>7, <2>8, <2>9, <2>10 DEF UserStep
<1>3. CASE UNCHANGED vars
  <2>1. /\ UNCHANGED <<owned, derived, cb, calls, remaining, follows, tied, thrown>>
        /\ Made' = Made
    BY <1>3 DEF vars, lists, history, Made
  <2>2. ListLinks' = ListLinks /\ WentNow' = WentNow /\ Things(calls') = Things(calls)
    BY <2>1 DEF ListLinks, WentNow
  <2>3. Fits(View')
    <3>1. Parts(Things(calls'), StackLinks(Things(calls)), FiresIn(Things(calls)),
                ChecksIn(Things(calls)), BodiesIn(Things(calls)))
      BY <2>2 DEF Parts
    <3> QED  BY <2>1, <2>2, <3>1, ViewSame DEF VInv
  <2>4. NotifyLinks' /\ DerivedTypes'
    BY <2>1 DEF VInv, NotifyLinks, DerivedTypes
  <2> QED  BY <2>3, <2>4 DEF VInv
<1> QED
  BY <1>1, <1>2, <1>3 DEF Next

(* When the script has returned: which way a deferred went is its state,   *)
(* nothing of what it called waits, and nothing is on the stack.           *)
LEMMA IdleView ==
  ASSUME DInv, Idle
  PROVE  /\ \A d \in Deferreds, a \in Settling : Went(View, d, a) <=> state[d] = a
         /\ \A y \in View.links : ~Went(View, y.d, y.a)
         /\ View.fires = {} /\ View.checks = {} /\ View.bodies = {}
         /\ View.thrown = FALSE
<1>1. calls = <<>> /\ thrown = FALSE
  BY DEF Idle, DInv, Types
<1>2. Parts(Things(calls), {}, {}, {}, {})
  <2>1. Things(calls) = {}
    BY <1>1, NoThings
  <2> QED  BY <2>1, PartsNone
<1>3. /\ View.links = ListLinks /\ View.fires = {} /\ View.checks = {}
      /\ View.bodies = {} /\ View.went = WentNow /\ View.thrown = FALSE
  BY <1>1, <1>2, ViewFields DEF Parts
<1>4. \A d \in Made : Steady(Made, d, state[d], cb[d])
  BY <1>1, AllSteady DEF DInv
<1>5. \A d \in Deferreds, a \in Settling : ~cb[d][a].firing
  BY <1>1, EmptyStack, ActionFacts DEF DInv, LoopsFit
<1>6. ASSUME NEW d \in Deferreds, NEW a \in Settling
      PROVE  /\ <<d, a>> \in WentNow <=> state[d] = a
             /\ <<d, a>> \in WentNow => cb[d][a].list = <<>>
  <2>1. <<d, a>> \in WentNow <=> cb[d][a].list # Off /\ cb[d][a].fired
    BY DEF WentNow
  <2>2. CASE d \notin Made
    <3>1. /\ cb[d][a].fired = FALSE /\ state[d] = "no"
      BY <2>2, UnmadeLists, ActionFacts DEF DInv, UnmadeFits
    <3> QED  BY <2>1, <3>1, ActionFacts
  <2>3. CASE d \in Made
    <3>1. Steady(Made, d, state[d], cb[d])
      BY <1>4, <2>3
    <3>2. CASE state[d] = "no" /\ Fresh(Made, cb[d][a], d, a)
      BY <2>1, <3>2, ActionFacts DEF Fresh
    <3>3. CASE state[d] = a /\ Done(Made, cb[d][a])
      BY <1>5, <2>1, <3>3 DEF Done
    <3>4. CASE state[d] = Opposite(a) /\ Disused(cb[d][a])
      BY <2>1, <3>4, ActionFacts DEF Disused
    <3> QED  BY <3>1, <3>2, <3>3, <3>4, SteadyKinds
  <2> QED  BY <2>2, <2>3
<1>7. \A d \in Deferreds, a \in Settling : Went(View, d, a) <=> state[d] = a
  BY <1>3, <1>6 DEF Went
<1>8. ASSUME NEW y \in View.links PROVE ~Went(View, y.d, y.a)
  <2>1. y \in Links /\ Waits(cb[y.d][y.a], y.i, y.x)
    BY <1>3 DEF ListLinks
  <2>2. y.d \in Deferreds /\ y.a \in Settling
    BY <2>1 DEF Links
  <2>3. cb[y.d][y.a].list # <<>>
    BY <2>1 DEF Waits
  <2> QED  BY <1>3, <1>6, <2>2, <2>3 DEF Went
<1> QED
  BY <1>3, <1>7, <1>8

(* What is derived is settled by what it goes by, and by nothing else.     *)
LEMMA DerivedAgree ==
  ASSUME DInv, VInv
  PROVE  DerivedFollow
<1> SUFFICES ASSUME Idle, NEW n \in derived \ tied
             PROVE  /\ state[n] = "resolve" <=>
                         \A d \in follows[n] : state[d] = "resolve"
                    /\ state[n] = "reject" <=>
                         \E d \in follows[n] : state[d] = "reject"
  BY DEF DerivedFollow
<1>0. PICK t, u : IsTorn(View, t) /\ IsUntied(View, u) /\ AllFit(t) /\ AllFit(u)
  BY FitsTwice DEF VInv
<1>1. /\ \A d \in Deferreds, a \in Settling : Went(u, d, a) <=> state[d] = a
      /\ \A y \in u.links : ~Went(u, y.d, y.a)
      /\ u.fires = {} /\ u.checks = {} /\ u.bodies = {}
      /\ u.thrown = FALSE
  BY <1>0, IdleView DEF IsUntied, Went
<1>2. /\ Shape(u) /\ SizeFits(u) /\ LinksFit(u) /\ ReasonsFit(u)
      /\ WillReject(u) /\ WillResolve(u)
  BY <1>0, <1>1 DEF AllFit
<1>a. Shape(View)
  BY FitsShape DEF VInv
<1>3. u.follows[n] = follows[n] /\ u.derived = derived \ tied
  BY <1>0, <1>a, ViewFields DEF IsUntied, Shape
<1>4. n \in Deferreds /\ n \in u.derived /\ follows[n] \subseteq Deferreds
  BY <1>2, <1>3 DEF Shape
<1>5. "resolve" \in Settling /\ "reject" \in Settling
      /\ Opposite("resolve") = "reject" /\ Opposite("reject") = "resolve"
  BY DEF Settling, Opposite
<1>6. ~Busy(u, n) /\ \A a : ~ToFire(u, n, a)
  BY <1>1 DEF Busy, ToFire
<1>7. \A d \in Deferreds : ~(Went(u, d, "resolve") /\ Went(u, d, "reject"))
  BY <1>2, <1>5 DEF Shape
<1>8. Went(u, n, "resolve") => \A d \in follows[n] : Went(u, d, "resolve")
  BY <1>2, <1>3, <1>4, <1>5 DEF ReasonsFit, Reason
<1>9. Went(u, n, "reject") => \E d \in follows[n] : Went(u, d, "reject")
  BY <1>2, <1>3, <1>4, <1>5 DEF ReasonsFit, Reason, Dead
<1>10. Over(u, n) => Went(u, n, "resolve") \/ Went(u, n, "reject")
  BY DEF Over, Settling
<1>11. ASSUME NEW d \in follows[n], Went(u, d, "reject") PROVE Went(u, n, "reject")
  <2>1. ~Went(u, d, "resolve")
    BY <1>4, <1>7, <1>11
  <2>2. ~\E y \in LinksOf(u, n) : y.d = d /\ y.a = "reject"
    BY <1>1, <1>11 DEF LinksOf
  <2>3. Over(u, n)
    BY <1>2, <1>3, <1>4, <1>6, <2>1, <2>2 DEF WillReject
  <2> QED  BY <1>8, <1>10, <2>1, <2>3
<1>12. ASSUME \A d \in follows[n] : Went(u, d, "resolve") PROVE Went(u, n, "resolve")
  <2>1. ~Dead(u, n)
    BY <1>3, <1>4, <1>7, <1>12 DEF Dead
  <2>2. \A y \in LinksOf(u, n) : ~(y.d \in follows[n] /\ y.a = "resolve")
    BY <1>1, <1>12 DEF LinksOf
  <2>3. ~(u.remaining[n] > 0)
    <3>1. PICK r \in 0 .. 2 : /\ Size(Tokens(u, n), r) /\ u.remaining[n] \in 0 .. 2
                              /\ r = u.remaining[n]
      BY <1>1, <1>2, <1>4, <2>1 DEF SizeFits
    <3>2. Tokens(u, n) = {}
      <4> SUFFICES ASSUME NEW y \in Tokens(u, n) PROVE FALSE
        OBVIOUS
      <4>1. y \in LinksOf(u, n) /\ y \in u.links /\ y.x.d = n /\ Counts(y.x) /\ Live(u, y)
        BY DEF Tokens, LinksOf
      <4>2. y.a = "resolve"
        BY <1>2, <4>1 DEF Shape
      <4>3. y.d \in follows[n]
        BY <1>2, <1>3, <4>1 DEF LinksFit
      <4> QED  BY <2>2, <4>1, <4>2, <4>3
    <3> QED  BY <3>1, <3>2 DEF Size
  <2>4. ~\E y \in LinksOf(u, n) :
            y.d \in u.follows[n] /\ y.a = "resolve" /\ ~Counts(y.x)
    BY <1>3, <2>2
  <2>5. n \notin u.checks
    BY <1>1
  <2>6. Over(u, n)
    BY <1>2, <1>4, <1>6, <2>1, <2>3, <2>4, <2>5 DEF WillResolve
  <2>7. ~Went(u, n, "reject")
    BY <1>3, <1>9, <2>1 DEF Dead
  <2> QED  BY <1>10, <2>6, <2>7
<1>13. \A d \in follows[n] : /\ Went(u, d, "resolve") <=> state[d] = "resolve"
                             /\ Went(u, d, "reject") <=> state[d] = "reject"
  BY <1>1, <1>4, <1>5
<1>14. /\ Went(u, n, "resolve") <=> state[n] = "resolve"
       /\ Went(u, n, "reject") <=> state[n] = "reject"
  BY <1>1, <1>4, <1>5
<1>15. state[n] = "resolve" <=> \A d \in follows[n] : state[d] = "resolve"
  BY <1>8, <1>12, <1>13, <1>14
<1>16. state[n] = "reject" <=> \E d \in follows[n] : state[d] = "reject"
  BY <1>9, <1>11, <1>13, <1>14
<1> QED
  BY <1>15, <1>16

-----------------------------------------------------------------------------
(* The notifications.  What a list for the progress has called, h, are     *)
(* pairs of a function and a value, of the n values that there were; the   *)
(* functions of un were not used yet.                                      *)
HistoryFits(h, n, un) ==
  /\ \A i \in DOMAIN h : h[i][2] \in 1 .. n /\ h[i][1] \notin un
  /\ \A i, j \in DOMAIN h : i < j /\ h[i][1] = h[j][1] => h[i][2] < h[j][2]

(* The value of the loop is not less than what was told, and what waits is *)
(* greater and in order.                                                   *)
ValuesFit(c, h, n) ==
  /\ c.memory = Off => h = <<>> /\ ~c.firing
  /\ c.memory # Off => /\ c.memory \in 1 .. n
                       /\ \A i \in DOMAIN h : h[i][2] <= c.memory
  /\ c.waiting # Off =>
       /\ ~c.firing => c.waiting = <<>>
       /\ \A i \in DOMAIN c.waiting :
            c.waiting[i] \in 1 .. n /\ c.memory < c.waiting[i]
       /\ \A i, j \in DOMAIN c.waiting : i < j => c.waiting[i] < c.waiting[j]

(* A function is in the list once.                                         *)
IsUser(x) == x.does = "user"
UsersFit(l, un) ==
  /\ \A k \in DOMAIN l : IsUser(l[k]) => l[k].f \notin un
  /\ \A k, j \in DOMAIN l :
       IsUser(l[k]) /\ IsUser(l[j]) /\ l[k].f = l[j].f => k = j

(* The functions that are still ahead of the loop were not told its value. *)
TurnFits(c, h) ==
  c.firing =>
    \A k \in DOMAIN c.list : IsUser(c.list[k]) /\ k > c.firingIndex =>
      \A i \in DOMAIN h : h[i][1] = c.list[k].f => h[i][2] < c.memory

Tells(c, h, n, un) ==
  /\ HistoryFits(h, n, un)
  /\ c.list # Off => ValuesFit(c, h, n) /\ UsersFit(c.list, un) /\ TurnFits(c, h)

LEMMA TellsGrow ==
  ASSUME NEW c, NEW h, NEW n \in Nat, NEW un, Tells(c, h, n, un),
         NEW m \in Nat, n <= m, NEW vn, vn \subseteq un
  PROVE  Tells(c, h, m, vn)
<1>0. \A v \in 1 .. n : v \in 1 .. m
  OBVIOUS
<1>1. HistoryFits(h, m, vn)
  BY <1>0 DEF Tells, HistoryFits
<1>2. ASSUME c.list # Off
      PROVE  ValuesFit(c, h, m) /\ UsersFit(c.list, vn) /\ TurnFits(c, h)
  <2>1. ValuesFit(c, h, n) /\ UsersFit(c.list, un) /\ TurnFits(c, h)
    BY <1>2 DEF Tells
  <2>2. ValuesFit(c, h, m)
    BY <1>0, <2>1 DEF ValuesFit
  <2>3. UsersFit(c.list, vn)
    BY <2>1 DEF UsersFit
  <2> QED  BY <2>1, <2>2, <2>3
<1> QED
  BY <1>1, <1>2 DEF Tells

(* The loop passes something.                                              *)
LEMMA TellsAdvanced ==
  ASSUME NEW M, NEW c \in Lists(M), NEW h, NEW n \in Nat, NEW un,
         Tells(c, h, n, un), NEW e, IsAdvanced(M, c, e)
  PROVE  Tells(e, h, n, un)
<1>1. /\ e.list = c.list /\ e.firing = c.firing /\ e.memory = c.memory
      /\ e.waiting = c.waiting /\ e.firingIndex = c.firingIndex + 1
      /\ c.firingIndex \in Nat
  BY DEF IsAdvanced, Lists
<1>2. ASSUME e.list # Off
      PROVE  ValuesFit(e, h, n) /\ UsersFit(e.list, un) /\ TurnFits(e, h)
  <2>1. ValuesFit(c, h, n) /\ UsersFit(c.list, un) /\ TurnFits(c, h)
    BY <1>1, <1>2 DEF Tells
  <2>2. ValuesFit(e, h, n)
    BY <1>1, <2>1 DEF ValuesFit
  <2>3. TurnFits(e, h)
    <3>1. SUFFICES ASSUME e.firing, NEW k \in DOMAIN e.list, IsUser(e.list[k]),
                          k > e.firingIndex
                   PROVE  \A i \in DOMAIN h : h[i][1] = e.list[k].f => h[i][2] < e.memory
      BY DEF TurnFits
    <3>2. c.list \in Seq(Firsts(M) \cup Others(M))
      BY <1>1, <1>2 DEF Lists
    <3>3. k \in Nat
      BY <1>1, <3>2
    <3>4. k > c.firingIndex
      BY <1>1, <3>1, <3>3
    <3> QED  BY <1>1, <2>1, <3>1, <3>4 DEF TurnFits
  <2> QED  BY <1>1, <2>1, <2>2, <2>3
<1> QED
  BY <1>2 DEF Tells

(* It calls a function of the user.                                        *)
LEMMA TellsCalled ==
  ASSUME NEW M, NEW c \in Lists(M), NEW S, NEW h \in Seq(S), NEW n \in Nat, NEW un,
         Tells(c, h, n, un), NEW e, IsAdvanced(M, c, e), c.firing, c.list # Off,
         c.firingIndex + 1 \in DOMAIN c.list, NEW x, x = c.list[c.firingIndex + 1],
         IsUser(x), NEW u \in S, u = <<x.f, c.memory>>
  PROVE  Tells(e, Append(h, u), n, un)
<1> DEFINE g == Append(h, u)
<1>1. /\ e.list = c.list /\ e.firing = c.firing /\ e.memory = c.memory
      /\ e.waiting = c.waiting /\ e.firingIndex = c.firingIndex + 1
      /\ c.firingIndex \in Nat
  BY DEF IsAdvanced, Lists
<1>2. HistoryFits(h, n, un) /\ ValuesFit(c, h, n) /\ UsersFit(c.list, un) /\ TurnFits(c, h)
  BY DEF Tells
<1>3. /\ Len(h) \in Nat /\ DOMAIN h = 1 .. Len(h) /\ DOMAIN g = 1 .. Len(h) + 1
      /\ \A i \in 1 .. Len(h) : g[i] = h[i]
      /\ g[Len(h) + 1] = u
  OBVIOUS
<1>4. u[1] = x.f /\ u[2] = c.memory
  OBVIOUS
<1>5. c.memory # Off /\ c.memory \in 1 .. n
  BY <1>2 DEF ValuesFit
<1>6. x.f \notin un
  BY <1>2 DEF UsersFit
<1>7. \A i \in DOMAIN h : h[i][1] = x.f => h[i][2] < c.memory
  BY <1>1, <1>2 DEF TurnFits
<1>8. \A i \in DOMAIN h : h[i][2] \in 1 .. n /\ h[i][2] <= c.memory
  BY <1>2, <1>5 DEF HistoryFits, ValuesFit
<1> HIDE DEF g
<1>9. HistoryFits(g, n, un)
  <2>1. \A i \in DOMAIN g : g[i][2] \in 1 .. n /\ g[i][1] \notin un
    BY <1>2, <1>3, <1>4, <1>5, <1>6 DEF HistoryFits
  <2>2. ASSUME NEW i \in DOMAIN g, NEW j \in DOMAIN g, i < j, g[i][1] = g[j][1]
        PROVE  g[i][2] < g[j][2]
    <3>1. CASE j \in 1 .. Len(h)
      <4>1. i \in 1 .. Len(h)
        BY <1>3, <2>2, <3>1
      <4> QED  BY <1>2, <1>3, <2>2, <3>1, <4>1 DEF HistoryFits
    <3>2. CASE j \notin 1 .. Len(h)
      <4>1. j = Len(h) + 1
        BY <1>3, <3>2
      <4>2. i \in 1 .. Len(h)
        BY <1>3, <2>2, <4>1
      <4> QED  BY <1>3, <1>4, <1>7, <2>2, <4>1, <4>2
    <3> QED  BY <3>1, <3>2
  <2> QED  BY <2>1, <2>2 DEF HistoryFits
<1>10. ValuesFit(e, g, n)
  <2>1. \A i \in DOMAIN g : g[i][2] <= e.memory
    BY <1>1, <1>3, <1>4, <1>5, <1>8
  <2> QED  BY <1>1, <1>2, <1>5, <2>1 DEF ValuesFit
<1>11. TurnFits(e, g)
  <2>1. SUFFICES ASSUME NEW k \in DOMAIN e.list, IsUser(e.list[k]), k > e.firingIndex,
                        NEW i \in DOMAIN g, g[i][1] = e.list[k].f
                 PROVE  g[i][2] < e.memory
    BY DEF TurnFits
  <2>2. c.list \in Seq(Firsts(M) \cup Others(M))
    BY DEF Lists
  <2>3. k \in Nat /\ k > c.firingIndex /\ k # c.firingIndex + 1 /\ k \in DOMAIN c.list
    BY <1>1, <2>1, <2>2
  <2>4. c.list[k].f # x.f
    BY <1>1, <1>2, <2>1, <2>3 DEF UsersFit
  <2>5. i \in 1 .. Len(h)
    BY <1>1, <1>3, <1>4, <2>1, <2>4
  <2> QED  BY <1>1, <1>2, <1>3, <2>1, <2>3, <2>5 DEF TurnFits
<1> QED
  BY <1>1, <1>2, <1>9, <1>10, <1>11 DEF Tells, g

(* The list is empty, disabled or locked.                                  *)
LEMMA TellsOff ==
  ASSUME NEW c, NEW h, NEW n, NEW un, Tells(c, h, n, un), NEW e, e.list = Off
  PROVE  Tells(e, h, n, un)
BY DEF Tells

LEMMA TellsLocked ==
  ASSUME NEW M, NEW c \in Lists(M), NEW h, NEW n \in Nat, NEW un,
         Tells(c, h, n, un)
  PROVE  Tells(Locked(c), h, n, un)
<1>1. CASE c.memory = Off
  <2>1. Locked(c) = [c EXCEPT !.list = Off, !.waiting = Off, !.memory = Off]
    BY <1>1 DEF Locked, Disabled
  <2>2. Locked(c).list = Off
    BY <2>1 DEF Lists
  <2> QED  BY <2>2, TellsOff
<1>2. CASE c.memory # Off
  <2>1. PICK e : e = Locked(c)
    OBVIOUS
  <2>2. /\ e.list = c.list /\ e.memory = c.memory /\ e.waiting = Off
        /\ e.firing = c.firing /\ e.firingIndex = c.firingIndex
    BY <1>2, <2>1 DEF Lists, Locked
  <2>3. ASSUME e.list # Off
        PROVE  ValuesFit(e, h, n) /\ UsersFit(e.list, un) /\ TurnFits(e, h)
    <3>1. ValuesFit(c, h, n) /\ UsersFit(c.list, un) /\ TurnFits(c, h)
      BY <2>2, <2>3 DEF Tells
    <3> QED  BY <2>2, <3>1 DEF ValuesFit, TurnFits
  <2>4. Tells(e, h, n, un)
    BY <2>3 DEF Tells
  <2> QED  BY <2>1, <2>4
<1> QED
  BY <1>1, <1>2

(* It is fired with the next value.                                        *)
LEMMA TellsFired ==
  ASSUME NEW M, NEW c \in Lists(M), NEW h, NEW n \in Nat, NEW un,
         Tells(c, h, n, un), IndexFits(c), MayFire(c)
  PROVE  Tells(Fired(c, n + 1), h, n + 1, un) /\ (~c.firing => Fired(c, n + 1).memory = n + 1)
<1>1. PICK v \in Nat : v = n + 1
  OBVIOUS
<1>2. /\ c.list # Off /\ HistoryFits(h, n, un) /\ ValuesFit(c, h, n)
      /\ UsersFit(c.list, un) /\ TurnFits(c, h)
  BY DEF MayFire, Tells
<1>3. PICK e : e = Fired(c, v)
  OBVIOUS
<1>4. \A k \in 1 .. n : k \in 1 .. v /\ k < v
  BY <1>1
<1>5. HistoryFits(h, v, un)
  BY <1>2, <1>4 DEF HistoryFits
<1>6. CASE ~c.firing
  <2>1. /\ e.list = c.list /\ e.waiting = c.waiting /\ e.memory = v
        /\ e.firing = TRUE
    <3>1. e = Started(c, v)
      BY <1>3, <1>6, FiredFacts
    <3>2. /\ Started(c, v).list = c.list /\ Started(c, v).waiting = c.waiting
          /\ Started(c, v).memory = v /\ Started(c, v).firing = TRUE
      BY <1>2, StartedFacts
    <3> QED  BY <3>1, <3>2
  <2>2. v # Off
    BY OffFacts
  <2>3. ValuesFit(e, h, v)
    <3>1. \A i \in DOMAIN h : h[i][2] <= v
      BY <1>2, <1>4 DEF HistoryFits
    <3>2. e.waiting # Off => e.waiting = <<>>
      BY <1>2, <1>6, <2>1 DEF ValuesFit
    <3>3. v \in 1 .. v
      BY <1>1
    <3> QED  BY <2>1, <2>2, <3>1, <3>2, <3>3 DEF ValuesFit
  <2>4. TurnFits(e, h)
    <3>1. \A i \in DOMAIN h : h[i][2] < v
      BY <1>2, <1>4 DEF HistoryFits
    <3> QED  BY <2>1, <3>1 DEF TurnFits
  <2> QED  BY <1>1, <1>2, <1>3, <1>5, <2>1, <2>3, <2>4 DEF Tells
<1>7. CASE c.firing
  <2>1. c.waiting \in Seq(Nat) /\ c.waiting # Off
    BY <1>7 DEF IndexFits, MayFire, Lists
  <2>2. /\ e.list = c.list /\ e.waiting = Append(c.waiting, v) /\ e.memory = c.memory
        /\ e.firing = c.firing /\ e.firingIndex = c.firingIndex
    BY <1>3, <1>7 DEF Lists, Fired
  <2>3. PICK w : w = e.waiting
    OBVIOUS
  <2>4. /\ DOMAIN c.waiting = 1 .. Len(c.waiting) /\ DOMAIN w = 1 .. Len(c.waiting) + 1
        /\ Len(c.waiting) \in Nat
        /\ \A i \in 1 .. Len(c.waiting) : w[i] = c.waiting[i]
        /\ w[Len(c.waiting) + 1] = v
    BY <2>1, <2>2, <2>3
  <2>5. c.memory # Off /\ c.memory \in 1 .. n /\ c.memory \in 1 .. v /\ c.memory < v
    BY <1>2, <1>4, <1>7 DEF ValuesFit
  <2>6. \A i \in 1 .. Len(c.waiting) : c.waiting[i] \in 1 .. n /\ c.memory < c.waiting[i]
    BY <1>2, <2>1, <2>4 DEF ValuesFit
  <2>7. \A i, j \in 1 .. Len(c.waiting) : i < j => c.waiting[i] < c.waiting[j]
    BY <1>2, <2>1, <2>4 DEF ValuesFit
  <2>8. \A i \in DOMAIN w : w[i] \in 1 .. v /\ c.memory < w[i]
    BY <1>1, <1>4, <2>4, <2>5, <2>6
  <2>9. \A i, j \in DOMAIN w : i < j => w[i] < w[j]
    <3>1. SUFFICES ASSUME NEW i \in DOMAIN w, NEW j \in DOMAIN w, i < j
                   PROVE  w[i] < w[j]
      OBVIOUS
    <3>2. i \in 1 .. Len(c.waiting)
      BY <2>4, <3>1
    <3>3. CASE j \in 1 .. Len(c.waiting)
      BY <2>4, <2>7, <3>1, <3>2, <3>3
    <3>4. CASE j = Len(c.waiting) + 1
      BY <1>4, <2>4, <2>6, <3>2, <3>4
    <3> QED  BY <2>4, <3>3, <3>4
  <2>10. ValuesFit(e, h, v)
    <3>1. \A i \in DOMAIN h : h[i][2] <= e.memory
      BY <1>2, <2>2, <2>5 DEF ValuesFit
    <3> QED  BY <1>7, <2>2, <2>3, <2>5, <2>8, <2>9, <3>1 DEF ValuesFit
  <2>11. TurnFits(e, h)
    BY <1>2, <2>2 DEF TurnFits
  <2>12. Tells(e, h, v, un)
    BY <1>2, <1>5, <2>2, <2>10, <2>11 DEF Tells
  <2> QED  BY <1>1, <1>3, <1>7, <2>12
<1> QED
  BY <1>6, <1>7

(* A function that was not told anything is added, or a link.              *)
Unheard(c, h, f) ==
  /\ \A i \in DOMAIN h : h[i][1] # f
  /\ c.list # Off => \A k \in DOMAIN c.list : IsUser(c.list[k]) => c.list[k].f # f

TellsMore(c, h, n, un, x, e) ==
  /\ e.list = Append(c.list, x) /\ e.memory = c.memory /\ e.waiting = c.waiting
  /\ \/ e.firing = c.firing /\ e.firingIndex = c.firingIndex
     \/ e.firing = TRUE /\ c.firing = FALSE /\ c.memory # Off
        /\ e.firingIndex = Len(c.list)
  /\ IsUser(x) => x.f \notin un /\ Unheard(c, h, x.f)

LEMMA TellsAdded ==
  ASSUME NEW M, NEW c \in Lists(M), NEW h, NEW n \in Nat, NEW un,
         Tells(c, h, n, un), IndexFits(c), c.list # Off, NEW x, NEW e,
         TellsMore(c, h, n, un, x, e)
  PROVE  Tells(e, h, n, un)
<1>1. /\ HistoryFits(h, n, un) /\ ValuesFit(c, h, n)
      /\ UsersFit(c.list, un) /\ TurnFits(c, h)
  BY DEF Tells
<1>2. PICK l : l = e.list
  OBVIOUS
<1>3. /\ c.list \in Seq(Firsts(M) \cup Others(M)) /\ c.firingIndex \in Nat
  BY DEF Lists
<1>4. l = Append(c.list, x)
  BY <1>2 DEF TellsMore
<1>5. /\ DOMAIN c.list = 1 .. Len(c.list) /\ DOMAIN l = 1 .. Len(c.list) + 1
      /\ Len(c.list) \in Nat
      /\ \A k \in 1 .. Len(c.list) : l[k] = c.list[k]
      /\ l[Len(c.list) + 1] = x
  BY <1>3, <1>4
<1>6. IsUser(x) => /\ x.f \notin un
                   /\ \A k \in DOMAIN c.list : IsUser(c.list[k]) => c.list[k].f # x.f
                   /\ \A i \in DOMAIN h : h[i][1] # x.f
  BY DEF TellsMore, Unheard
<1>7. UsersFit(l, un)
  <2>1. ASSUME NEW k \in DOMAIN l, IsUser(l[k])
        PROVE  l[k].f \notin un
    <3>1. CASE k \in 1 .. Len(c.list)
      <4>1. k \in DOMAIN c.list /\ l[k] = c.list[k]
        BY <1>5, <3>1
      <4>2. \A j \in DOMAIN c.list : IsUser(c.list[j]) => c.list[j].f \notin un
        BY <1>1 DEF UsersFit
      <4> QED  BY <2>1, <4>1, <4>2
    <3>2. CASE k = Len(c.list) + 1
      BY <1>5, <1>6, <2>1, <3>2
    <3> QED  BY <1>5, <3>1, <3>2
  <2>2. ASSUME NEW k \in DOMAIN l, NEW j \in DOMAIN l, IsUser(l[k]), IsUser(l[j]),
               l[k].f = l[j].f
        PROVE  k = j
    <3>1. CASE k \in 1 .. Len(c.list) /\ j \in 1 .. Len(c.list)
      BY <1>1, <1>5, <2>2, <3>1 DEF UsersFit
    <3>2. CASE k \in 1 .. Len(c.list) /\ j = Len(c.list) + 1
      BY <1>5, <1>6, <2>2, <3>2
    <3>3. CASE k = Len(c.list) + 1 /\ j \in 1 .. Len(c.list)
      BY <1>5, <1>6, <2>2, <3>3
    <3> QED  BY <1>5, <3>1, <3>2, <3>3
  <2> QED  BY <2>1, <2>2 DEF UsersFit
<1>8. ValuesFit(e, h, n)
  <2>1. CASE e.firing = c.firing
    BY <1>1, <2>1 DEF ValuesFit, TellsMore
  <2>2. CASE e.firing = TRUE /\ c.firing = FALSE /\ c.memory # Off
    BY <1>1, <2>2 DEF ValuesFit, TellsMore
  <2> QED  BY <2>1, <2>2 DEF TellsMore
<1>9. TurnFits(e, h)
  <2>1. SUFFICES ASSUME e.firing, NEW k \in DOMAIN l, IsUser(l[k]), k > e.firingIndex,
                        NEW i \in DOMAIN h, h[i][1] = l[k].f
                 PROVE  h[i][2] < e.memory
    BY <1>2 DEF TurnFits
  <2>2. k \in 1 .. Len(c.list)
    BY <1>5, <1>6, <2>1
  <2>3. e.firing = c.firing /\ e.firingIndex = c.firingIndex
    <3>1. ~(k > Len(c.list))
      BY <1>5, <2>2
    <3>2. e.firingIndex # Len(c.list)
      BY <2>1, <3>1
    <3> QED  BY <3>2 DEF TellsMore
  <2>4. c.list[k] = l[k] /\ k \in DOMAIN c.list /\ e.memory = c.memory
    BY <1>5, <2>2 DEF TellsMore
  <2> QED  BY <1>1, <2>1, <2>3, <2>4 DEF TurnFits
<1> QED
  BY <1>1, <1>2, <1>7, <1>8, <1>9 DEF Tells

(* The next value that waits is fired.                                     *)
LEMMA TellsAgain ==
  ASSUME NEW M, NEW c \in Lists(M), NEW h, NEW n \in Nat, NEW un,
         Tells(c, h, n, un), IndexFits(c), FiresAgain(c), c.firing
  PROVE  Tells(Again(c), h, n, un) /\ Again(c).memory = Head(c.waiting)
<1>1. /\ c.waiting \in Seq(Nat) /\ c.waiting # <<>> /\ c.waiting # Off /\ c.list # Off
  BY DEF FiresAgain, Lists
<1>2. /\ HistoryFits(h, n, un) /\ ValuesFit(c, h, n)
      /\ UsersFit(c.list, un) /\ TurnFits(c, h)
  BY <1>1 DEF Tells
<1>3. PICK v \in Nat : v = Head(c.waiting)
  BY <1>1
<1>4. PICK w \in Seq(Nat) : w = Tail(c.waiting)
  <2>1. Tail(c.waiting) \in Seq(Nat)
    BY <1>1
  <2> QED  BY <2>1
<1>5. PICK b : b = [c EXCEPT !.waiting = w]
  OBVIOUS
<1>6. b.list = c.list /\ b.waiting = w /\ b \in Lists(M)
  BY <1>5 DEF Lists
<1>7. Again(c) = Started(b, v)
  BY <1>3, <1>4, <1>5 DEF Again
<1>8. PICK e : e = Started(b, v)
  OBVIOUS
<1>9. b.list # Off
  BY <1>1, <1>6
<1>10. /\ Started(b, v).list = b.list /\ Started(b, v).waiting = b.waiting
       /\ Started(b, v).memory = v /\ Started(b, v).firing = TRUE
  <2>1. b \in Lists(M) /\ b.list # Off /\ v \in Nat
    BY <1>3, <1>6, <1>9
  <2> QED  BY ONLY <2>1, StartedFacts
<1>11. e.list = c.list /\ e.waiting = w /\ e.memory = v /\ e.firing = TRUE
  BY <1>6, <1>8, <1>10
<1>12. /\ Len(c.waiting) \in Nat /\ DOMAIN c.waiting = 1 .. Len(c.waiting)
       /\ 1 \in DOMAIN c.waiting /\ c.waiting[1] = v
       /\ \A i \in DOMAIN w : i \in Nat /\ i + 1 \in DOMAIN c.waiting /\ w[i] = c.waiting[i + 1] /\ 1 < i + 1
  BY <1>1, <1>3, <1>4
<1>13. v \in 1 .. n /\ c.memory < v /\ c.memory # Off /\ c.memory \in 1 .. n
  BY <1>1, <1>2, <1>12 DEF ValuesFit
<1>14. \A i \in DOMAIN w : w[i] \in 1 .. n /\ v < w[i]
  BY <1>1, <1>2, <1>12 DEF ValuesFit
<1>15. ASSUME NEW i \in DOMAIN w, NEW j \in DOMAIN w, i < j
       PROVE  w[i] < w[j]
  <2>1. i + 1 < j + 1
    BY <1>12, <1>15
  <2> QED  BY <1>1, <1>2, <1>12, <2>1 DEF ValuesFit
<1>16. \A i \in DOMAIN h : h[i][2] \in 1 .. n /\ h[i][2] <= c.memory
  BY <1>2, <1>13 DEF HistoryFits, ValuesFit
<1>17. \A i \in DOMAIN h : h[i][2] < v /\ h[i][2] <= v
  BY <1>13, <1>16
<1>18. v # Off
  BY OffFacts
<1>19. ValuesFit(e, h, n)
  BY <1>11, <1>13, <1>14, <1>15, <1>17, <1>18 DEF ValuesFit
<1>20. TurnFits(e, h)
  BY <1>11, <1>17 DEF TurnFits
<1>21. Tells(e, h, n, un)
  BY <1>2, <1>11, <1>19, <1>20 DEF Tells
<1> QED
  BY <1>3, <1>7, <1>8, <1>11, <1>21

(* Nothing waits any more.                                                 *)
LEMMA TellsEnded ==
  ASSUME NEW M, NEW c \in Lists(M), NEW h, NEW n \in Nat, NEW un,
         Tells(c, h, n, un), ~FiresAgain(c)
  PROVE  Tells(Ended(c), h, n, un)
<1>1. PICK e : e = Ended(c)
  OBVIOUS
<1>2. PICK q : q = [c EXCEPT !.firing = FALSE]
  OBVIOUS
<1>3. /\ q.list = c.list /\ q.firing = FALSE /\ q.memory = c.memory
      /\ q.waiting = c.waiting /\ q \in Lists(M)
  BY <1>2 DEF Lists
<1>4. e = IF c.list = Off \/ c.waiting # Off THEN q
          ELSE IF c.memory # Off THEN [q EXCEPT !.list = <<>>]
          ELSE Disabled(q)
  BY <1>1, <1>2 DEF Ended
<1>5. CASE c.list = Off
  BY <1>1, <1>3, <1>4, <1>5, TellsOff
<1>6. CASE c.list # Off
  <2>1. /\ HistoryFits(h, n, un) /\ ValuesFit(c, h, n)
        /\ UsersFit(c.list, un) /\ TurnFits(c, h)
    BY <1>6 DEF Tells
  <2>2. CASE c.waiting # Off
    <3>1. e = q /\ c.waiting = <<>>
      BY <1>4, <1>6, <2>2 DEF FiresAgain
    <3>2. ValuesFit(e, h, n)
      BY <1>3, <2>1, <3>1 DEF ValuesFit
    <3>3. TurnFits(e, h)
      BY <1>3, <3>1 DEF TurnFits
    <3>4. Tells(e, h, n, un)
      BY <1>3, <2>1, <3>1, <3>2, <3>3 DEF Tells
    <3> QED  BY <1>1, <3>4
  <2>3. CASE c.waiting = Off /\ c.memory # Off
    <3>1. e = [q EXCEPT !.list = <<>>]
      BY <1>4, <1>6, <2>3
    <3>2. /\ e.list = <<>> /\ e.firing = FALSE /\ e.memory = c.memory
          /\ e.waiting = c.waiting
      BY <1>3, <3>1 DEF Lists
    <3>3. ValuesFit(e, h, n)
      BY <2>1, <2>3, <3>2 DEF ValuesFit
    <3>4. TurnFits(e, h) /\ UsersFit(e.list, un)
      BY <3>2 DEF TurnFits, UsersFit
    <3>5. Tells(e, h, n, un)
      BY <2>1, <3>3, <3>4 DEF Tells
    <3> QED  BY <1>1, <3>5
  <2>4. CASE c.waiting = Off /\ c.memory = Off
    <3>1. e = [q EXCEPT !.list = Off, !.waiting = Off, !.memory = Off]
      BY <1>4, <1>6, <2>4 DEF Disabled
    <3>2. e.list = Off
      BY <1>3, <3>1 DEF Lists
    <3> QED  BY <1>1, <3>2, TellsOff
  <2> QED  BY <2>2, <2>3, <2>4
<1> QED
  BY <1>5, <1>6

(* A new list.                                                             *)
LEMMA TellsNew ==
  ASSUME NEW d, NEW n, NEW un
  PROVE  Tells(NewLists(d)["notify"], <<>>, n, un)
<1>1. PICK e : e = NewList(FALSE)
  OBVIOUS
<1>2. e.list = <<>> /\ e.memory = Off /\ e.waiting = <<>> /\ e.firing = FALSE
  BY <1>1 DEF NewList
<1>3. NewLists(d)["notify"] = e
  BY <1>1, ActionFacts DEF NewLists
<1>4. HistoryFits(<<>>, n, un) /\ UsersFit(<<>>, un)
  BY DEF HistoryFits, UsersFit
<1>5. ValuesFit(e, <<>>, n) /\ TurnFits(e, <<>>)
  BY <1>2 DEF ValuesFit, TurnFits
<1> QED
  BY <1>2, <1>3, <1>4, <1>5 DEF Tells

(* The invariant of the notifications.  Those of a deferred that the user  *)
(* made come from the user alone: what is linked is derived.               *)
TellsAll ==
  \A d \in owned : Tells(cb[d]["notify"], called[d]["notify"], notified, unused)

LoopAt(s, d, v) == \E i \in DOMAIN s : IsLoop(s[i], d, "notify") /\ s[i].v = v
LoopsTell ==
  \A d \in owned, v \in Nat :
    LoopAt(calls, d, v) /\ cb[d]["notify"].list # Off => cb[d]["notify"].memory = v

DerivedLinks(l, D) ==
  l # Off => \A k \in DOMAIN l : IsLink(l[k]) => l[k].d \in D
DerivedThing(t, D) ==
  IF t[2] = 0 THEN t[3].d \in D
  ELSE /\ t[3].call = "fire" /\ t[3].a = "notify" => t[3].d \in D
       /\ t[3].call = "add" /\ t[3].a = "notify" /\ IsLink(t[3].f) => t[3].f.d \in D
DerivedTold ==
  /\ \A d \in Made : DerivedLinks(cb[d]["notify"].list, derived)
  /\ \A t \in Things(calls) : DerivedThing(t, derived)

(* What is still to be added was not told anything.                        *)
ToTell(t) ==
  t[2] # 0 /\ t[3].call = "add" /\ t[3].a = "notify" /\ IsUser(t[3].f) /\ t[3].d \in owned
AddsTell ==
  /\ \A t \in Things(calls) : ToTell(t) =>
       /\ t[3].f.f \notin unused
       /\ Unheard(cb[t[3].d]["notify"], called[t[3].d]["notify"], t[3].f.f)
  /\ \A t, u \in Things(calls) :
       ToTell(t) /\ ToTell(u) /\ t[3].d = u[3].d /\ t[3].f.f = u[3].f.f => t = u

NInv == TellsAll /\ LoopsTell /\ DerivedTold /\ AddsTell

(* A list for the progress is as it was, or tells what it has to.          *)
CellStays(d) ==
  /\ cb'[d]["notify"] = cb[d]["notify"] /\ called'[d]["notify"] = called[d]["notify"]
  /\ \A v \in Nat : LoopAt(calls', d, v) => LoopAt(calls, d, v)
Waiting(d, f) ==
  \E t \in Things(calls') :
    t \in Things(calls) /\ ToTell(t) /\ t[3].d = d /\ t[3].f.f = f
CellTells(d) ==
  /\ Tells(cb'[d]["notify"], called'[d]["notify"], notified', unused')
  /\ \A v \in Nat : LoopAt(calls', d, v) /\ cb'[d]["notify"].list # Off =>
                      cb'[d]["notify"].memory = v
  /\ \A f : Waiting(d, f) /\ Unheard(cb[d]["notify"], called[d]["notify"], f) =>
              Unheard(cb'[d]["notify"], called'[d]["notify"], f)

(* What a step does to the lists for the progress and to the stack.        *)
TellStep ==
  /\ owned' = owned /\ derived \subseteq derived' /\ unused' \subseteq unused
  /\ notified \in Nat /\ notified' \in Nat /\ notified <= notified'
  /\ \A e \in owned : CellStays(e) \/ CellTells(e)
  /\ \A e \in Made' :
       \/ e \in Made /\ cb'[e]["notify"].list = cb[e]["notify"].list
       \/ DerivedLinks(cb'[e]["notify"].list, derived')
  /\ \A t \in Things(calls') :
       t \in Things(calls) \/ (DerivedThing(t, derived') /\ ~ToTell(t))

LEMMA TellStepKeeps ==
  ASSUME NInv, TellStep
  PROVE  NInv'
<1>1. ASSUME NEW d \in owned
      PROVE  Tells(cb'[d]["notify"], called'[d]["notify"], notified', unused')
  <2>1. CASE CellTells(d)
    BY <2>1 DEF CellTells
  <2>2. CASE CellStays(d)
    <3>1. Tells(cb[d]["notify"], called[d]["notify"], notified, unused)
      BY DEF NInv, TellsAll
    <3>2. Tells(cb[d]["notify"], called[d]["notify"], notified', unused')
      BY <3>1, TellsGrow DEF TellStep
    <3> QED  BY <2>2, <3>2 DEF CellStays
  <2> QED  BY <2>1, <2>2 DEF TellStep
<1>2. TellsAll'
  BY <1>1 DEF TellsAll, TellStep
<1>3. ASSUME NEW d \in owned, NEW v \in Nat, LoopAt(calls', d, v),
             cb'[d]["notify"].list # Off
      PROVE  cb'[d]["notify"].memory = v
  <2>1. CASE CellTells(d)
    BY <1>3, <2>1 DEF CellTells
  <2>2. CASE CellStays(d)
    BY <1>3, <2>2 DEF CellStays, NInv, LoopsTell
  <2> QED  BY <2>1, <2>2 DEF TellStep
<1>4. LoopsTell'
  BY <1>3 DEF LoopsTell, TellStep
<1>5. DerivedTold'
  <2>1. ASSUME NEW d \in Made'
        PROVE  DerivedLinks(cb'[d]["notify"].list, derived')
    <3>1. CASE d \in Made /\ cb'[d]["notify"].list = cb[d]["notify"].list
      <4>1. DerivedLinks(cb[d]["notify"].list, derived)
        BY <3>1 DEF NInv, DerivedTold
      <4> QED  BY <3>1, <4>1 DEF DerivedLinks, TellStep
    <3> QED  BY <2>1, <3>1 DEF TellStep
  <2>2. ASSUME NEW t \in Things(calls')
        PROVE  DerivedThing(t, derived')
    <3>1. CASE t \in Things(calls)
      <4>1. DerivedThing(t, derived)
        BY <3>1 DEF NInv, DerivedTold
      <4> QED  BY <4>1 DEF DerivedThing, TellStep
    <3> QED  BY <3>1 DEF TellStep
  <2> QED  BY <2>1, <2>2 DEF DerivedTold
<1>6. \A t : ToTell(t)' <=> ToTell(t)
  BY DEF ToTell, TellStep
<1>7. \A t \in Things(calls') : ToTell(t) => t \in Things(calls)
  BY DEF TellStep
<1>8. ASSUME NEW t \in Things(calls'), ToTell(t)
      PROVE  /\ t[3].f.f \notin unused'
             /\ Unheard(cb'[t[3].d]["notify"], called'[t[3].d]["notify"], t[3].f.f)
  <2>1. PICK d, f : d = t[3].d /\ f = t[3].f.f
    OBVIOUS
  <2>2. t \in Things(calls) /\ d \in owned
    BY <1>7, <1>8, <2>1 DEF ToTell
  <2>3. f \notin unused /\ Unheard(cb[d]["notify"], called[d]["notify"], f)
    BY <1>8, <2>1, <2>2 DEF NInv, AddsTell
  <2>4. Waiting(d, f)
    BY <1>8, <2>1, <2>2 DEF Waiting
  <2>5. Unheard(cb'[d]["notify"], called'[d]["notify"], f)
    BY <2>2, <2>3, <2>4 DEF TellStep, CellTells, CellStays
  <2> QED  BY <2>1, <2>3, <2>5 DEF TellStep
<1>9. \A t, u \in Things(calls') :
        ToTell(t) /\ ToTell(u) /\ t[3].d = u[3].d /\ t[3].f.f = u[3].f.f => t = u
  BY <1>7 DEF NInv, AddsTell
<1>10. AddsTell'
  BY <1>6, <1>8, <1>9 DEF AddsTell
<1> QED
  BY <1>2, <1>4, <1>5, <1>10 DEF NInv

(* The loops on the stack.                                                 *)
LEMMA LoopAtPush ==
  ASSUME NEW S, NEW s \in Seq(S), NEW f \in S
  PROVE  \A d, v : LoopAt(<<f>> \o s, d, v) <=>
                     (IsLoop(f, d, "notify") /\ f.v = v) \/ LoopAt(s, d, v)
<1>1. PICK t : t = <<f>> \o s
  OBVIOUS
<1>2. /\ DOMAIN t = 1 .. Len(s) + 1 /\ t[1] = f /\ 1 \in DOMAIN t
      /\ DOMAIN s = 1 .. Len(s)
      /\ \A i \in 1 .. Len(s) : t[i + 1] = s[i] /\ i + 1 \in DOMAIN t
      /\ \A i \in 2 .. Len(s) + 1 : t[i] = s[i - 1] /\ i - 1 \in 1 .. Len(s)
  BY <1>1, PushPlaces
<1>3. \A i \in DOMAIN t : i = 1 \/ i \in 2 .. Len(s) + 1
  BY <1>2
<1>4. ASSUME NEW d, NEW v
      PROVE  LoopAt(t, d, v) <=> (IsLoop(f, d, "notify") /\ f.v = v) \/ LoopAt(s, d, v)
  <2>1. LoopAt(s, d, v) => LoopAt(t, d, v)
    BY <1>2 DEF LoopAt
  <2>2. IsLoop(f, d, "notify") /\ f.v = v => LoopAt(t, d, v)
    BY <1>2 DEF LoopAt
  <2>3. LoopAt(t, d, v) => (IsLoop(f, d, "notify") /\ f.v = v) \/ LoopAt(s, d, v)
    BY <1>2, <1>3 DEF LoopAt
  <2> QED  BY <2>1, <2>2, <2>3
<1> QED
  BY <1>1, <1>4

LEMMA LoopAtPop ==
  ASSUME NEW M, NEW s, Stack(M, s), s # <<>>
  PROVE  \A d, v : LoopAt(s, d, v) <=>
                     (IsLoop(Head(s), d, "notify") /\ Head(s).v = v) \/ LoopAt(Tail(s), d, v)
<1>1. s \in Seq(Frames(M))
  BY DEF Stack
<1>2. Tail(s) \in Seq(Frames(M)) /\ Head(s) \in Frames(M) /\ s = <<Head(s)>> \o Tail(s)
  BY <1>1, PopPlaces
<1> QED
  BY <1>2, LoopAtPush

LEMMA LoopAtLoops ==
  ASSUME NEW s, NEW d, NEW v, LoopAt(s, d, v)
  PROVE  Loops(s, d, "notify")
BY DEF LoopAt, Loops

(* A frame that is no loop is put on the stack.                            *)
LEMMA PushTold ==
  ASSUME NEW M, NEW s, Stack(M, s), NEW N, M \subseteq N,
         NEW f \in Frames(N), f.runs # "loop", NEW t, t = <<f>> \o s
  PROVE  /\ \A d, v : LoopAt(t, d, v) => LoopAt(s, d, v)
         /\ \A u \in Things(t) : u \in Things(s) \/ u \in In(f, Len(s) + 1)
<1>1. s \in Seq(Frames(N))
  BY StackGrows DEF Stack
<1>2. \A d, v : LoopAt(t, d, v) <=> (IsLoop(f, d, "notify") /\ f.v = v) \/ LoopAt(s, d, v)
  BY <1>1, LoopAtPush
<1>3. \A d : ~IsLoop(f, d, "notify")
  BY DEF IsLoop
<1>4. Things(<<f>> \o s) = In(f, Len(s) + 1) \cup Things(s)
  BY PushThings
<1> QED
  BY <1>2, <1>3, <1>4

(* The loop takes a step.                                                  *)
LEMMA AdvancedCell ==
  ASSUME DInv, Looping, cb' = Advance, NEW d, NEW a, NEW c,
         d = Top.d, a = Top.a, c = cb[d][a]
  PROVE  /\ d \in Made /\ a \in Actions /\ c \in Lists(Made) /\ c.firing
         /\ c.list # Off /\ c.firingIndex + 1 \in DOMAIN c.list
         /\ Item = c.list[c.firingIndex + 1]
         /\ IsAdvanced(Made, c, cb'[d][a])
         /\ OneCell(d, a)
<1>1. Running("loop") /\ HasNext(c)
  BY DEF Looping
<1>2. /\ d \in Made /\ d \in Deferreds /\ a \in Actions /\ c \in Lists(Made)
      /\ IndexFits(c) /\ c.firing
  BY <1>1, LoopFacts
<1>3. cb \in [Deferreds -> [Actions -> Lists(Made)]]
  BY DEF DInv, Types
<1>4. /\ c.list # Off /\ c.firingIndex + 1 \in DOMAIN c.list
      /\ Item = c.list[c.firingIndex + 1]
  BY ItemFacts
<1>5. PICK x : x = Advanced(c)
  OBVIOUS
<1>6. IsAdvanced(Made, c, x)
  BY <1>1, <1>2, <1>5, Advances
<1>7. cb' = [cb EXCEPT ![d][a] = x]
  BY <1>5 DEF Advance
<1>8. x \in Lists(Made)
  BY <1>6 DEF IsAdvanced
<1>9. cb'[d][a] = x /\ OneCell(d, a)
  BY <1>2, <1>3, <1>7, <1>8, SetCell DEF OneCell
<1> QED
  BY <1>2, <1>4, <1>6, <1>9

LEMMA MadeFacts ==
  ASSUME DInv
  PROVE  /\ Made \subseteq Deferreds /\ owned \subseteq Made /\ derived \subseteq Made
         /\ notified \in Nat /\ Stack(Made, calls)
         /\ owned \subseteq Deferreds
BY DEF DInv, Types, Made

(* It calls what is not of the user.                                       *)
LEMMA AdvanceTold ==
  ASSUME DInv, NInv, Looping, cb' = Advance,
         UNCHANGED <<owned, derived, called, unused, notified>>,
         \/ calls' = calls
         \/ \E f \in Frames(Made) :
              /\ f.runs # "loop" /\ calls' = <<f>> \o calls
              /\ \A t \in In(f, Len(calls) + 1) :
                   DerivedThing(t, derived) /\ ~ToTell(t)
  PROVE  NInv'
<1>1. PICK d, a, c : d = Top.d /\ a = Top.a /\ c = cb[d][a]
  OBVIOUS
<1>2. /\ d \in Made /\ a \in Actions /\ c \in Lists(Made) /\ c.firing
      /\ IsAdvanced(Made, c, cb'[d][a]) /\ OneCell(d, a) /\ c.list # Off
  BY <1>1, AdvancedCell
<1>3. /\ \A e, v : LoopAt(calls', e, v) => LoopAt(calls, e, v)
      /\ \A t \in Things(calls') :
           t \in Things(calls) \/ (DerivedThing(t, derived) /\ ~ToTell(t))
  <2>1. CASE calls' = calls
    BY <2>1
  <2>2. CASE calls' # calls
    <3>1. PICK f \in Frames(Made) :
              /\ f.runs # "loop" /\ calls' = <<f>> \o calls
              /\ \A t \in In(f, Len(calls) + 1) :
                   DerivedThing(t, derived) /\ ~ToTell(t)
      BY <2>2
    <3>2. /\ \A e, v : LoopAt(calls', e, v) => LoopAt(calls, e, v)
          /\ \A t \in Things(calls') :
               t \in Things(calls) \/ t \in In(f, Len(calls) + 1)
      BY <3>1, MadeFacts, PushTold
    <3> QED  BY <3>1, <3>2
  <2> QED  BY <2>1, <2>2
<1>4. ASSUME NEW e \in owned
      PROVE  CellStays(e) \/ CellTells(e)
  <2>0. e \in Deferreds /\ "notify" \in Actions
    BY MadeFacts, ActionFacts
  <2>1. CASE e # d \/ a # "notify"
    BY <1>2, <1>3, <2>0, <2>1 DEF OneCell, CellStays
  <2>2. CASE e = d /\ a = "notify"
    <3>1. PICK x : x = cb'[d][a]
      OBVIOUS
    <3>2. x.list = c.list /\ x.memory = c.memory
      BY <1>2, <3>1 DEF IsAdvanced
    <3>3. Tells(c, called[d]["notify"], notified, unused)
      BY <1>1, <2>2 DEF NInv, TellsAll
    <3>4. Tells(x, called[d]["notify"], notified, unused)
      BY <1>2, <3>1, <3>3, MadeFacts, TellsAdvanced
    <3>5. \A v \in Nat : LoopAt(calls', d, v) => x.memory = v
      BY <1>1, <1>2, <1>3, <2>2, <3>2 DEF NInv, LoopsTell
    <3>6. \A f : Unheard(c, called[d]["notify"], f) => Unheard(x, called[d]["notify"], f)
      BY <3>2 DEF Unheard
    <3> QED  BY <1>1, <2>2, <3>1, <3>4, <3>5, <3>6 DEF CellTells
  <2> QED  BY <2>1, <2>2
<1>5. \A e \in Made' : e \in Made /\ cb'[e]["notify"].list = cb[e]["notify"].list
  <2>1. \A e \in Deferreds : cb'[e]["notify"].list = cb[e]["notify"].list
    BY <1>1, AdvanceView
  <2> QED  BY <2>1, MadeFacts DEF Made
<1> QED
  BY <1>3, <1>4, <1>5, MadeFacts, TellStepKeeps DEF TellStep

(* One call on the stack that fires the list of a derived deferred, or one *)
(* that settles.                                                           *)
LEMMA FiresTold ==
  ASSUME NEW d, NEW a, NEW v, a = "notify" => d \in derived,
         NEW p, NEW x, x = Fires(d, a, v), NEW M, x \in Jobs(M)
  PROVE  \A t \in In(Library(<<x>>), p) : DerivedThing(t, derived) /\ ~ToTell(t)
<1>1. In(Library(<<x>>), p) = {<<p, 1, x>>}
  BY OneCall
<1>2. x.call = "fire" /\ x.d = d /\ x.a = a
  BY DEF Fires
<1>3. PICK t : t = <<p, 1, x>>
  OBVIOUS
<1>4. t[3] = x /\ t[2] # 0
  BY <1>3
<1>5. DerivedThing(t, derived) /\ ~ToTell(t)
  BY <1>2, <1>4 DEF DerivedThing, ToTell
<1> QED
  BY <1>1, <1>3, <1>5

LEMMA CallForwardTold ==
  ASSUME DInv, VInv, NInv, CallForward
  PROVE  NInv'
<1>1. /\ Looping /\ Item.does \in {"forward", "filter"}
      /\ cb' = Advance
      /\ calls' = <<Library(<<Fires(Item.d, Item.a, Top.v)>>)>> \o calls
      /\ UNCHANGED <<owned, derived, called, unused, notified>>
      /\ Item.does = "filter" => Item.f = Off
  BY DEF CallForward, history
<1>2. PICK d, a, c : d = Top.d /\ a = Top.a /\ c = cb[d][a]
  OBVIOUS
<1>3. /\ d \in Made /\ a \in Actions /\ c.list # Off
      /\ c.firingIndex + 1 \in DOMAIN c.list /\ Item = c.list[c.firingIndex + 1]
  BY <1>1, <1>2, AdvancedCell
<1>4. Top.v \in Nat /\ Item.d \in Made /\ Item.a \in Actions
  BY <1>1, ItemOther, OtherKinds, LoopFacts DEF Looping
<1>5. IsLink(Item) /\ ~Counts(Item)
  BY <1>1 DEF IsLink, Counts
<1>6. Item.a = "notify" => Item.d \in derived
  <2>1. CASE a \in Settling
    <3>1. Item.a = a
      BY <1>1, <1>2, <1>5, <2>1, TakesLink
    <3> QED  BY <2>1, <3>1, ActionFacts
  <2>2. CASE a = "notify"
    BY <1>2, <1>3, <1>5, <2>2 DEF NInv, DerivedTold, DerivedLinks
  <2> QED  BY <1>3, <2>1, <2>2, ActionFacts
<1>7. PICK x : x = Fires(Item.d, Item.a, Top.v)
  OBVIOUS
<1>8. PICK f : f = Library(<<x>>)
  OBVIOUS
<1>9. x \in Jobs(Made) /\ f \in Frames(Made) /\ f.runs # "loop"
  <2>1. x \in Jobs(Made)
    BY <1>4, <1>7, NewJobs
  <2>2. f \in Frames(Made)
    BY <1>4, <1>7, <1>8, QuietFires
  <2>3. f.runs = "library"
    BY <1>8 DEF Library
  <2> QED  BY <2>1, <2>2, <2>3
<1>10. \A t \in In(f, Len(calls) + 1) : DerivedThing(t, derived) /\ ~ToTell(t)
  BY <1>6, <1>7, <1>8, <1>9, FiresTold
<1>11. calls' = <<f>> \o calls
  BY <1>1, <1>7, <1>8
<1> QED
  BY <1>1, <1>9, <1>10, <1>11, AdvanceTold

LEMMA CallCountTold ==
  ASSUME DInv, VInv, NInv, CallCount
  PROVE  NInv'
<1>1. /\ Looping /\ Item.does = "count" /\ cb' = Advance
      /\ calls' = IF remaining[Item.d] = 1
                  THEN <<Library(<<Fires(Item.d, "resolve", 0)>>)>> \o calls
                  ELSE calls
      /\ UNCHANGED <<owned, derived, called, unused, notified>>
  BY DEF CallCount, history
<1>2. Item.d \in Made
  BY <1>1, ItemOther, OtherKinds
<1>3. PICK x : x = Fires(Item.d, "resolve", 0)
  OBVIOUS
<1>4. PICK f : f = Library(<<x>>)
  OBVIOUS
<1>a. "resolve" \in Actions /\ 0 \in Nat /\ "resolve" # "notify"
  BY DEF Actions
<1>5. x \in Jobs(Made) /\ f \in Frames(Made) /\ f.runs # "loop"
  <2>1. x \in Jobs(Made)
    BY <1>2, <1>3, <1>a, NewJobs
  <2>2. f \in Frames(Made)
    BY <1>2, <1>3, <1>4, <1>a, QuietFires
  <2>3. f.runs = "library"
    BY <1>4 DEF Library
  <2> QED  BY <2>1, <2>2, <2>3
<1>6. \A t \in In(f, Len(calls) + 1) : DerivedThing(t, derived) /\ ~ToTell(t)
  BY <1>3, <1>4, <1>5, <1>a, FiresTold
<1>7. calls' = <<f>> \o calls \/ calls' = calls
  BY <1>1, <1>3, <1>4
<1> QED
  BY <1>1, <1>5, <1>6, <1>7, AdvanceTold

LEMMA CallFilterTold ==
  ASSUME DInv, VInv, NInv, CallFilter
  PROVE  NInv'
<1>1. /\ Looping /\ Item.does = "filter" /\ Item.f # Off /\ cb' = Advance
      /\ calls' = <<Body(Item.f, Item.d, Item.a)>> \o calls
      /\ UNCHANGED <<owned, derived, called, unused, notified>>
  BY DEF CallFilter, history
<1>2. Item.d \in Made /\ Item.a \in Actions /\ Item.f \in Fn
  BY <1>1, ItemOther, OtherKinds
<1>3. PICK f : f = Body(Item.f, Item.d, Item.a)
  OBVIOUS
<1>4. f \in Frames(Made) /\ f.runs = "body" /\ f.d = Item.d
  BY <1>2, <1>3, NewFrames DEF Body
<1>5. Item.d \in derived
  <2>1. PICK d, a, c : d = Top.d /\ a = Top.a /\ c = cb[d][a]
    OBVIOUS
  <2>2. /\ d \in Made /\ a \in Actions /\ c.list # Off
        /\ c.firingIndex + 1 \in DOMAIN c.list /\ Item = c.list[c.firingIndex + 1]
    BY <1>1, <2>1, AdvancedCell
  <2>3. IsLink(Item)
    BY <1>1 DEF IsLink
  <2>4. CASE a \in Settling
    BY <1>1, <2>1, <2>3, <2>4, TakesLink
  <2>5. CASE a = "notify"
    BY <2>1, <2>2, <2>3, <2>5 DEF NInv, DerivedTold, DerivedLinks
  <2> QED  BY <2>2, <2>4, <2>5, ActionFacts
<1>6. ASSUME NEW t \in In(f, Len(calls) + 1)
      PROVE  DerivedThing(t, derived) /\ ~ToTell(t)
  <2>1. t = <<Len(calls) + 1, 0, f>>
    BY <1>4 DEF In
  <2>2. t[2] = 0 /\ t[3] = f
    BY <2>1
  <2> QED  BY <1>4, <1>5, <2>2 DEF DerivedThing, ToTell
<1> QED
  BY <1>1, <1>3, <1>4, <1>6, AdvanceTold

(* It calls a function of the user, and tells it the value of the loop.    *)
LEMMA CallUserTold ==
  ASSUME DInv, VInv, NInv, CallUser
  PROVE  NInv'
<1>1. PICK d, a, c : d = Top.d /\ a = Top.a /\ c = cb[d][a]
  OBVIOUS
<1>2. PICK y : y = IF a = "notify" THEN <<Item.f, Top.v>> ELSE Item.f
  OBVIOUS
<1>3. /\ Looping /\ Item.does = "user" /\ cb' = Advance
      /\ called' = [called EXCEPT ![d][a] = Append(@, y)]
      /\ calls' = <<Body(Item.f, Off, Off)>> \o calls
      /\ UNCHANGED <<owned, derived, unused, notified>>
  BY <1>1, <1>2 DEF CallUser
<1>4. /\ d \in Made /\ a \in Actions /\ c \in Lists(Made) /\ c.firing
      /\ c.list # Off /\ c.firingIndex + 1 \in DOMAIN c.list
      /\ Item = c.list[c.firingIndex + 1]
      /\ IsAdvanced(Made, c, cb'[d][a]) /\ OneCell(d, a)
  BY <1>1, <1>3, AdvancedCell
<1>5. Item.f \in Fn /\ Top.v \in Nat /\ d \in Deferreds
  BY <1>1, <1>3, <1>4, ItemOther, OtherKinds, LoopFacts, MadeFacts DEF Looping
<1>6. PICK S : S = Fn \cup Fn \X Nat
  OBVIOUS
<1>7. called \in [Deferreds -> [Actions -> Seq(S)]] /\ y \in S
  BY <1>2, <1>5, <1>6 DEF DInv, Types
<1>8. /\ called'[d][a] = Append(called[d][a], y)
      /\ \A e \in Deferreds, b \in Actions :
           e # d \/ b # a => called'[e][b] = called[e][b]
  <2>1. PICK z : z = Append(called[d][a], y)
    OBVIOUS
  <2>2. z \in Seq(S)
    BY <1>4, <1>5, <1>7, <2>1
  <2>3. called' = [called EXCEPT ![d][a] = z]
    BY <1>3, <2>1
  <2> QED  BY ONLY <1>4, <1>5, <1>7, <2>1, <2>2, <2>3, SetCell
<1>9. PICK f : f = Body(Item.f, Off, Off)
  OBVIOUS
<1>10. f \in Frames(Made) /\ f.runs = "body"
  BY <1>5, <1>9, NewFrames DEF Body
<1>11. In(f, Len(calls) + 1) = {}
  BY <1>9 DEF In, Body
<1>12. /\ \A e, v : LoopAt(calls', e, v) => LoopAt(calls, e, v)
       /\ \A t \in Things(calls') : t \in Things(calls)
  <2>1. calls' = <<f>> \o calls /\ f.runs # "loop"
    BY <1>3, <1>9, <1>10
  <2> QED  BY <1>10, <1>11, <2>1, MadeFacts, PushTold
<1>13. ASSUME NEW e \in owned
       PROVE  CellStays(e) \/ CellTells(e)
  <2>0. e \in Deferreds /\ "notify" \in Actions
    BY MadeFacts, ActionFacts
  <2>1. CASE e # d \/ a # "notify"
    BY <1>4, <1>8, <1>12, <2>0, <2>1 DEF OneCell, CellStays
  <2>2. CASE e = d /\ a = "notify"
    <3>1. PICK x, h : x = cb'[d][a] /\ h = called[d][a]
      OBVIOUS
    <3>2. x.list = c.list /\ x.memory = c.memory
      BY <1>4, <3>1 DEF IsAdvanced
    <3>3. Tells(c, h, notified, unused)
      BY <1>1, <2>2, <3>1 DEF NInv, TellsAll
    <3>4. LoopAt(calls, d, Top.v)
      <4>1. calls # <<>> /\ Top.runs = "loop" /\ calls \in Seq(Frames(Made))
        BY <1>3 DEF Looping, Running, DInv, Stack
      <4>2. 1 \in DOMAIN calls /\ calls[1] = Top
        BY <4>1 DEF Top
      <4> QED  BY <1>1, <2>2, <4>1, <4>2 DEF LoopAt, IsLoop
    <3>5. c.memory = Top.v
      BY <1>1, <1>4, <1>5, <2>2, <3>4 DEF NInv, LoopsTell
    <3>6. y = <<Item.f, c.memory>> /\ IsUser(Item)
      BY <1>2, <1>3, <2>2, <3>5 DEF IsUser
    <3>7. h \in Seq(S) /\ notified \in Nat
      BY <1>4, <1>5, <1>7, <3>1, MadeFacts
    <3>8. Tells(x, Append(h, y), notified, unused)
      BY <1>4, <1>7, <3>1, <3>3, <3>6, <3>7, TellsCalled
    <3>9. \A v \in Nat : LoopAt(calls', d, v) => x.memory = v
      BY <1>1, <1>4, <1>12, <2>2, <3>2 DEF NInv, LoopsTell
    <3>10. ASSUME NEW g, Unheard(c, h, g)
           PROVE  Unheard(x, Append(h, y), g)
      <4>1. Item.f # g
        BY <1>4, <3>6, <3>10 DEF Unheard
      <4>2. PICK l : l = Append(h, y)
        OBVIOUS
      <4>3. \A i \in DOMAIN l : (i \in DOMAIN h /\ l[i] = h[i]) \/ l[i] = y
        BY <1>7, <3>7, <4>2
      <4>4. y[1] = Item.f
        BY <3>6
      <4>5. \A i \in DOMAIN l : l[i][1] # g
        BY <3>10, <4>1, <4>3, <4>4 DEF Unheard
      <4> QED  BY <3>2, <3>10, <4>2, <4>5 DEF Unheard
    <3> QED  BY <1>1, <1>3, <1>8, <2>2, <3>1, <3>8, <3>9, <3>10 DEF CellTells
  <2> QED  BY <2>1, <2>2
<1>14. \A e \in Made' : e \in Made /\ cb'[e]["notify"].list = cb[e]["notify"].list
  <2>1. \A e \in Deferreds : cb'[e]["notify"].list = cb[e]["notify"].list
    BY <1>1, <1>3, AdvanceView
  <2> QED  BY <1>3, <2>1, MadeFacts DEF Made
<1> QED
  BY <1>3, <1>12, <1>13, <1>14, MadeFacts, TellStepKeeps DEF TellStep

(* One list is changed, and nothing more is to be added.                   *)
OneTold(d, a) ==
  /\ d \in Made /\ a \in Actions /\ OneCell(d, a)
  /\ UNCHANGED <<owned, derived, unused, called>>
  /\ notified' \in Nat /\ notified <= notified'
  /\ \A e \in owned, v \in Nat :
       (e # d \/ a # "notify") /\ LoopAt(calls', e, v) => LoopAt(calls, e, v)
  /\ \A t \in Things(calls') : t \in Things(calls)
  /\ a = "notify" => \/ cb'[d]["notify"].list = cb[d]["notify"].list
                     \/ DerivedLinks(cb'[d]["notify"].list, derived)
  /\ a = "notify" /\ d \in owned => CellTells(d) \/ CellStays(d)

LEMMA OneToldKeeps ==
  ASSUME DInv, NInv, NEW d, NEW a, OneTold(d, a)
  PROVE  NInv'
<1>0. "notify" \in Actions /\ Made' = Made
  BY ActionFacts DEF OneTold, Made
<1>1. ASSUME NEW e \in Deferreds, e # d \/ a # "notify"
      PROVE  cb'[e]["notify"] = cb[e]["notify"]
  BY <1>0, <1>1 DEF OneTold, OneCell
<1>2. ASSUME NEW e \in owned
      PROVE  CellStays(e) \/ CellTells(e)
  <2>1. CASE e = d /\ a = "notify"
    BY <2>1 DEF OneTold
  <2>2. CASE e # d \/ a # "notify"
    BY <1>1, <2>2, MadeFacts DEF OneTold, CellStays
  <2> QED  BY <2>1, <2>2
<1>3. ASSUME NEW e \in Made
      PROVE  \/ cb'[e]["notify"].list = cb[e]["notify"].list
             \/ DerivedLinks(cb'[e]["notify"].list, derived)
  <2>1. CASE e = d /\ a = "notify"
    BY <2>1 DEF OneTold
  <2>2. CASE e # d \/ a # "notify"
    BY <1>1, <2>2, MadeFacts
  <2> QED  BY <2>1, <2>2
<1>4. TellStep
  BY <1>0, <1>2, <1>3, MadeFacts DEF OneTold, TellStep
<1> QED
  BY <1>4, TellStepKeeps

(* A deferred is settled: its list for the progress may be locked.         *)
LEMMA LockedMemory ==
  ASSUME NEW M, NEW c \in Lists(M)
  PROVE  /\ Locked(c).list \in {c.list, Off}
         /\ Locked(c).list # Off => Locked(c).memory = c.memory
<1>1. CASE c.memory = Off
  <2>1. Locked(c) = [c EXCEPT !.list = Off, !.waiting = Off, !.memory = Off]
    BY <1>1 DEF Locked, Disabled
  <2> QED  BY <2>1 DEF Lists
<1>2. CASE c.memory # Off
  BY <1>2 DEF Lists, Locked
<1> QED
  BY <1>1, <1>2

LEMMA SettleCells ==
  ASSUME DInv, CallSettle, NEW d, d = Top.d
  PROVE  /\ d \in Made
         /\ \A e \in Deferreds : e # d => cb'[e]["notify"] = cb[e]["notify"]
         /\ cb'[d]["notify"] \in {cb[d]["notify"], Locked(cb[d]["notify"])}
<1>1. PICK a, c : a = Top.a /\ c = cb[d][a]
  OBVIOUS
<1>2. /\ a \in Settling
      /\ \/ Item = Settle(d, a) \/ Item = Disable(d, Opposite(a))
         \/ Item = Lock(d, "notify")
  BY <1>1, CallSettleFacts
<1>3. /\ Looping /\ Running("loop") /\ HasNext(c)
  BY <1>1 DEF CallSettle, Looping
<1>4. /\ d \in Made /\ d \in Deferreds /\ a \in Actions
      /\ c \in Lists(Made) /\ IndexFits(c) /\ c.firing
  BY <1>1, <1>3, LoopFacts
<1>5. /\ cb \in [Deferreds -> [Actions -> Lists(Made)]]
      /\ \A b \in Actions : IndexFits(cb[d][b]) /\ cb[d][b] \in Lists(Made)
  BY <1>4 DEF DInv, Types, LoopsFit
<1>6. /\ Opposite(a) \in Actions /\ Opposite(a) # "notify" /\ a # "notify"
      /\ "notify" \in Actions
  BY <1>2, ActionFacts
<1>7. PICK x : x = Advanced(c)
  OBVIOUS
<1>8. x \in Lists(Made)
  BY <1>3, <1>4, <1>7, Advances DEF IsAdvanced
<1>9. PICK t : t = [cb EXCEPT ![d][a] = x]
  OBVIOUS
<1>10. /\ t \in [Deferreds -> [Actions -> Lists(Made)]]
       /\ \A e \in Deferreds, b \in Actions : e # d \/ b # a => t[e][b] = cb[e][b]
  BY ONLY <1>4, <1>5, <1>8, <1>9, SetCell
<1>11. Advance = t
  BY <1>1, <1>7, <1>9 DEF Advance
<1>12. CASE Item = Settle(d, a)
  <2>1. cb' = t
    BY <1>11, <1>12 DEF CallSettle, Settle
  <2> QED  BY <1>4, <1>6, <1>10, <2>1
<1>13. CASE Item = Disable(d, Opposite(a))
  <2>1. Item.does = "disable" /\ Item.d = d /\ Item.a = Opposite(a)
    BY <1>13 DEF Disable
  <2>2. PICK y : y = Disabled(t[d][Opposite(a)])
    OBVIOUS
  <2>3. y \in Lists(Made)
    <3>1. t[d][Opposite(a)] \in Lists(Made)
      BY <1>4, <1>6, <1>10
    <3>2. t[d][Opposite(a)] = cb[d][Opposite(a)] /\ IndexFits(cb[d][Opposite(a)])
      BY <1>2, <1>4, <1>5, <1>6, <1>10, ActionFacts
    <3>3. IndexFits(t[d][Opposite(a)])
      BY <3>2
    <3> QED  BY <2>2, <3>1, <3>3, DisabledFacts
  <2>4. cb' = [t EXCEPT ![d][Opposite(a)] = y]
    BY <1>11, <2>1, <2>2 DEF CallSettle
  <2>5. \A e \in Deferreds, b \in Actions :
          e # d \/ b # Opposite(a) => cb'[e][b] = t[e][b]
    BY ONLY <1>4, <1>6, <1>10, <2>3, <2>4, SetCell
  <2> QED  BY <1>4, <1>6, <1>10, <2>5
<1>14. CASE Item = Lock(d, "notify")
  <2>1. Item.does = "lock" /\ Item.d = d /\ Item.a = "notify"
    BY <1>14 DEF Lock
  <2>2. PICK y : y = Locked(t[d]["notify"])
    OBVIOUS
  <2>3. t[d]["notify"] = cb[d]["notify"] /\ y \in Lists(Made)
    <3>1. t[d]["notify"] = cb[d]["notify"] /\ cb[d]["notify"] \in Lists(Made)
          /\ IndexFits(cb[d]["notify"])
      BY <1>4, <1>5, <1>6, <1>10
    <3> QED  BY <2>2, <3>1, LockedFacts
  <2>4. cb' = [t EXCEPT ![d]["notify"] = y]
    BY <1>11, <2>1, <2>2 DEF CallSettle
  <2>5. /\ cb'[d]["notify"] = y
        /\ \A e \in Deferreds, b \in Actions :
             e # d \/ b # "notify" => cb'[e][b] = t[e][b]
    BY ONLY <1>4, <1>6, <1>10, <2>3, <2>4, SetCell
  <2> QED  BY <1>4, <1>6, <1>10, <2>2, <2>3, <2>5
<1> QED
  BY <1>2, <1>12, <1>13, <1>14

LEMMA CallSettleTold ==
  ASSUME DInv, NInv, CallSettle
  PROVE  NInv'
<1>1. UNCHANGED <<owned, derived, calls, unused, called, notified>>
  BY DEF CallSettle, history
<1>2. PICK d, c, x : d = Top.d /\ c = cb[d]["notify"] /\ x = cb'[d]["notify"]
  OBVIOUS
<1>3. /\ d \in Made /\ \A e \in Deferreds : e # d => cb'[e]["notify"] = cb[e]["notify"]
      /\ x \in {c, Locked(c)}
  BY <1>2, SettleCells
<1>4. c \in Lists(Made) /\ d \in Deferreds
  BY <1>2, <1>3, MadeFacts, ActionFacts DEF DInv, Types
<1>5. x.list \in {c.list, Off} /\ (x.list # Off => x.memory = c.memory)
  BY <1>3, <1>4, LockedMemory
<1>6. ASSUME d \in owned
      PROVE  CellTells(d)
  <2>1. PICK h : h = called[d]["notify"]
    OBVIOUS
  <2>2. Tells(c, h, notified, unused)
    BY <1>2, <1>6, <2>1 DEF NInv, TellsAll
  <2>3. Tells(x, h, notified, unused)
    BY <1>3, <1>4, <2>2, MadeFacts, TellsLocked
  <2>4. \A v \in Nat : LoopAt(calls, d, v) /\ x.list # Off => x.memory = v
    BY <1>2, <1>5, <1>6 DEF NInv, LoopsTell
  <2>5. \A f : Unheard(c, h, f) => Unheard(x, h, f)
    BY <1>5 DEF Unheard
  <2> QED  BY <1>1, <1>2, <2>1, <2>3, <2>4, <2>5 DEF CellTells
<1>7. ASSUME NEW e \in owned
      PROVE  CellStays(e) \/ CellTells(e)
  <2>1. CASE e = d
    BY <1>6, <1>7, <2>1
  <2>2. CASE e # d
    BY <1>1, <1>3, <2>2, MadeFacts DEF CellStays
  <2> QED  BY <2>1, <2>2
<1>8. ASSUME NEW e \in Made
      PROVE  \/ cb'[e]["notify"].list = cb[e]["notify"].list
             \/ DerivedLinks(cb'[e]["notify"].list, derived)
  <2>1. CASE e = d
    BY <1>2, <1>5, <2>1 DEF DerivedLinks
  <2>2. CASE e # d
    BY <1>3, <2>2, MadeFacts
  <2> QED  BY <2>1, <2>2
<1>9. TellStep
  BY <1>1, <1>7, <1>8, MadeFacts DEF TellStep, Made
<1> QED
  BY <1>9, TellStepKeeps

(* A loop is put on the stack.                                             *)
LEMMA LoopTold ==
  ASSUME NEW s, Stack(Made, s), NEW d \in Made, NEW a \in Actions, NEW v \in Nat
  PROVE  /\ Things(<<Loop(d, a, v)>> \o s) = Things(s)
         /\ \A e, w : LoopAt(<<Loop(d, a, v)>> \o s, e, w) <=>
              (e = d /\ a = "notify" /\ w = v) \/ LoopAt(s, e, w)
<1>1. Things(<<Loop(d, a, v)>> \o s) = Things(s)
  BY LoopThings
<1>2. PICK f : f = Loop(d, a, v)
  OBVIOUS
<1>3. f \in Frames(Made) /\ s \in Seq(Frames(Made))
  BY <1>2, NewFrames DEF Stack
<1>4. \A e : IsLoop(f, e, "notify") <=> e = d /\ a = "notify"
  BY <1>2 DEF IsLoop, Loop
<1>5. f.v = v
  BY <1>2 DEF Loop
<1>6. \A e, w : LoopAt(<<f>> \o s, e, w) <=> (IsLoop(f, e, "notify") /\ f.v = w) \/ LoopAt(s, e, w)
  BY <1>3, LoopAtPush
<1>7. \A e, w : LoopAt(<<f>> \o s, e, w) <=>
        (e = d /\ a = "notify" /\ w = v) \/ LoopAt(s, e, w)
  BY <1>4, <1>5, <1>6
<1>8. <<f>> \o s = <<Loop(d, a, v)>> \o s
  BY <1>2
<1>9. \A e, w : LoopAt(<<Loop(d, a, v)>> \o s, e, w) <=>
        (e = d /\ a = "notify" /\ w = v) \/ LoopAt(s, e, w)
  BY <1>7, <1>8, Zenon
<1> QED
  BY <1>1, <1>9

(* A loop ends, or goes on with the next value.                            *)
LEMMA EndLoopTold ==
  ASSUME DInv, NInv, EndLoop
  PROVE  NInv'
<1>1. PICK d, a, c : d = Top.d /\ a = Top.a /\ c = cb[d][a]
  OBVIOUS
<1>2. /\ Running("loop") /\ calls # <<>> /\ Top.runs = "loop"
      /\ UNCHANGED <<owned, derived, unused, called, notified>>
      /\ IF FiresAgain(c)
         THEN /\ cb' = [cb EXCEPT ![d][a] = Again(c)]
              /\ calls' = <<Loop(d, a, Head(c.waiting))>> \o Below
         ELSE /\ cb' = [cb EXCEPT ![d][a] = Ended(c)]
              /\ calls' = Below
  BY <1>1 DEF EndLoop, history, Running
<1>3. /\ d \in Deferreds /\ a \in Actions /\ c \in Lists(Made) /\ IndexFits(c)
      /\ c.firing /\ Stack(Made, Below) /\ d \in Made
      /\ ~Loops(Below, d, a)
  BY <1>1, <1>2, LoopFacts
<1>4. cb \in [Deferreds -> [Actions -> Lists(Made)]]
  BY DEF DInv, Types
<1>5. PICK x : x = IF FiresAgain(c) THEN Again(c) ELSE Ended(c)
  OBVIOUS
<1>6. /\ x \in Lists(Made) /\ x.list \in {c.list, Off, <<>>}
      /\ FiresAgain(c) => Head(c.waiting) \in Nat
  BY <1>3, <1>5, AgainFacts, EndedFacts
<1>7. cb' = [cb EXCEPT ![d][a] = x]
  BY <1>2, <1>5
<1>8. OneCell(d, a) /\ cb'[d][a] = x
  BY <1>3, <1>4, <1>6, <1>7, SetCell DEF OneCell
<1>9. \A e, w : LoopAt(Below, e, w) => LoopAt(calls, e, w)
  BY <1>2, MadeFacts, LoopAtPop DEF Below
<1>10. \A w : a = "notify" => ~LoopAt(Below, d, w)
  BY <1>3, LoopAtLoops
<1>11. /\ Things(calls') = Things(Below)
       /\ \A e, w : LoopAt(calls', e, w) =>
            \/ e = d /\ a = "notify" /\ FiresAgain(c) /\ w = Head(c.waiting)
            \/ LoopAt(Below, e, w)
  <2>1. CASE ~FiresAgain(c)
    BY <1>2, <2>1
  <2>2. CASE FiresAgain(c)
    <3>1. PICK v \in Nat : v = Head(c.waiting)
      BY <1>6, <2>2
    <3>2. calls' = <<Loop(d, a, v)>> \o Below
      BY <1>2, <2>2, <3>1
    <3>4. /\ Things(<<Loop(d, a, v)>> \o Below) = Things(Below)
          /\ \A e, w : LoopAt(<<Loop(d, a, v)>> \o Below, e, w) <=>
               (e = d /\ a = "notify" /\ w = v) \/ LoopAt(Below, e, w)
      BY <1>3, LoopTold
    <3>3. /\ Things(calls') = Things(Below)
          /\ \A e, w : LoopAt(calls', e, w) <=>
               (e = d /\ a = "notify" /\ w = v) \/ LoopAt(Below, e, w)
      BY <3>2, <3>4
    <3> QED  BY <2>2, <3>1, <3>3
  <2> QED  BY <2>1, <2>2
<1>12. \A t \in Things(calls') : t \in Things(calls)
  BY <1>2, <1>11, MadeFacts, TopThings
<1>13. a = "notify" => \/ cb'[d]["notify"].list = cb[d]["notify"].list
                       \/ DerivedLinks(cb'[d]["notify"].list, derived)
  BY <1>1, <1>6, <1>8 DEF DerivedLinks
<1>14. ASSUME a = "notify", d \in owned
       PROVE  CellTells(d)
  <2>1. PICK h : h = called[d]["notify"]
    OBVIOUS
  <2>2. Tells(c, h, notified, unused)
    BY <1>1, <1>14, <2>1 DEF NInv, TellsAll
  <2>3. Tells(x, h, notified, unused) /\ (FiresAgain(c) => x.memory = Head(c.waiting))
    <3>1. CASE FiresAgain(c)
      BY <1>3, <1>5, <2>2, <3>1, MadeFacts, TellsAgain
    <3>2. CASE ~FiresAgain(c)
      BY <1>3, <1>5, <2>2, <3>2, MadeFacts, TellsEnded
    <3> QED  BY <3>1, <3>2
  <2>4. \A v \in Nat : LoopAt(calls', d, v) => x.memory = v
    BY <1>10, <1>11, <1>14, <2>3
  <2>5. \A f : Unheard(c, h, f) => Unheard(x, h, f)
    BY <1>6 DEF Unheard
  <2> QED  BY <1>1, <1>2, <1>8, <1>14, <2>1, <2>3, <2>4, <2>5 DEF CellTells
<1>15. OneTold(d, a)
  BY <1>2, <1>3, <1>8, <1>9, <1>11, <1>12, <1>13, <1>14, MadeFacts DEF OneTold
<1> QED
  BY <1>15, OneToldKeeps

(* A list is fired: one for the progress of a deferred that the user made, *)
(* with the next value.                                                    *)
LEMMA FireTold ==
  ASSUME DInv, NInv, NEW d \in Made, NEW a \in Actions, NEW v \in Nat,
         NEW rest, Stack(Made, rest), Fire(d, a, v, rest),
         Things(rest) \subseteq Things(calls),
         \A e, w : LoopAt(rest, e, w) => LoopAt(calls, e, w),
         UNCHANGED <<owned, derived, unused, called>>,
         notified' \in Nat, notified <= notified',
         a = "notify" /\ d \in owned => v = notified + 1 /\ notified' = v
  PROVE  NInv'
<1>1. PICK c : c = cb[d][a]
  OBVIOUS
<1>2. /\ cb \in [Deferreds -> [Actions -> Lists(Made)]] /\ d \in Deferreds
      /\ c \in Lists(Made) /\ IndexFits(c)
      /\ Loops(calls, d, a) => c.firing
  BY <1>1, MadeFacts DEF DInv, Types, LoopsFit
<1>3. CASE ~MayFire(c)
  <2>1. calls' = rest /\ cb' = cb
    BY <1>1, <1>3 DEF Fire
  <2>2. OneCell(d, a) /\ (a = "notify" => CellStays(d))
    BY <2>1 DEF OneCell, CellStays
  <2>3. cb'[d]["notify"].list = cb[d]["notify"].list
    BY <2>1
  <2>4. OneTold(d, a)
    BY <2>1, <2>2, <2>3, MadeFacts DEF OneTold
  <2> QED  BY <2>4, OneToldKeeps
<1>4. CASE MayFire(c)
  <2>1. PICK x : x = Fired(c, v)
    OBVIOUS
  <2>2. /\ cb' = [cb EXCEPT ![d][a] = x]
        /\ calls' = IF c.firing THEN rest ELSE <<Loop(d, a, v)>> \o rest
    BY <1>1, <1>4, <2>1 DEF Fire
  <2>3. x \in Lists(Made) /\ x.list = c.list
    BY <1>2, <1>4, <2>1, FiredFacts
  <2>4. OneCell(d, a) /\ cb'[d][a] = x
    BY <1>2, <2>2, <2>3, SetCell DEF OneCell
  <2>5. /\ Things(calls') = Things(rest)
        /\ \A e, w : LoopAt(calls', e, w) =>
             \/ e = d /\ a = "notify" /\ ~c.firing /\ w = v
             \/ LoopAt(rest, e, w)
    <3>1. CASE c.firing
      BY <2>2, <3>1
    <3>2. CASE ~c.firing
      <4>1. calls' = <<Loop(d, a, v)>> \o rest
        BY <2>2, <3>2
      <4>4. /\ Things(<<Loop(d, a, v)>> \o rest) = Things(rest)
            /\ \A e, w : LoopAt(<<Loop(d, a, v)>> \o rest, e, w) <=>
                 (e = d /\ a = "notify" /\ w = v) \/ LoopAt(rest, e, w)
        BY LoopTold
      <4>2. /\ Things(calls') = Things(rest)
            /\ \A e, w : LoopAt(calls', e, w) <=>
                 (e = d /\ a = "notify" /\ w = v) \/ LoopAt(rest, e, w)
        BY <4>1, <4>4
      <4> QED  BY <3>2, <4>2
    <3> QED  BY <3>1, <3>2
  <2>6. ASSUME a = "notify", d \in owned
        PROVE  CellTells(d)
    <3>1. PICK h : h = called[d]["notify"]
      OBVIOUS
    <3>2. Tells(c, h, notified, unused) /\ notified \in Nat /\ v = notified + 1
          /\ notified' = v
      BY <1>1, <2>6, <3>1, MadeFacts DEF NInv, TellsAll
    <3>3. Tells(Fired(c, notified + 1), h, notified + 1, unused)
          /\ (~c.firing => Fired(c, notified + 1).memory = notified + 1)
      BY <1>2, <1>4, <3>2, TellsFired
    <3>4. Tells(x, h, notified', unused) /\ (~c.firing => x.memory = v)
      BY <2>1, <3>2, <3>3
    <3>5. c.firing => x.memory = c.memory
      BY <1>2, <2>1 DEF Fired, Lists
    <3>6. ASSUME NEW w \in Nat, LoopAt(calls', d, w)
          PROVE  x.memory = w
      <4>1. CASE ~c.firing /\ w = v
        BY <3>4, <4>1
      <4>2. CASE LoopAt(rest, d, w)
        <5>1. LoopAt(calls, d, w)
          BY <4>2
        <5>2. c.firing
          BY <1>2, <2>6, <5>1, LoopAtLoops
        <5>3. c.memory = w
          BY <1>1, <1>4, <2>6, <5>1 DEF NInv, LoopsTell, MayFire
        <5> QED  BY <3>5, <5>2, <5>3
      <4> QED  BY <2>5, <3>6, <4>1, <4>2
    <3>7. \A f : Unheard(c, h, f) => Unheard(x, h, f)
      BY <2>3 DEF Unheard
    <3> QED  BY <1>1, <2>4, <2>6, <3>1, <3>4, <3>6, <3>7 DEF CellTells
  <2>7. a = "notify" => cb'[d]["notify"].list = cb[d]["notify"].list
    BY <1>1, <2>3, <2>4
  <2>8. OneTold(d, a)
    BY <2>4, <2>5, <2>6, <2>7, MadeFacts DEF OneTold
  <2> QED  BY <2>8, OneToldKeeps
<1> QED
  BY <1>3, <1>4

(* What a list is that tells at once what was added.                       *)
TellsAtOnce(M, c, x, n) ==
  /\ n \in Lists(M) /\ n.firing = TRUE /\ n.firingIndex = Len(c.list)
  /\ n.memory = c.memory /\ n.waiting = c.waiting /\ n.list = Append(c.list, x)

LEMMA AddedTells ==
  ASSUME NEW M, M \subseteq Deferreds, NEW c \in Lists(M), IndexFits(c),
         c.list # Off, NEW x \in Firsts(M) \cup Others(M), CallsAtOnce(c)
  PROVE  TellsAtOnce(M, c, x, Started(Added(c, x), c.memory))
<1> DEFINE n == Started(Added(c, x), c.memory)
<1>1. /\ n \in Lists(M) /\ n.firing = TRUE /\ n.firingIndex = Len(c.list)
      /\ n.memory = c.memory /\ n.waiting = c.waiting
      /\ n.list = Append(c.list, x)
  BY AddedFacts
<1> HIDE DEF n
<1>2. TellsAtOnce(M, c, x, n)
  BY <1>1 DEF TellsAtOnce
<1> QED
  BY <1>2 DEF n

(* A function, or a link, is added to a list.                              *)
LEMMA AddTold ==
  ASSUME DInv, NInv, NEW d \in Made, NEW a \in Actions, NEW x \in Others(Made),
         NEW rest, Stack(Made, rest), Add(d, a, x, rest),
         Things(rest) \subseteq Things(calls),
         \A e, w : LoopAt(rest, e, w) => LoopAt(calls, e, w),
         UNCHANGED <<owned, derived, unused, called, notified>>,
         a = "notify" /\ IsLink(x) => x.d \in derived,
         a = "notify" /\ IsUser(x) /\ d \in owned =>
           /\ x.f \notin unused
           /\ Unheard(cb[d]["notify"], called[d]["notify"], x.f)
           /\ \A t \in Things(rest) : ToTell(t) /\ t[3].d = d => t[3].f.f # x.f
  PROVE  NInv'
<1>1. PICK c : c = cb[d][a]
  OBVIOUS
<1>2. /\ cb \in [Deferreds -> [Actions -> Lists(Made)]] /\ d \in Deferreds
      /\ c \in Lists(Made) /\ IndexFits(c) /\ Made \subseteq Deferreds
      /\ Loops(calls, d, a) => c.firing
  BY <1>1, MadeFacts DEF DInv, Types, LoopsFit
<1>3. CASE c.list = Off
  <2>1. ~CallsAtOnce(c) /\ Added(c, x) = c
    BY <1>3 DEF CallsAtOnce, Added
  <2>2. calls' = rest /\ cb' = [cb EXCEPT ![d][a] = c]
    BY <1>1, <2>1 DEF Add
  <2>3. OneCell(d, a) /\ cb'[d][a] = c
    BY <1>2, <2>2, SetCell DEF OneCell
  <2>4. a = "notify" => CellStays(d) /\ cb'[d]["notify"].list = cb[d]["notify"].list
    BY <1>1, <2>2, <2>3 DEF CellStays
  <2>5. OneTold(d, a)
    BY <2>2, <2>3, <2>4, MadeFacts DEF OneTold
  <2> QED  BY <2>5, OneToldKeeps
<1>4. CASE c.list # Off
  <2>1. PICK n : n = IF CallsAtOnce(c) THEN Started(Added(c, x), c.memory) ELSE Added(c, x)
    OBVIOUS
  <2>2. /\ cb' = [cb EXCEPT ![d][a] = n]
        /\ calls' = IF CallsAtOnce(c) THEN <<Loop(d, a, c.memory)>> \o rest ELSE rest
    BY <1>1, <2>1 DEF Add
  <2>3. /\ n \in Lists(Made) /\ n.list = Append(c.list, x) /\ n.memory = c.memory
        /\ n.waiting = c.waiting
        /\ \/ n.firing = c.firing /\ n.firingIndex = c.firingIndex
           \/ CallsAtOnce(c) /\ n.firing = TRUE /\ n.firingIndex = Len(c.list)
    <3>0. x \in Firsts(Made) \cup Others(Made)
      OBVIOUS
    <3>1. CASE CallsAtOnce(c)
      <4>1. n = Started(Added(c, x), c.memory)
        BY <2>1, <3>1
      <4>2. TellsAtOnce(Made, c, x, Started(Added(c, x), c.memory))
        BY <1>2, <1>4, <3>0, <3>1, AddedTells
      <4>3. TellsAtOnce(Made, c, x, n)
        BY <4>1, <4>2
      <4> QED  BY <3>1, <4>3 DEF TellsAtOnce
    <3>2. CASE ~CallsAtOnce(c)
      <4>1. n = Added(c, x)
        BY <2>1, <3>2
      <4>2. IsAdded(Made, c, x, n)
        BY <1>2, <1>4, <3>0, <3>2, <4>1, AddedLater
      <4> QED  BY <4>2 DEF IsAdded
    <3> QED  BY <3>1, <3>2
  <2>4. OneCell(d, a) /\ cb'[d][a] = n
    BY <1>2, <2>2, <2>3, SetCell DEF OneCell
  <2>5. CallsAtOnce(c) => c.memory \in Nat /\ c.firing = FALSE /\ c.memory # Off
    BY <1>2 DEF CallsAtOnce, Lists
  <2>6. /\ Things(calls') = Things(rest)
        /\ \A e, w : LoopAt(calls', e, w) =>
             \/ e = d /\ a = "notify" /\ w = c.memory
             \/ LoopAt(rest, e, w)
    <3>1. CASE ~CallsAtOnce(c)
      BY <2>2, <3>1
    <3>2. CASE CallsAtOnce(c)
      <4>1. PICK v \in Nat : v = c.memory
        BY <2>5, <3>2
      <4>2. /\ Things(<<Loop(d, a, v)>> \o rest) = Things(rest)
            /\ \A e, w : LoopAt(<<Loop(d, a, v)>> \o rest, e, w) <=>
                 (e = d /\ a = "notify" /\ w = v) \/ LoopAt(rest, e, w)
        BY LoopTold
      <4>3. calls' = <<Loop(d, a, v)>> \o rest
        BY <2>2, <3>2, <4>1
      <4> QED  BY <4>1, <4>2, <4>3
    <3> QED  BY <3>1, <3>2
  <2>7. ASSUME a = "notify", d \in owned
        PROVE  CellTells(d)
    <3>1. PICK h : h = called[d]["notify"]
      OBVIOUS
    <3>2. Tells(c, h, notified, unused) /\ notified \in Nat
      BY <1>1, <2>7, <3>1, MadeFacts DEF NInv, TellsAll
    <3>3. IsUser(x) => x.f \notin unused /\ Unheard(c, h, x.f)
      BY <1>1, <2>7, <3>1
    <3>4. TellsMore(c, h, notified, unused, x, n)
      BY <2>3, <2>5, <3>3 DEF TellsMore
    <3>5. Tells(n, h, notified, unused)
      BY <1>2, <1>4, <3>2, <3>4, TellsAdded
    <3>6. ASSUME NEW w \in Nat, LoopAt(calls', d, w)
          PROVE  n.memory = w
      <4>1. CASE w = c.memory
        BY <2>3, <4>1
      <4>2. CASE LoopAt(rest, d, w)
        BY <1>1, <1>4, <2>3, <2>7, <4>2 DEF NInv, LoopsTell
      <4> QED  BY <2>6, <3>6, <4>1, <4>2
    <3>7. ASSUME NEW f, Waiting(d, f), Unheard(c, h, f)
          PROVE  Unheard(n, h, f)
      <4>1. IsUser(x) => x.f # f
        BY <2>6, <2>7, <3>7 DEF Waiting
      <4>2. PICK l : l = Append(c.list, x)
        OBVIOUS
      <4>3. c.list \in Seq(Firsts(Made) \cup Others(Made))
        BY <1>2, <1>4 DEF Lists
      <4>4. \A k \in DOMAIN l : (k \in DOMAIN c.list /\ l[k] = c.list[k]) \/ l[k] = x
        BY <4>2, <4>3
      <4>5. \A k \in DOMAIN l : IsUser(l[k]) => l[k].f # f
        BY <1>4, <3>7, <4>1, <4>4 DEF Unheard
      <4> QED  BY <2>3, <3>7, <4>2, <4>5 DEF Unheard
    <3> QED  BY <1>1, <2>4, <2>7, <3>1, <3>5, <3>6, <3>7 DEF CellTells
  <2>8. ASSUME a = "notify"
        PROVE  DerivedLinks(cb'[d]["notify"].list, derived)
    <3>1. PICK l : l = Append(c.list, x)
      OBVIOUS
    <3>2. c.list \in Seq(Firsts(Made) \cup Others(Made))
      BY <1>2, <1>4 DEF Lists
    <3>3. \A k \in DOMAIN l : (k \in DOMAIN c.list /\ l[k] = c.list[k]) \/ l[k] = x
      BY <3>1, <3>2
    <3>4. \A k \in DOMAIN c.list : IsLink(c.list[k]) => c.list[k].d \in derived
      BY <1>1, <1>4, <2>8 DEF NInv, DerivedTold, DerivedLinks
    <3>5. \A k \in DOMAIN l : IsLink(l[k]) => l[k].d \in derived
      BY <2>8, <3>3, <3>4
    <3> QED  BY <2>3, <2>4, <2>8, <3>1, <3>5 DEF DerivedLinks
  <2>9. OneTold(d, a)
    BY <2>4, <2>6, <2>7, <2>8, MadeFacts DEF OneTold
  <2> QED  BY <2>9, OneToldKeeps
<1> QED
  BY <1>3, <1>4

(* The next call of a piece of the library.                                *)
LEMMA RestTold ==
  ASSUME DInv, Running("library"), NEW rest, rest = RestOf(calls)
  PROVE  \A e, w : LoopAt(rest, e, w) => LoopAt(calls, e, w)
<1>1. calls # <<>> /\ Top.runs = "library" /\ Stack(Made, calls)
  BY DEF Running, DInv
<1>2. \A e, w : LoopAt(Below, e, w) => LoopAt(calls, e, w)
  BY <1>1, LoopAtPop DEF Below
<1>3. CASE Len(Top.todo) = 1
  <2>1. rest = Below
    BY <1>3 DEF RestOf, Top, Below
  <2> QED  BY <1>2, <2>1
<1>4. CASE Len(Top.todo) # 1
  <2>1. PICK f : f = Library(Tail(Top.todo))
    OBVIOUS
  <2>2. rest = <<f>> \o Below
    BY <1>4, <2>1 DEF RestOf, Top, Below
  <2>3. Stack(Made, Below) /\ Top.todo \in Seq(Jobs(Made)) /\ Top.todo # <<>>
    BY RestFacts DEF DInv
  <2>4. Tail(Top.todo) \in Seq(Jobs(Made)) /\ Tail(Top.todo) # <<>>
    BY <1>4, <2>3, TodoTail
  <2>5. f \in Frames(Made) /\ f.runs = "library"
    BY <2>1, <2>4, NewFrames DEF Library
  <2>6. \A e, w : LoopAt(<<f>> \o Below, e, w) <=>
          (IsLoop(f, e, "notify") /\ f.v = w) \/ LoopAt(Below, e, w)
    BY <2>3, <2>5, LoopAtPush DEF Stack
  <2> QED  BY <1>2, <2>2, <2>5, <2>6 DEF IsLoop
<1> QED
  BY <1>3, <1>4

LEMMA CallLibraryTold ==
  ASSUME DInv, VInv, NInv, CallLibrary
  PROVE  NInv'
<1>1. PICK rest, it : rest = RestOf(calls) /\ it = Head(Top.todo)
  OBVIOUS
<1>2. /\ Stack(Made, rest) /\ it \in Jobs(Made)
      /\ \/ it.call = "add" /\ Add(it.d, it.a, it.f, rest)
         \/ it.call = "fire" /\ Fire(it.d, it.a, it.v, rest)
         \/ /\ it.call = "check"
            /\ IF remaining[it.d] = 0 THEN Fire(it.d, "resolve", 0, rest)
               ELSE calls' = rest /\ UNCHANGED cb
      /\ UNCHANGED <<owned, derived, called, unused, notified>>
      /\ it.d \in Made
      /\ it.call = "add" => it.a \in Actions /\ it.f \in Others(Made)
      /\ it.call = "fire" => it.a \in Actions /\ it.v \in Nat
      /\ it.call \in {"add", "fire", "check"}
  BY <1>1, CallView
<1>3. Running("library")
  BY DEF CallLibrary
<1>4. PICK p \in Nat, q \in Nat :
        /\ q # 0 /\ Things(calls) = {<<p, q, it>>} \cup Things(rest)
        /\ \A t \in Things(rest) : t[1] = p => t[2] # q
  <2>1. \E p \in Nat, q \in Nat :
           /\ q # 0
           /\ Things(calls) = {<<p, q, Head(Top.todo)>>} \cup Things(rest)
           /\ \A t \in Things(rest) : t[1] = p => t[2] # q
    BY <1>1, <1>3, TakesCall
  <2> QED  BY <1>1, <2>1
<1>5. PICK u : u = <<p, q, it>>
  OBVIOUS
<1>6. u[1] = p /\ u[2] = q /\ u[3] = it /\ u \in Things(calls) /\ u \notin Things(rest)
  BY <1>4, <1>5
<1>7. Things(rest) \subseteq Things(calls)
  BY <1>4
<1>8. \A e, w : LoopAt(rest, e, w) => LoopAt(calls, e, w)
  BY <1>1, <1>3, RestTold
<1>9. PICK d : d = it.d
  OBVIOUS
<1>10. CASE it.call = "add"
  <2>1. PICK a, x : a = it.a /\ x = it.f
    OBVIOUS
  <2>2. Add(d, a, x, rest) /\ a \in Actions /\ x \in Others(Made) /\ d \in Made
    BY <1>2, <1>9, <1>10, <2>1
  <2>3. a = "notify" /\ IsLink(x) => x.d \in derived
    BY <1>4, <1>6, <1>10, <2>1 DEF NInv, DerivedTold, DerivedThing
  <2>4. ASSUME a = "notify", IsUser(x), d \in owned
        PROVE  /\ x.f \notin unused
               /\ Unheard(cb[d]["notify"], called[d]["notify"], x.f)
               /\ \A t \in Things(rest) : ToTell(t) /\ t[3].d = d => t[3].f.f # x.f
    <3>1. ToTell(u)
      BY <1>4, <1>6, <1>9, <1>10, <2>1, <2>4 DEF ToTell
    <3>2. u[3].d = d /\ u[3].f.f = x.f
      BY <1>6, <1>9, <2>1
    <3>3. x.f \notin unused /\ Unheard(cb[d]["notify"], called[d]["notify"], x.f)
      BY <1>6, <3>1, <3>2 DEF NInv, AddsTell
    <3>4. ASSUME NEW t \in Things(rest), ToTell(t), t[3].d = d, t[3].f.f = x.f
          PROVE  FALSE
      <4>1. t = u
        BY <1>6, <1>7, <3>1, <3>2, <3>4 DEF NInv, AddsTell
      <4> QED  BY <1>6, <3>4, <4>1
    <3> QED  BY <3>3, <3>4
  <2>5. Stack(Made, rest) /\ UNCHANGED <<owned, derived, unused, called, notified>>
    BY <1>2
  <2> QED  BY <1>7, <1>8, <2>2, <2>3, <2>4, <2>5, AddTold
<1>11. CASE it.call = "fire"
  <2>1. PICK a, v : a = it.a /\ v = it.v
    OBVIOUS
  <2>2. Fire(d, a, v, rest) /\ a \in Actions /\ v \in Nat /\ d \in Made
    BY <1>2, <1>9, <1>11, <2>1
  <2>3. ~(a = "notify" /\ d \in owned)
    <3>1. a = "notify" => d \in derived
      BY <1>4, <1>6, <1>9, <1>11, <2>1 DEF NInv, DerivedTold, DerivedThing
    <3> QED  BY <3>1 DEF VInv, DerivedTypes
  <2>4. /\ Stack(Made, rest) /\ UNCHANGED <<owned, derived, unused, called>>
        /\ notified' \in Nat /\ notified <= notified'
    BY <1>2, MadeFacts
  <2> QED  BY <1>7, <1>8, <2>2, <2>3, <2>4, FireTold
<1>12. CASE it.call = "check"
  <2>0. /\ Stack(Made, rest) /\ UNCHANGED <<owned, derived, unused, called>>
        /\ notified' \in Nat /\ notified <= notified' /\ d \in Made
        /\ "resolve" \in Actions /\ 0 \in Nat /\ "resolve" # "notify"
    BY <1>2, <1>9, MadeFacts DEF Actions
  <2>1. CASE Fire(d, "resolve", 0, rest)
    BY <1>7, <1>8, <2>0, <2>1, FireTold
  <2>2. CASE calls' = rest /\ UNCHANGED cb
    <3>1. OneCell(d, "resolve")
      BY <2>2 DEF OneCell
    <3>2. OneTold(d, "resolve")
      BY <1>7, <1>8, <2>0, <2>2, <3>1 DEF OneTold
    <3> QED  BY <3>2, OneToldKeeps
  <2> QED  BY <1>2, <1>9, <1>12, <2>1, <2>2
<1> QED
  BY <1>2, <1>10, <1>11, <1>12

(* User code.  It settles or notifies.                                     *)
LEMMA ActTold ==
  ASSUME DInv, NInv, NEW d \in Deferreds, NEW a \in Actions, Act(d, a)
  PROVE  NInv'
<1>1. PICK v : v = IF a = "notify" THEN notified + 1 ELSE 0
  OBVIOUS
<1>2. /\ d \in Made /\ Fire(d, a, v, calls)
      /\ UNCHANGED <<owned, derived, unused, called>>
      /\ notified' = IF a = "notify" THEN notified + 1 ELSE notified
  BY <1>1 DEF Act, Made, history
<1>3. notified \in Nat /\ Stack(Made, calls)
  BY MadeFacts
<1>4. v \in Nat /\ notified' \in Nat /\ notified <= notified'
  BY <1>1, <1>2, <1>3
<1>5. a = "notify" /\ d \in owned => v = notified + 1 /\ notified' = v
  BY <1>1, <1>2
<1> QED
  BY <1>2, <1>3, <1>4, <1>5, FireTold

(* The lists that there are and the loops stay, and what is put on the     *)
(* stack tells nobody.                                                     *)
LEMMA StackTold ==
  ASSUME DInv, NInv,
         owned' = owned, derived \subseteq derived', unused' \subseteq unused,
         UNCHANGED <<notified, called>>,
         \A e \in Made : cb'[e]["notify"] = cb[e]["notify"],
         \A e \in Made' : e \in Made \/ cb'[e]["notify"].list = <<>>,
         \A e, v : LoopAt(calls', e, v) => LoopAt(calls, e, v),
         \A t \in Things(calls') :
           t \in Things(calls) \/ (DerivedThing(t, derived') /\ ~ToTell(t))
  PROVE  NInv'
<1>1. notified \in Nat /\ notified' \in Nat /\ notified <= notified' /\ owned \subseteq Made
  BY MadeFacts
<1>2. \A e \in owned : CellStays(e)
  BY <1>1 DEF CellStays
<1>3. \A e \in Made' : \/ e \in Made /\ cb'[e]["notify"].list = cb[e]["notify"].list
                       \/ DerivedLinks(cb'[e]["notify"].list, derived')
  <2> TAKE e \in Made'
  <2>1. DerivedLinks(<<>>, derived')
    BY DEF DerivedLinks
  <2> QED  BY <2>1
<1>4. TellStep
  BY <1>1, <1>2, <1>3 DEF TellStep
<1> QED
  BY <1>4, TellStepKeeps

(* Links of what is derived are to be added.                               *)
LinksDerived(todo, D) ==
  \A k \in DOMAIN todo :
    /\ todo[k].call \in {"add", "check"}
    /\ todo[k].call = "add" => IsLink(todo[k].f) /\ todo[k].f.d \in D

LEMMA LinkThings ==
  ASSUME NEW S, NEW todo \in Seq(S), NEW D, LinksDerived(todo, D), NEW p
  PROVE  \A t \in In(Library(todo), p) : DerivedThing(t, D) /\ ~ToTell(t)
<1> TAKE t \in In(Library(todo), p)
<1>1. In(Library(todo), p) = {<<p, Len(todo) + 1 - k, todo[k]>> : k \in DOMAIN todo}
  BY DEF In, Library
<1>2. PICK k \in DOMAIN todo : t = <<p, Len(todo) + 1 - k, todo[k]>>
  BY <1>1
<1>3. t[3] = todo[k]
  BY <1>2
<1>4. t[3].call # "fire" /\ (t[3].call = "add" => IsLink(t[3].f) /\ t[3].f.d \in D)
  BY <1>3 DEF LinksDerived
<1>a. t[2] # 0
  <2>1. k \in 1 .. Len(todo) /\ Len(todo) \in Nat
    OBVIOUS
  <2>2. t[2] = Len(todo) + 1 - k
    BY <1>2
  <2> QED  BY <2>1, <2>2
<1>5. DerivedThing(t, D)
  BY <1>4, <1>a DEF DerivedThing
<1>6. ~ToTell(t)
  BY <1>4 DEF ToTell, IsUser, IsLink
<1> QED
  BY <1>5, <1>6

LEMMA NewListEmpty ==
  ASSUME DInv, NEW n \in Deferreds, n \notin Made,
         cb' = [cb EXCEPT ![n] = NewLists(n)]
  PROVE  /\ \A e \in Made : cb'[e] = cb[e]
         /\ cb'[n] = NewLists(n) /\ cb'[n]["notify"].list = <<>>
<1>1. PICK N : N = Made \cup {n}
  OBVIOUS
<1>2. N \subseteq Deferreds /\ n \in N
  BY <1>1 DEF DInv, Types, Made
<1>3. NewLists(n)["notify"].list = <<>>
  BY <1>2, NewListsFacts
<1>4. cb'[n] = NewLists(n)
  BY DEF DInv, Types
<1> QED
  BY <1>3, <1>4, NewCell

(* What then() and when() make.                                            *)
LEMMA DerivesTold ==
  ASSUME DInv, NInv, NEW n \in Deferreds, n \notin Made,
         owned' = owned, derived' = derived \cup {n}, unused' \subseteq unused,
         UNCHANGED <<notified, called>>, cb' = [cb EXCEPT ![n] = NewLists(n)],
         NEW todo \in Seq(Jobs(Made \cup {n})), todo # <<>>, LinksDerived(todo, {n}),
         NEW x, x = Library(todo), calls' = <<x>> \o calls
  PROVE  NInv'
<1>1. PICK N : N = Made \cup {n}
  OBVIOUS
<1>2. x \in Frames(N) /\ x.runs # "loop" /\ Made \subseteq N /\ Stack(Made, calls)
  <2>1. \A t \in Seq(Jobs(N)) : t # <<>> => Library(t) \in Frames(N)
    BY NewFrames
  <2>2. x.runs # "loop"
    BY DEF Library
  <2> QED  BY <1>1, <2>1, <2>2, MadeFacts
<1>3. /\ \A e, v : LoopAt(calls', e, v) => LoopAt(calls, e, v)
      /\ \A t \in Things(calls') : t \in Things(calls) \/ t \in In(x, Len(calls) + 1)
  BY <1>2, PushTold
<1>4. LinksDerived(todo, derived')
  BY DEF LinksDerived
<1>5. \A t \in In(x, Len(calls) + 1) : DerivedThing(t, derived') /\ ~ToTell(t)
  BY <1>4, LinkThings
<1>6. /\ \A e \in Made : cb'[e]["notify"] = cb[e]["notify"]
      /\ cb'[n]["notify"].list = <<>>
  BY NewListEmpty
<1>7. \A e \in Made' : e \in Made \/ cb'[e]["notify"].list = <<>>
  BY <1>6 DEF Made
<1>8. \A t \in Things(calls') :
        t \in Things(calls) \/ (DerivedThing(t, derived') /\ ~ToTell(t))
  BY <1>3, <1>5
<1>9. derived \subseteq derived'
  OBVIOUS
<1> QED
  BY <1>3, <1>6, <1>7, <1>8, <1>9, StackTold

LEMMA ThenTold ==
  ASSUME DInv, NInv, NEW d \in Deferreds, NEW n \in Deferreds, NEW a \in Actions,
         NEW f \in Fn \cup {Off}, Then(d, n, a, f)
  PROVE  NInv'
<1> DEFINE item(b) == Filter(n, b, IF a = b THEN f ELSE Off)
           todo == <<Adds(d, "resolve", item("resolve")),
                     Adds(d, "reject", item("reject")),
                     Adds(d, "notify", item("notify"))>>
           N == Made \cup {n}
<1>1. /\ d \in Made /\ n \notin Made
      /\ owned' = owned /\ derived' = derived \cup {n} /\ unused' \subseteq unused
      /\ cb' = [cb EXCEPT ![n] = NewLists(n)] /\ UNCHANGED <<notified, called>>
      /\ calls' = <<Library(todo)>> \o calls
  BY DEF Then
<1>2. d \in N
  BY <1>1
<1>3. \A b \in Actions : item(b) \in Others(N) /\ IsLink(item(b)) /\ item(b).d = n
  <2> TAKE b \in Actions
  <2>1. (IF a = b THEN f ELSE Off) \in Fn \cup {Off} /\ n \in N
    OBVIOUS
  <2>2. \A g \in Fn \cup {Off} : Filter(n, b, g) \in Others(N)
    BY <2>1, ItemKinds
  <2> QED  BY <2>1, <2>2 DEF Filter, IsLink
<1> HIDE DEF item
<1>4. PICK u, v, w : /\ u = Adds(d, "resolve", item("resolve"))
                     /\ v = Adds(d, "reject", item("reject"))
                     /\ w = Adds(d, "notify", item("notify"))
  OBVIOUS
<1>5. \A q \in {u, v, w} : /\ q \in Jobs(N) /\ q.call = "add"
                           /\ IsLink(q.f) /\ q.f.d \in {n}
  <2>1. \A b \in Actions : /\ Adds(d, b, item(b)) \in Jobs(N)
                           /\ Adds(d, b, item(b)).call = "add"
                           /\ Adds(d, b, item(b)).f = item(b)
    BY <1>2, <1>3, NewJobs DEF Adds
  <2>2. "resolve" \in Actions /\ "reject" \in Actions /\ "notify" \in Actions
    BY DEF Actions
  <2> QED  BY <1>3, <1>4, <2>1, <2>2
<1>6. PICK s : s = <<u, v, w>>
  OBVIOUS
<1>7. s \in Seq(Jobs(N)) /\ s # <<>> /\ \A k \in DOMAIN s : s[k] \in {u, v, w}
  BY <1>5, <1>6
<1>8. calls' = <<Library(s)>> \o calls
  BY <1>1, <1>4, <1>6
<1>9. LinksDerived(s, {n})
  BY <1>5, <1>7 DEF LinksDerived
<1>10. PICK x : x = Library(s)
  OBVIOUS
<1> QED
  BY <1>1, <1>7, <1>8, <1>9, <1>10, DerivesTold

LEMMA WhenTold ==
  ASSUME DInv, NInv, NEW d \in Deferreds, NEW n \in Deferreds,
         NEW e \in Deferreds \cup {Off}, When(d, e, n)
  PROVE  NInv'
<1> DEFINE N == Made \cup {n}
           both == Three(n, d) \o (IF e = Off THEN <<>> ELSE Three(n, e))
<1>1. /\ d \in Made /\ e \in Made \cup {Off} /\ n \notin Made
      /\ owned' = owned /\ derived' = derived \cup {n} /\ unused' \subseteq unused
      /\ cb' = [cb EXCEPT ![n] = NewLists(n)] /\ UNCHANGED <<notified, called>>
      /\ calls' = <<Library(both \o <<Checks(n)>>)>> \o calls
  <2>1. calls' = <<Library(both \o <<Checks(n)>>)>> \o calls
    BY DEF When, Three
  <2> QED  BY <2>1 DEF When
<1> HIDE DEF both
<1>2. d \in N /\ n \in N /\ (e # Off => e \in N)
  BY <1>1
<1> HIDE DEF N
<1>3. \A k \in N : Three(n, k) \in Seq(Jobs(N)) /\ LinksDerived(Three(n, k), {n})
  <2> TAKE k \in N
  <2>1. Three(n, k) \in Seq(Jobs(N))
    BY <1>2, ThreeJobs
  <2>2. PICK s : s = Three(n, k)
    OBVIOUS
  <2>3. PICK u, v, w : /\ u = Adds(k, "resolve", Count(n))
                       /\ v = Adds(k, "reject", Forward(n, "reject"))
                       /\ w = Adds(k, "notify", Forward(n, "notify"))
    OBVIOUS
  <2>4. \A q \in {u, v, w} : q.call = "add" /\ IsLink(q.f) /\ q.f.d \in {n}
    BY <2>3 DEF Adds, IsLink, Count, Forward
  <2>5. s = <<u, v, w>>
    BY <2>2, <2>3 DEF Three
  <2>6. \A i \in DOMAIN s : s[i] \in {u, v, w}
    BY <2>5
  <2>7. LinksDerived(s, {n})
    BY <2>4, <2>6 DEF LinksDerived
  <2> QED  BY <2>1, <2>2, <2>7
<1>4. PICK t : t = <<Checks(n)>>
  OBVIOUS
<1>5. t \in Seq(Jobs(N)) /\ LinksDerived(t, {n})
  <2>1. Checks(n) \in Jobs(N) /\ Checks(n).call = "check"
    BY <1>2, NewJobs DEF Checks
  <2>2. t \in Seq(Jobs(N)) /\ \A i \in DOMAIN t : t[i] = Checks(n)
    BY <1>4, <2>1
  <2> QED  BY <2>1, <2>2 DEF LinksDerived
<1>6. \A p, q \in Seq(Jobs(N)) : LinksDerived(p, {n}) /\ LinksDerived(q, {n}) =>
        /\ p \o q \in Seq(Jobs(N)) /\ Len(p \o q) = Len(p) + Len(q)
        /\ LinksDerived(p \o q, {n})
  <2> TAKE p, q \in Seq(Jobs(N))
  <2> HAVE LinksDerived(p, {n}) /\ LinksDerived(q, {n})
  <2>1. PICK r : r = p \o q
    OBVIOUS
  <2>2. r \in Seq(Jobs(N)) /\ Len(r) = Len(p) + Len(q) /\ DOMAIN r = 1 .. Len(p) + Len(q)
    BY <2>1
  <2>3. /\ \A i \in 1 .. Len(p) : r[i] = p[i]
        /\ \A i \in 1 .. Len(r) : i > Len(p) => r[i] = q[i - Len(p)] /\ i - Len(p) \in 1 .. Len(q)
    BY <2>1, <2>2
  <2>4. \A i \in DOMAIN r : \/ \E k \in DOMAIN p : r[i] = p[k]
                            \/ \E k \in DOMAIN q : r[i] = q[k]
    BY <2>2, <2>3
  <2>5. LinksDerived(r, {n})
    BY <2>4 DEF LinksDerived
  <2> QED  BY <2>1, <2>2, <2>5
<1>7. both \in Seq(Jobs(N)) /\ LinksDerived(both, {n})
  <2>1. PICK u : u = Three(n, d)
    OBVIOUS
  <2>2. u \in Seq(Jobs(N)) /\ LinksDerived(u, {n})
    BY <1>2, <1>3, <2>1
  <2>3. CASE e = Off
    <3>1. both = u \o <<>>
      BY <2>1, <2>3 DEF both
    <3>2. u \o <<>> = u
      BY <2>2, ConcatGroups
    <3> QED  BY <2>2, <3>1, <3>2
  <2>4. CASE e # Off
    <3>1. PICK v : v = Three(n, e)
      OBVIOUS
    <3>2. v \in Seq(Jobs(N)) /\ LinksDerived(v, {n})
      BY <1>2, <1>3, <2>4, <3>1
    <3>3. both = u \o v
      BY <2>1, <2>4, <3>1 DEF both
    <3> QED  BY <1>6, <2>2, <3>2, <3>3
  <2> QED  BY <2>3, <2>4
<1>8. PICK s : s = both \o t
  OBVIOUS
<1>9. s \in Seq(Jobs(N)) /\ LinksDerived(s, {n}) /\ Len(s) = Len(both) + Len(t)
  BY <1>5, <1>6, <1>7, <1>8
<1>10. s # <<>>
  <2>1. Len(t) = 1 /\ Len(both) \in Nat
    BY <1>4, <1>7
  <2>2. Len(s) # Len(<<>>)
    BY <1>9, <2>1
  <2> QED  BY ONLY <2>2
<1>11. calls' = <<Library(s)>> \o calls
  BY <1>1, <1>4, <1>8
<1>12. PICK x : x = Library(s)
  OBVIOUS
<1>13. s \in Seq(Jobs(Made \cup {n}))
  BY <1>9 DEF N
<1> QED
  BY <1>1, <1>9, <1>10, <1>11, <1>12, <1>13, DerivesTold

(* A filter that runs is one of a derived deferred.                        *)
LEMMA FilterDerived ==
  ASSUME DInv, NInv, Running("body"), Top.d # Off
  PROVE  Top.d \in Made /\ Top.d \in derived /\ Top.a \in Actions
<1>1. Stack(Made, calls) /\ calls # <<>> /\ Top.runs = "body"
  BY DEF DInv, Running
<1>2. Top \in Frames(Made)
  BY <1>1, Pop DEF Top
<1>3. PICK p : p = Len(calls)
  OBVIOUS
<1>4. p \in Nat /\ Things(calls) = In(Top, p) \cup Things(Below)
  BY <1>1, <1>3, TopThings
<1>5. Top.d \in Made /\ Top.a \in Actions
  BY <1>1, <1>2, FrameKinds
<1>6. PICK t : t = <<p, 0, Top>>
  OBVIOUS
<1>7. t \in Things(calls) /\ t[2] = 0 /\ t[3] = Top
  <2>1. In(Top, p) = {<<p, 0, Top>>}
    BY <1>1 DEF In
  <2> QED  BY <1>4, <1>6, <2>1
<1>8. Top.d \in derived
  BY <1>7 DEF NInv, DerivedTold, DerivedThing
<1> QED
  BY <1>5, <1>8

(* What is below the top was there before.                                 *)
LEMMA BelowTold ==
  ASSUME DInv, Running("body")
  PROVE  /\ Stack(Made, Below)
         /\ \A e, v : LoopAt(Below, e, v) => LoopAt(calls, e, v)
         /\ \A t \in Things(Below) : t \in Things(calls)
<1>1. Stack(Made, calls) /\ calls # <<>>
  BY DEF DInv, Running
<1>2. Stack(Made, Tail(calls))
  BY <1>1, Pop
<1>3. \A e, v : LoopAt(Tail(calls), e, v) => LoopAt(calls, e, v)
  BY <1>1, LoopAtPop
<1>4. Things(calls) = In(Top, Len(calls)) \cup Things(Below)
  BY <1>1, TopThings
<1> QED
  BY <1>2, <1>3, <1>4 DEF Below

(* A function returns: it leaves something to do, or nothing.              *)
LEMMA LeaveTold ==
  ASSUME DInv, NInv, Running("body"),
         UNCHANGED <<owned, derived, unused, notified, called, cb>>,
         \/ calls' = Below
         \/ \E f \in Frames(Made) :
              /\ f.runs # "loop" /\ calls' = <<f>> \o Below
              /\ \A t \in In(f, Len(Below) + 1) :
                   DerivedThing(t, derived) /\ ~ToTell(t)
  PROVE  NInv'
<1>1. /\ \A e, v : LoopAt(calls', e, v) => LoopAt(calls, e, v)
      /\ \A t \in Things(calls') :
           t \in Things(calls) \/ (DerivedThing(t, derived) /\ ~ToTell(t))
  <2>1. CASE calls' = Below
    BY <2>1, BelowTold
  <2>2. CASE calls' # Below
    <3>1. PICK f \in Frames(Made) :
              /\ f.runs # "loop" /\ calls' = <<f>> \o Below
              /\ \A t \in In(f, Len(Below) + 1) :
                   DerivedThing(t, derived) /\ ~ToTell(t)
      BY <2>2
    <3>2. /\ \A e, v : LoopAt(calls', e, v) => LoopAt(Below, e, v)
          /\ \A t \in Things(calls') : t \in Things(Below) \/ t \in In(f, Len(Below) + 1)
      BY <3>1, BelowTold, PushTold
    <3>3. \A e, v : LoopAt(calls', e, v) => LoopAt(calls, e, v)
      BY <3>2, BelowTold
    <3>4. \A t \in Things(calls') :
            t \in Things(calls) \/ (DerivedThing(t, derived) /\ ~ToTell(t))
      BY <3>1, <3>2, BelowTold
    <3> QED  BY <3>3, <3>4
  <2> QED  BY <2>1, <2>2
<1>2. \A e \in Made' : e \in Made \/ cb'[e]["notify"].list = <<>>
  BY DEF Made
<1> QED
  BY <1>1, <1>2, StackTold

LEMMA ReturnTold ==
  ASSUME DInv, NInv, Return
  PROVE  NInv'
<1>1. /\ Running("body") /\ calls' = Below
      /\ UNCHANGED <<owned, derived, unused, notified, called, cb>>
  BY DEF Return, lists, history
<1> QED
  BY <1>1, LeaveTold

LEMMA ReturnValueTold ==
  ASSUME DInv, NInv, ReturnValue
  PROVE  NInv'
<1>1. /\ Running("body") /\ Top.d # Off
      /\ calls' = <<Library(<<Fires(Top.d, Top.a, 0)>>)>> \o Below
      /\ UNCHANGED <<owned, derived, unused, notified, called, cb>>
  BY DEF ReturnValue, lists, history
<1>2. Top.d \in Made /\ Top.d \in derived /\ Top.a \in Actions
  BY <1>1, FilterDerived
<1>3. PICK d, a : d = Top.d /\ a = Top.a
  OBVIOUS
<1>4. PICK x, f : x = Fires(d, a, 0) /\ f = Library(<<x>>)
  OBVIOUS
<1>5. x \in Jobs(Made) /\ f \in Frames(Made) /\ f.runs # "loop"
  <2>1. x \in Jobs(Made)
    BY <1>2, <1>3, <1>4, ActionFacts, NewJobs
  <2>2. <<x>> \in Seq(Jobs(Made)) /\ <<x>> # <<>>
    BY <2>1
  <2> QED  BY <1>4, <2>1, <2>2, NewFrames DEF Library
<1>6. \A t \in In(Library(<<x>>), Len(Below) + 1) : DerivedThing(t, derived) /\ ~ToTell(t)
  BY <1>2, <1>3, <1>4, <1>5, FiresTold
<1>7. calls' = <<f>> \o Below
  BY <1>1, <1>3, <1>4
<1> QED
  BY <1>1, <1>4, <1>5, <1>6, <1>7, LeaveTold

LEMMA ReturnPromiseTold ==
  ASSUME DInv, NInv, NEW o \in Deferreds, ReturnPromise(o)
  PROVE  NInv'
<1>1. /\ Running("body") /\ Top.d # Off /\ o \in Made
      /\ calls' = <<Library(<<Adds(o, "resolve", Forward(Top.d, "resolve")),
                              Adds(o, "reject", Forward(Top.d, "reject")),
                              Adds(o, "notify", Forward(Top.d, "notify"))>>)>> \o Below
      /\ UNCHANGED <<owned, derived, unused, notified, called, cb>>
  BY DEF ReturnPromise, lists
<1>2. PICK n : n = Top.d
  OBVIOUS
<1>3. n \in Made /\ n \in derived
  BY <1>1, <1>2, FilterDerived
<1>4. PICK u, v, w : /\ u = Adds(o, "resolve", Forward(n, "resolve"))
                     /\ v = Adds(o, "reject", Forward(n, "reject"))
                     /\ w = Adds(o, "notify", Forward(n, "notify"))
  OBVIOUS
<1>5. \A q \in {u, v, w} : /\ q \in Jobs(Made) /\ q.call = "add"
                           /\ IsLink(q.f) /\ q.f.d \in derived
  <2>1. \A b \in Actions : Forward(n, b) \in Others(Made)
    BY <1>3, ItemKinds
  <2>2. \A b \in Actions : /\ Adds(o, b, Forward(n, b)) \in Jobs(Made)
                           /\ Adds(o, b, Forward(n, b)).call = "add"
                           /\ Adds(o, b, Forward(n, b)).f = Forward(n, b)
    BY <1>1, <2>1, NewJobs DEF Adds
  <2>3. \A b : IsLink(Forward(n, b)) /\ Forward(n, b).d = n
    BY DEF Forward, IsLink
  <2>4. "resolve" \in Actions /\ "reject" \in Actions /\ "notify" \in Actions
    BY DEF Actions
  <2> QED  BY <1>3, <1>4, <2>2, <2>3, <2>4
<1>6. PICK s : s = <<u, v, w>>
  OBVIOUS
<1>7. s \in Seq(Jobs(Made)) /\ s # <<>> /\ \A k \in DOMAIN s : s[k] \in {u, v, w}
  BY <1>5, <1>6
<1>8. calls' = <<Library(s)>> \o Below
  BY <1>1, <1>2, <1>4, <1>6
<1>9. LinksDerived(s, derived)
  BY <1>5, <1>7 DEF LinksDerived
<1>10. PICK f : f = Library(s)
  OBVIOUS
<1>11. f \in Frames(Made) /\ f.runs # "loop"
  BY <1>7, <1>10, NewFrames DEF Library
<1>12. \A t \in In(f, Len(Below) + 1) : DerivedThing(t, derived) /\ ~ToTell(t)
  BY <1>7, <1>9, <1>10, LinkThings
<1> QED
  BY <1>1, <1>8, <1>10, <1>11, <1>12, LeaveTold

LEMMA ThrowTold ==
  ASSUME DInv, NInv, Throw
  PROVE  NInv'
<1>1. /\ calls' = <<>> /\ UNCHANGED <<owned, derived, unused, notified, called, cb>>
  BY DEF Throw, lists
<1>2. Things(calls') = {}
  BY <1>1, NoThings
<1>3. \A e, v : ~LoopAt(calls', e, v)
  BY <1>1 DEF LoopAt
<1>4. \A e \in Made' : e \in Made \/ cb'[e]["notify"].list = <<>>
  BY <1>1 DEF Made
<1> QED
  BY <1>1, <1>2, <1>3, <1>4, StackTold

(* A deferred is made: no loop and no call is of it.                       *)
LEMMA MakeDeferredTold ==
  ASSUME DInv, NInv, NEW d \in Deferreds, MakeDeferred(d)
  PROVE  NInv'
<1>1. /\ d \notin Made /\ owned' = owned \cup {d} /\ cb' = [cb EXCEPT ![d] = NewLists(d)]
      /\ UNCHANGED <<derived, calls, unused, notified, called>>
  BY DEF MakeDeferred, history
<1>2. /\ \A e \in Made : cb'[e] = cb[e]
      /\ cb'[d] = NewLists(d) /\ cb'[d]["notify"].list = <<>>
  BY <1>1, NewListEmpty
<1>3. owned \subseteq Made /\ Made' = Made \cup {d} /\ Stack(Made, calls)
  BY <1>1, MadeFacts DEF Made
<1>4. called[d]["notify"] = <<>>
  BY <1>1, ActionFacts DEF DInv, UnmadeFits
<1>5. TellsAll'
  <2> SUFFICES ASSUME NEW e \in owned'
               PROVE  Tells(cb'[e]["notify"], called'[e]["notify"], notified', unused')
    BY DEF TellsAll
  <2>1. CASE e = d
    <3>1. Tells(NewLists(d)["notify"], <<>>, notified, unused)
      BY TellsNew
    <3> QED  BY <1>1, <1>2, <1>4, <2>1, <3>1
  <2>2. CASE e # d
    <3>1. e \in owned /\ cb'[e]["notify"] = cb[e]["notify"]
      BY <1>1, <1>2, <1>3, <2>2
    <3>2. Tells(cb[e]["notify"], called[e]["notify"], notified, unused)
      BY <3>1 DEF NInv, TellsAll
    <3> QED  BY <1>1, <3>1, <3>2
  <2> QED  BY <2>1, <2>2
<1>6. \A v : ~LoopAt(calls, d, v)
  <2>1. ASSUME NEW v, NEW i \in DOMAIN calls, IsLoop(calls[i], d, "notify") PROVE FALSE
    <3>1. calls[i] \in Frames(Made)
      BY <1>3, <2>1 DEF Stack
    <3>2. calls[i].d \in Made
      BY <2>1, <3>1, FrameKinds DEF IsLoop
    <3> QED  BY <1>1, <2>1, <3>2 DEF IsLoop
  <2> QED  BY <2>1 DEF LoopAt
<1>7. LoopsTell'
  <2> SUFFICES ASSUME NEW e \in owned', NEW v \in Nat,
                      LoopAt(calls', e, v), cb'[e]["notify"].list # Off
               PROVE  cb'[e]["notify"].memory = v
    BY DEF LoopsTell
  <2>1. LoopAt(calls, e, v) /\ e # d
    BY <1>1, <1>6
  <2>2. e \in owned /\ cb'[e]["notify"] = cb[e]["notify"]
    BY <1>1, <1>2, <1>3, <2>1
  <2> QED  BY <2>1, <2>2 DEF NInv, LoopsTell
<1>8. DerivedTold'
  <2>1. \A e \in Made : DerivedLinks(cb[e]["notify"].list, derived)
    BY DEF NInv, DerivedTold
  <2>2. DerivedLinks(<<>>, derived)
    BY DEF DerivedLinks
  <2>3. \A e \in Made' : DerivedLinks(cb'[e]["notify"].list, derived')
    BY <1>1, <1>2, <1>3, <2>1, <2>2
  <2>4. \A t \in Things(calls') : DerivedThing(t, derived')
    BY <1>1 DEF NInv, DerivedTold
  <2> QED  BY <2>3, <2>4 DEF DerivedTold
<1>9. ASSUME NEW t \in Things(calls), ToTell(t)'
      PROVE  ToTell(t) /\ t[3].d \in Made
  <2>1. /\ t[2] # 0 /\ t[3].call = "add" /\ t[3].a = "notify" /\ IsUser(t[3].f)
        /\ t[3].d \in owned'
    BY <1>9 DEF ToTell
  <2>2. t[3] \in Jobs(Made)
    BY <1>3, <2>1, ThingPlaces
  <2>3. t[3].d \in Made
    BY <2>2 DEF Jobs
  <2>4. t[3].d \in owned
    BY <1>1, <2>1, <2>3
  <2> QED  BY <2>1, <2>3, <2>4 DEF ToTell
<1>10. AddsTell'
  <2>1. ASSUME NEW t \in Things(calls'), ToTell(t)'
        PROVE  /\ t[3].f.f \notin unused'
               /\ Unheard(cb'[t[3].d]["notify"], called'[t[3].d]["notify"], t[3].f.f)
    <3>1. t \in Things(calls) /\ ToTell(t) /\ t[3].d \in Made
      BY <1>1, <1>9, <2>1
    <3>2. /\ t[3].f.f \notin unused
          /\ Unheard(cb[t[3].d]["notify"], called[t[3].d]["notify"], t[3].f.f)
      BY <3>1 DEF NInv, AddsTell
    <3>3. cb'[t[3].d] = cb[t[3].d]
      BY <1>2, <3>1
    <3> QED  BY <1>1, <3>2, <3>3
  <2>2. ASSUME NEW t \in Things(calls'), NEW u \in Things(calls'), ToTell(t)', ToTell(u)',
               t[3].d = u[3].d, t[3].f.f = u[3].f.f
        PROVE  t = u
    <3>1. t \in Things(calls) /\ ToTell(t) /\ u \in Things(calls) /\ ToTell(u)
      BY <1>1, <1>9, <2>2
    <3> QED  BY <2>2, <3>1 DEF NInv, AddsTell
  <2> QED  BY <2>1, <2>2 DEF AddsTell
<1> QED
  BY <1>5, <1>7, <1>8, <1>10 DEF NInv

(* A function that was not used is unheard of.                             *)
LEMMA UnusedUnheard ==
  ASSUME NInv, NEW d \in owned, NEW f \in unused
  PROVE  Unheard(cb[d]["notify"], called[d]["notify"], f)
<1>1. PICK c, h : c = cb[d]["notify"] /\ h = called[d]["notify"]
  OBVIOUS
<1>2. Tells(c, h, notified, unused)
  BY <1>1 DEF NInv, TellsAll
<1>3. \A i \in DOMAIN h : h[i][1] # f
  BY <1>2 DEF Tells, HistoryFits
<1>4. c.list # Off => \A k \in DOMAIN c.list : IsUser(c.list[k]) => c.list[k].f # f
  BY <1>2 DEF Tells, UsersFit
<1> QED
  BY <1>1, <1>3, <1>4 DEF Unheard

(* The function that is given is on the stack once, for a list for the     *)
(* progress.                                                               *)
Gives(todo, d, f) ==
  /\ \A k \in DOMAIN todo : /\ todo[k].call = "add" /\ todo[k].f = User(f)
                            /\ todo[k].d = d
  /\ \A k, l \in DOMAIN todo : todo[k].a = "notify" => k = l

LEMMA GivesTold ==
  ASSUME DInv, NInv, NEW d \in Deferreds, NEW f \in unused,
         UNCHANGED <<owned, derived, cb, notified, called>>, unused' = unused \ {f},
         NEW todo \in Seq(Jobs(Made)), todo # <<>>, Gives(todo, d, f),
         NEW x, x = Library(todo), calls' = <<x>> \o calls
  PROVE  NInv'
<1>1. x \in Frames(Made) /\ x.runs # "loop" /\ Stack(Made, calls)
  BY NewFrames, MadeFacts DEF Library
<1>2. PICK p : p = Len(calls) + 1
  OBVIOUS
<1>3. /\ \A e, v : LoopAt(calls', e, v) => LoopAt(calls, e, v)
      /\ \A t \in Things(calls') : t \in Things(calls) \/ t \in In(x, p)
  BY <1>1, <1>2, PushTold
<1>4. \A t \in In(x, p) : \E k \in DOMAIN todo : t = <<p, Len(todo) + 1 - k, todo[k]>>
  BY DEF In, Library
<1>5. ASSUME NEW t \in In(x, p)
      PROVE  t[3].call = "add" /\ t[3].f = User(f) /\ t[3].d = d /\ t[2] # 0
  <2>1. PICK k \in DOMAIN todo : t = <<p, Len(todo) + 1 - k, todo[k]>>
    BY <1>4
  <2>2. t[3] = todo[k] /\ t[2] = Len(todo) + 1 - k
    BY <2>1
  <2>3. k \in 1 .. Len(todo) /\ Len(todo) \in Nat
    OBVIOUS
  <2>4. t[2] # 0
    BY <2>2, <2>3
  <2> QED  BY <2>2, <2>4 DEF Gives
<1>6. ASSUME NEW t \in In(x, p), NEW u \in In(x, p), t[3].a = "notify"
      PROVE  t = u
  <2>1. PICK k \in DOMAIN todo : t = <<p, Len(todo) + 1 - k, todo[k]>>
    BY <1>4
  <2>2. PICK l \in DOMAIN todo : u = <<p, Len(todo) + 1 - l, todo[l]>>
    BY <1>4
  <2>3. t[3] = todo[k]
    BY <2>1
  <2>4. k = l
    BY <1>6, <2>3 DEF Gives
  <2> QED  BY <2>1, <2>2, <2>4
<1>7. \A t : ToTell(t)' <=> ToTell(t)
  BY DEF ToTell
<1>8. notified \in Nat /\ unused' \subseteq unused /\ f \notin unused'
  BY MadeFacts
<1>9. TellsAll'
  <2> SUFFICES ASSUME NEW e \in owned
               PROVE  Tells(cb[e]["notify"], called[e]["notify"], notified, unused')
    BY DEF TellsAll
  <2>1. Tells(cb[e]["notify"], called[e]["notify"], notified, unused)
    BY DEF NInv, TellsAll
  <2> QED  BY <1>8, <2>1, TellsGrow
<1>10. LoopsTell'
  BY <1>3 DEF NInv, LoopsTell
<1>11. DerivedTold'
  <2>1. \A e \in Made' : DerivedLinks(cb'[e]["notify"].list, derived')
    BY DEF NInv, DerivedTold, Made
  <2>2. \A t \in In(x, p) : DerivedThing(t, derived)
    BY <1>5 DEF DerivedThing, IsLink, User
  <2>3. \A t \in Things(calls') : DerivedThing(t, derived')
    BY <1>3, <2>2 DEF NInv, DerivedTold
  <2> QED  BY <2>1, <2>3 DEF DerivedTold
<1>12. User(f).f = f
  BY DEF User
<1>13. ASSUME NEW t \in Things(calls), ToTell(t)
       PROVE  /\ t[3].f.f \notin unused
              /\ Unheard(cb[t[3].d]["notify"], called[t[3].d]["notify"], t[3].f.f)
  BY <1>13 DEF NInv, AddsTell
<1>14. AddsTell'
  <2>1. ASSUME NEW t \in Things(calls'), ToTell(t)
        PROVE  /\ t[3].f.f \notin unused'
               /\ Unheard(cb[t[3].d]["notify"], called[t[3].d]["notify"], t[3].f.f)
    <3>1. CASE t \in Things(calls)
      BY <1>8, <1>13, <2>1, <3>1
    <3>2. CASE t \in In(x, p)
      <4>1. t[3].f.f = f /\ t[3].d = d
        BY <1>5, <1>12, <3>2
      <4>2. d \in owned
        BY <2>1, <4>1 DEF ToTell
      <4>3. Unheard(cb[d]["notify"], called[d]["notify"], f)
        BY <4>2, UnusedUnheard
      <4> QED  BY <1>8, <4>1, <4>3
    <3> QED  BY <1>3, <3>1, <3>2
  <2>2. ASSUME NEW t \in Things(calls'), NEW u \in Things(calls'), ToTell(t), ToTell(u),
               t[3].d = u[3].d, t[3].f.f = u[3].f.f
        PROVE  t = u
    <3>1. CASE t \in Things(calls) /\ u \in Things(calls)
      BY <2>2, <3>1 DEF NInv, AddsTell
    <3>2. CASE t \in In(x, p) /\ u \in In(x, p)
      BY <1>6, <2>2, <3>2 DEF ToTell
    <3>3. CASE t \in In(x, p) /\ u \in Things(calls)
      BY <1>5, <1>12, <1>13, <2>2, <3>3
    <3>4. CASE t \in Things(calls) /\ u \in In(x, p)
      BY <1>5, <1>12, <1>13, <2>2, <3>4
    <3> QED  BY <1>3, <3>1, <3>2, <3>3, <3>4
  <2>3. \A t \in Things(calls') : ToTell(t)' =>
          /\ t[3].f.f \notin unused'
          /\ Unheard(cb'[t[3].d]["notify"], called'[t[3].d]["notify"], t[3].f.f)
    BY <1>7, <2>1
  <2>4. \A t, u \in Things(calls') :
          ToTell(t)' /\ ToTell(u)' /\ t[3].d = u[3].d /\ t[3].f.f = u[3].f.f => t = u
    BY <1>7, <2>2
  <2> QED  BY <2>3, <2>4 DEF AddsTell
<1> QED
  BY <1>9, <1>10, <1>11, <1>14 DEF NInv

LEMMA AddUserTold ==
  ASSUME DInv, NInv, NEW d \in Deferreds, NEW f \in Fn,
         NEW as, as = Settling \/ \E a \in Actions : as = {a},
         AddUser(d, as, f)
  PROVE  NInv'
<1>1. /\ d \in Made /\ f \in unused /\ unused' = unused \ {f}
      /\ UNCHANGED <<owned, derived, cb, notified, called>>
  BY DEF AddUser, lists
<1>2. User(f) \in Others(Made)
  BY ItemKinds DEF User
<1>3. \A a \in Actions : /\ Adds(d, a, User(f)) \in Jobs(Made)
                         /\ Adds(d, a, User(f)).call = "add" /\ Adds(d, a, User(f)).a = a
                         /\ Adds(d, a, User(f)).f = User(f) /\ Adds(d, a, User(f)).d = d
  BY <1>1, <1>2, NewJobs DEF Adds
<1>4. CASE as = Settling
  <2>1. PICK s, t, todo : /\ s = Adds(d, "resolve", User(f))
                          /\ t = Adds(d, "reject", User(f)) /\ todo = <<s, t>>
    OBVIOUS
  <2>2. calls' = <<Library(todo)>> \o calls
    BY <1>4, <2>1 DEF AddUser
  <2>3. /\ s \in Jobs(Made) /\ s.call = "add" /\ s.f = User(f) /\ s.d = d /\ s.a = "resolve"
        /\ t \in Jobs(Made) /\ t.call = "add" /\ t.f = User(f) /\ t.d = d /\ t.a = "reject"
    BY <1>3, <2>1 DEF Actions
  <2>4. todo \in Seq(Jobs(Made)) /\ todo # <<>> /\ DOMAIN todo = {1, 2}
        /\ todo[1] = s /\ todo[2] = t
    BY <2>1, <2>3
  <2>5. Gives(todo, d, f)
    BY <2>3, <2>4 DEF Gives
  <2>6. PICK x : x = Library(todo)
    OBVIOUS
  <2> QED  BY <1>1, <2>2, <2>4, <2>5, <2>6, GivesTold
<1>5. CASE \E a \in Actions : as = {a}
  <2>1. PICK a \in Actions : as = {a}
    BY <1>5
  <2>2. PICK s, todo : s = Adds(d, a, User(f)) /\ todo = <<s>>
    OBVIOUS
  <2>3. as # Settling /\ (CHOOSE b \in as : TRUE) = a
    <3>1. "resolve" \in Settling /\ "reject" \in Settling /\ "resolve" # "reject"
      BY DEF Settling
    <3>2. as # Settling
      BY <2>1, <3>1
    <3>3. (CHOOSE b \in as : TRUE) \in as
      BY <2>1
    <3> QED  BY <2>1, <3>2, <3>3
  <2>4. calls' = <<Library(todo)>> \o calls
    BY <2>2, <2>3 DEF AddUser
  <2>5. s \in Jobs(Made) /\ s.call = "add" /\ s.f = User(f) /\ s.d = d
    BY <1>3, <2>2
  <2>6. todo \in Seq(Jobs(Made)) /\ todo # <<>> /\ DOMAIN todo = {1} /\ todo[1] = s
    BY <2>2, <2>5
  <2>7. Gives(todo, d, f)
    BY <2>5, <2>6 DEF Gives
  <2>8. PICK x : x = Library(todo)
    OBVIOUS
  <2> QED  BY <1>1, <2>4, <2>6, <2>7, <2>8, GivesTold
<1> QED
  BY <1>4, <1>5

LEMMA NInit == Init => NInv
<1> SUFFICES ASSUME Init PROVE NInv
  OBVIOUS
<1>1. owned = {} /\ Made = {} /\ calls = <<>>
  BY DEF Init, Made
<1>2. Things(calls) = {}
  BY <1>1, NoThings
<1> QED
  BY <1>1, <1>2 DEF NInv, TellsAll, LoopsTell, DerivedTold, AddsTell

LEMMA NStutters ==
  ASSUME NInv, UNCHANGED vars
  PROVE  NInv'
<1>1. UNCHANGED <<owned, derived, cb, calls, unused, notified, called>>
  BY DEF vars, lists, history
<1>2. TellsAll'
  BY <1>1 DEF NInv, TellsAll
<1>3. LoopsTell'
  BY <1>1 DEF NInv, LoopsTell
<1>4. DerivedTold'
  BY <1>1 DEF NInv, DerivedTold, Made
<1>5. \A t : ToTell(t)' <=> ToTell(t)
  BY <1>1 DEF ToTell
<1>6. AddsTell'
  BY <1>1, <1>5 DEF NInv, AddsTell
<1> QED
  BY <1>2, <1>3, <1>4, <1>6 DEF NInv

LEMMA NKeeps == DInv /\ VInv /\ NInv /\ [Next]_vars => NInv'
<1> SUFFICES ASSUME DInv, VInv, NInv, [Next]_vars
             PROVE  NInv'
  OBVIOUS
<1>1. CASE LibraryStep
  BY <1>1, CallUserTold, CallSettleTold, CallForwardTold, CallFilterTold,
     CallCountTold, EndLoopTold, CallLibraryTold DEF LibraryStep
<1>2. ASSUME NEW d \in Deferreds, NEW f \in Fn, NEW a \in Actions, AddUser(d, {a}, f)
      PROVE  NInv'
  <2>1. PICK as : as = {a}
    OBVIOUS
  <2> QED  BY <1>2, <2>1, AddUserTold
<1>3. ASSUME NEW d \in Deferreds, NEW f \in Fn, AddUser(d, Settling, f)
      PROVE  NInv'
  <2>1. PICK as : as = Settling
    OBVIOUS
  <2> QED  BY <1>3, <2>1, AddUserTold
<1>4. CASE UserStep
  BY <1>2, <1>3, <1>4, MakeDeferredTold, ActTold, ThenTold, WhenTold, ReturnTold,
     ReturnValueTold, ThrowTold, ReturnPromiseTold DEF UserStep
<1>5. CASE UNCHANGED vars
  BY <1>5, NStutters
<1> QED
  BY <1>1, <1>4, <1>5 DEF Next

(* What is derived fits, and so does what is told: the one needs the       *)
(* other, where a filter for the progress returns.                         *)
LEMMA ViewFits == Spec => [](DInv /\ VInv /\ NInv)
<1>1. Init => DInv /\ VInv /\ NInv
  BY InitOK, ViewInit, NInit
<1>2. DInv /\ NInv => BodyDerived
  BY FilterDerived DEF BodyDerived
<1>3. DInv /\ VInv /\ NInv /\ [Next]_vars => (DInv /\ VInv /\ NInv)'
  BY <1>2, NextKeeps, ViewKeeps, NKeeps
<1> QED
  BY <1>1, <1>3, PTL DEF Spec

(* What was told to a function came later than what it was told before.    *)
LEMMA ToldInOrder ==
  ASSUME NInv
  PROVE  ProgressInOrder
<1> SUFFICES ASSUME NEW d \in owned,
                    NEW i \in DOMAIN called[d]["notify"],
                    NEW j \in DOMAIN called[d]["notify"],
                    i < j, called[d]["notify"][i][1] = called[d]["notify"][j][1]
             PROVE  called[d]["notify"][i][2] < called[d]["notify"][j][2]
  BY DEF ProgressInOrder
<1>1. HistoryFits(called[d]["notify"], notified, unused)
  BY DEF NInv, TellsAll, Tells
<1> QED
  BY <1>1 DEF HistoryFits

-----------------------------------------------------------------------------
(* The deeds: what the user does that cannot be undone is counted, and     *)
(* bounds how often notify() was called.                                   *)
Used == Fn \ unused
DeedsFit == IsFiniteSet(Made) /\ IsFiniteSet(Used) /\ Deeds <= MaxDeeds

LEMMA DeedsAdd ==
  ASSUME DInv, DeedsFit, NEW i \in Nat, NEW j \in Nat, NEW k \in Nat, NEW l \in Nat,
         IsFiniteSet(Made'), Cardinality(Made') = Cardinality(Made) + i,
         IsFiniteSet(Used'), Cardinality(Used') = Cardinality(Used) + j,
         notified' = notified + k,
         (IF thrown' THEN 1 ELSE 0) = (IF thrown THEN 1 ELSE 0) + l,
         i + j + k + l = 0 \/ Deeds + (i + j + k + l) <= MaxDeeds
  PROVE  DeedsFit'
<1>1. PICK m, u, t : /\ m = Cardinality(Made) /\ u = Cardinality(Used)
                     /\ t = IF thrown THEN 1 ELSE 0
  OBVIOUS
<1>2. m \in Nat /\ u \in Nat /\ t \in Nat /\ notified \in Nat /\ MaxDeeds \in Nat
  BY <1>1, MadeFacts, FS_CardinalityType, DeferredAssumption DEF DeedsFit, DeferredAssumption
<1>3. Deeds = m + u + notified + t
  BY <1>1 DEF Deeds, Used
<1>4. Deeds' = (m + i) + (u + j) + (notified + k) + (t + l)
  BY <1>1 DEF Deeds, Used
<1>5. Deeds' = Deeds + (i + j + k + l)
  BY <1>2, <1>3, <1>4
<1>6. Deeds' <= MaxDeeds
  BY <1>2, <1>3, <1>5 DEF DeedsFit
<1> QED
  BY <1>6 DEF DeedsFit

LEMMA MadeMore ==
  ASSUME DeedsFit, NEW n, n \notin Made, Made' = Made \cup {n}
  PROVE  IsFiniteSet(Made') /\ Cardinality(Made') = Cardinality(Made) + 1
BY FS_AddElement DEF DeedsFit

LEMMA UsedMore ==
  ASSUME DInv, DeedsFit, NEW f \in unused, unused' = unused \ {f}
  PROVE  IsFiniteSet(Used') /\ Cardinality(Used') = Cardinality(Used) + 1
<1>1. f \in Fn /\ f \notin Used
  BY DEF DInv, Types, Used
<1>2. Used' = Used \cup {f}
  BY <1>1 DEF Used
<1> QED
  BY <1>1, <1>2, FS_AddElement DEF DeedsFit

(* Most steps are no deeds.                                                *)
LEMMA DeedsStay ==
  ASSUME DInv, DeedsFit, UNCHANGED <<owned, derived, unused, notified, thrown>>
  PROVE  DeedsFit'
<1>1. Made' = Made /\ Used' = Used
  BY DEF Made, Used
<1>2. Deeds' = Deeds
  BY <1>1 DEF Deeds
<1> QED
  BY <1>1, <1>2 DEF DeedsFit

LEMMA MakeDeferredDeeds ==
  ASSUME DInv, DeedsFit, NEW d \in Deferreds, MakeDeferred(d)
  PROVE  DeedsFit'
<1>1. /\ d \notin Made /\ Made' = Made \cup {d} /\ Used' = Used
      /\ UNCHANGED <<notified, thrown>> /\ Deeds + 1 <= MaxDeeds
  BY DEF MakeDeferred, MayDo, Made, Used, history
<1>2. IsFiniteSet(Made') /\ Cardinality(Made') = Cardinality(Made) + 1
  BY <1>1, MadeMore
<1>3. IsFiniteSet(Used') /\ Cardinality(Used') = Cardinality(Used) + 0
  BY <1>1, FS_CardinalityType DEF DeedsFit
<1>4. notified' = notified + 0 /\ (IF thrown' THEN 1 ELSE 0) = (IF thrown THEN 1 ELSE 0) + 0
  BY <1>1, MadeFacts
<1>5. Deeds + (1 + 0 + 0 + 0) <= MaxDeeds
  BY <1>1
<1> QED
  BY <1>2, <1>3, <1>4, <1>5, DeedsAdd

LEMMA AddUserDeeds ==
  ASSUME DInv, DeedsFit, NEW d \in Deferreds, NEW f \in Fn, NEW as, AddUser(d, as, f)
  PROVE  DeedsFit'
<1>1. /\ f \in unused /\ unused' = unused \ {f} /\ Made' = Made
      /\ UNCHANGED <<notified, thrown>> /\ Deeds + 1 <= MaxDeeds
  BY DEF AddUser, MayDo, Made
<1>2. IsFiniteSet(Used') /\ Cardinality(Used') = Cardinality(Used) + 1
  BY <1>1, UsedMore
<1>3. IsFiniteSet(Made') /\ Cardinality(Made') = Cardinality(Made) + 0
  BY <1>1, FS_CardinalityType DEF DeedsFit
<1>4. notified' = notified + 0 /\ (IF thrown' THEN 1 ELSE 0) = (IF thrown THEN 1 ELSE 0) + 0
  BY <1>1, MadeFacts
<1>5. Deeds + (0 + 1 + 0 + 0) <= MaxDeeds
  BY <1>1
<1> QED
  BY <1>2, <1>3, <1>4, <1>5, DeedsAdd

LEMMA ActDeeds ==
  ASSUME DInv, DeedsFit, NEW d \in Deferreds, NEW a \in Actions, Act(d, a)
  PROVE  DeedsFit'
<1>1. /\ Made' = Made /\ Used' = Used /\ UNCHANGED <<owned, derived, unused, thrown>>
      /\ a = "notify" => notified' = notified + 1 /\ Deeds + 1 <= MaxDeeds
      /\ a # "notify" => notified' = notified
  BY DEF Act, MayDo, Made, Used, history
<1>2. CASE a # "notify"
  BY <1>1, <1>2, DeedsStay
<1>3. CASE a = "notify"
  <2>1. /\ IsFiniteSet(Made') /\ Cardinality(Made') = Cardinality(Made) + 0
        /\ IsFiniteSet(Used') /\ Cardinality(Used') = Cardinality(Used) + 0
    BY <1>1, FS_CardinalityType DEF DeedsFit
  <2>2. (IF thrown' THEN 1 ELSE 0) = (IF thrown THEN 1 ELSE 0) + 0
    BY <1>1
  <2>3. Deeds + (0 + 0 + 1 + 0) <= MaxDeeds
    BY <1>1, <1>3
  <2> QED  BY <1>1, <1>3, <2>1, <2>2, <2>3, DeedsAdd
<1> QED
  BY <1>2, <1>3

(* then() with a filter, or anything else that makes a derived deferred.   *)
LEMMA DerivesDeeds ==
  ASSUME DInv, DeedsFit, NEW n, n \notin Made, Made' = Made \cup {n},
         UNCHANGED <<notified, thrown>>, NEW f \in Fn \cup {Off},
         IF f = Off THEN unused' = unused /\ Deeds + 1 <= MaxDeeds
         ELSE f \in unused /\ unused' = unused \ {f} /\ Deeds + 2 <= MaxDeeds
  PROVE  DeedsFit'
<1>1. IsFiniteSet(Made') /\ Cardinality(Made') = Cardinality(Made) + 1
  BY MadeMore
<1>2. notified' = notified + 0 /\ (IF thrown' THEN 1 ELSE 0) = (IF thrown THEN 1 ELSE 0) + 0
  BY MadeFacts
<1>3. CASE f = Off
  <2>1. Used' = Used /\ Deeds + 1 <= MaxDeeds
    BY <1>3 DEF Used
  <2>2. IsFiniteSet(Used') /\ Cardinality(Used') = Cardinality(Used) + 0
    BY <2>1, FS_CardinalityType DEF DeedsFit
  <2>3. Deeds + (1 + 0 + 0 + 0) <= MaxDeeds
    BY <2>1
  <2> QED  BY <1>1, <1>2, <2>2, <2>3, DeedsAdd
<1>4. CASE f # Off
  <2>1. f \in unused /\ unused' = unused \ {f} /\ Deeds + 2 <= MaxDeeds
    BY <1>4
  <2>2. IsFiniteSet(Used') /\ Cardinality(Used') = Cardinality(Used) + 1
    BY <2>1, UsedMore
  <2>3. Deeds + (1 + 1 + 0 + 0) <= MaxDeeds
    BY <2>1
  <2> QED  BY <1>1, <1>2, <2>2, <2>3, DeedsAdd
<1> QED
  BY <1>3, <1>4

LEMMA ThenDeeds ==
  ASSUME DInv, DeedsFit, NEW d \in Deferreds, NEW n \in Deferreds, NEW a \in Actions,
         NEW f \in Fn \cup {Off}, Then(d, n, a, f)
  PROVE  DeedsFit'
<1>1. /\ n \notin Made /\ Made' = Made \cup {n} /\ UNCHANGED <<notified, thrown>>
      /\ f \in unused \cup {Off} /\ unused' = unused \ {f}
      /\ Deeds + (IF f = Off THEN 1 ELSE 2) <= MaxDeeds
  BY DEF Then, MayDo, Made
<1>2. f = Off => unused' = unused
  BY <1>1, OffFacts DEF DInv, Types
<1> QED
  BY <1>1, <1>2, DerivesDeeds

LEMMA WhenDeeds ==
  ASSUME DInv, DeedsFit, NEW d \in Deferreds, NEW n \in Deferreds,
         NEW e \in Deferreds \cup {Off}, When(d, e, n)
  PROVE  DeedsFit'
<1>1. /\ n \notin Made /\ Made' = Made \cup {n} /\ UNCHANGED <<notified, thrown, unused>>
      /\ Deeds + 1 <= MaxDeeds
  BY DEF When, MayDo, Made
<1> QED
  BY <1>1, DerivesDeeds

LEMMA ThrowDeeds ==
  ASSUME DInv, DeedsFit, Throw
  PROVE  DeedsFit'
<1>1. /\ UNCHANGED <<owned, derived, unused, notified>> /\ thrown' = TRUE
      /\ thrown \/ Deeds + 1 <= MaxDeeds
  BY DEF Throw, MayDo
<1>2. thrown \in BOOLEAN /\ notified \in Nat
  BY DEF DInv, Types
<1>3. CASE thrown
  <2>1. thrown' = thrown
    BY <1>1, <1>2, <1>3
  <2> QED  BY <1>1, <2>1, DeedsStay
<1>4. CASE ~thrown
  <2>1. Made' = Made /\ Used' = Used
    BY <1>1 DEF Made, Used
  <2>2. /\ IsFiniteSet(Made') /\ Cardinality(Made') = Cardinality(Made) + 0
        /\ IsFiniteSet(Used') /\ Cardinality(Used') = Cardinality(Used) + 0
    BY <2>1, FS_CardinalityType DEF DeedsFit
  <2>3. (IF thrown' THEN 1 ELSE 0) = (IF thrown THEN 1 ELSE 0) + 1
    BY <1>1, <1>4
  <2>4. Deeds + (0 + 0 + 0 + 1) <= MaxDeeds /\ notified' = notified + 0
    BY <1>1, <1>2, <1>4
  <2> QED  BY <2>2, <2>3, <2>4, DeedsAdd
<1> QED
  BY <1>3, <1>4

LEMMA DeedsInit == Init => DeedsFit
<1> SUFFICES ASSUME Init PROVE DeedsFit
  OBVIOUS
<1>1. Made = {} /\ Used = {} /\ notified = 0 /\ thrown = FALSE
  BY DEF Init, Made, Used
<1>2. Deeds = 0
  BY <1>1, FS_EmptySet DEF Deeds, Used
<1> QED
  BY <1>1, <1>2, FS_EmptySet, DeferredAssumption DEF DeedsFit, DeferredAssumption

LEMMA DeedsKeep == DInv /\ DeedsFit /\ [Next]_vars => DeedsFit'
<1> SUFFICES ASSUME DInv, DeedsFit, [Next]_vars PROVE DeedsFit'
  OBVIOUS
<1>1. CASE LibraryStep
  <2>1. UNCHANGED <<owned, derived, unused, notified, thrown>>
    BY <1>1 DEF LibraryStep, CallUser, CallSettle, CallForward, CallFilter, CallCount,
       EndLoop, CallLibrary, history
  <2> QED  BY <2>1, DeedsStay
<1>2. CASE Return \/ ReturnValue \/ \E p \in Deferreds : ReturnPromise(p)
  <2>1. UNCHANGED <<owned, derived, unused, notified, thrown>>
    BY <1>2 DEF Return, ReturnValue, ReturnPromise, history
  <2> QED  BY <2>1, DeedsStay
<1>3. CASE UNCHANGED vars
  <2>1. UNCHANGED <<owned, derived, unused, notified, thrown>>
    BY <1>3 DEF vars, history
  <2> QED  BY <2>1, DeedsStay
<1>4. CASE UserStep
  BY <1>2, <1>4, MakeDeferredDeeds, AddUserDeeds, ActDeeds, ThenDeeds, WhenDeeds,
     ThrowDeeds DEF UserStep
<1> QED
  BY <1>1, <1>3, <1>4 DEF Next

(* A list that settles a deferred is fired once: nothing waits.            *)
LEMMA NothingWaits ==
  ASSUME DInv, NEW d \in Deferreds, NEW a \in Settling
  PROVE  cb[d][a].waiting = Off
<1>1. CASE d \notin Made
  <2>1. cb[d] = [b \in Actions |-> NewList(TRUE)]
    BY <1>1 DEF DInv, UnmadeFits
  <2> QED  BY <2>1, NewListFacts, ActionFacts
<1>2. CASE d \in Made
  <2>1. \/ Steady(Made, d, state[d], cb[d])
        \/ Turns(Made, d, state[d], cb[d], calls)
    BY <1>2 DEF DInv, PairsFit
  <2>2. CASE Steady(Made, d, state[d], cb[d])
    <3>1. \/ Fresh(Made, cb[d][a], d, a)
          \/ Done(Made, cb[d][a]) \/ Disused(cb[d][a])
      BY <2>2, ActionFacts DEF Steady
    <3> QED  BY <3>1 DEF Fresh, Starts, Done, Disused
  <2>3. CASE Turns(Made, d, state[d], cb[d], calls)
    <3>1. \/ Fresh(Made, cb[d][a], d, a) \/ Disused(cb[d][a])
          \/ \E n \in {0, 1, 2} : Turning(Made, cb[d][a], d, a, n)
      BY <2>3, ActionFacts DEF Turns, TurnsAt
    <3> QED  BY <3>1 DEF Fresh, Turning, Starts, Disused
  <2> QED  BY <2>1, <2>2, <2>3
<1> QED
  BY <1>1, <1>2

LEMMA TypesHold ==
  ASSUME DInv, VInv, DeedsFit
  PROVE  TypeOK
<1>1. notified \in 0 .. MaxDeeds
  <2>1. PICK m, u, t : /\ m = Cardinality(Made) /\ u = Cardinality(Used)
                       /\ t = IF thrown THEN 1 ELSE 0
    OBVIOUS
  <2>2. m \in Nat /\ u \in Nat /\ t \in Nat /\ notified \in Nat /\ MaxDeeds \in Nat
    BY <2>1, MadeFacts, FS_CardinalityType, DeferredAssumption DEF DeedsFit, DeferredAssumption
  <2>3. m + u + notified + t <= MaxDeeds
    BY <2>1 DEF DeedsFit, Deeds, Used
  <2> QED  BY <2>2, <2>3
<1>2. /\ owned \subseteq Deferreds /\ derived \subseteq Deferreds
      /\ state \in [Deferreds -> Settling \cup {"no"}] /\ unused \subseteq Fn
  BY DEF DInv, Types
<1>3. remaining \in [Deferreds -> 0 .. 2]
  BY DEF VInv, DerivedTypes
<1>a. tied \subseteq derived
  BY DEF VInv, DerivedTypes
<1>4. ASSUME NEW d \in Deferreds, NEW a \in Actions
      PROVE  /\ cb[d][a].list # Off =>
                  /\ cb[d][a].firingIndex <= cb[d][a].firingLength
                  /\ cb[d][a].firingLength <= Len(cb[d][a].list) \/ ~cb[d][a].firing
             /\ a # "notify" => cb[d][a].waiting = Off
  <2>1. PICK c : c = cb[d][a]
    OBVIOUS
  <2>2. c \in Lists(Made) /\ IndexFits(c)
    BY <2>1 DEF DInv, Types, LoopsFit
  <2>3. c.firingIndex <= c.firingLength
    BY <2>2 DEF IndexFits
  <2>4. c.list # Off /\ c.firing => c.firingLength <= Len(c.list)
    <3>1. c.firingLength \in Nat
      BY <2>2 DEF Lists
    <3> QED  BY <2>2, <3>1 DEF IndexFits
  <2>5. a # "notify" => c.waiting = Off
    BY <2>1, ActionFacts, NothingWaits
  <2> QED  BY <2>1, <2>3, <2>4, <2>5
<1> QED
  BY <1>1, <1>2, <1>3, <1>4, <1>a DEF TypeOK

(* However its lists are changed and fired from within each other, a list  *)
(* stays within its bounds; a function for the progress is told of one     *)
(* notification after the other; and what then() and when() return is      *)
(* settled like what it goes by, when the script has returned and nothing  *)
(* was thrown, unless a filter for the progress has returned a promise to  *)
(* go by as well (jquery-1.9.1.js:1029-1220).                              *)
THEOREM CallsAlwaysFit == Spec => []CallsFit
<1>1. Init => DeedsFit
  BY DeedsInit
<1>2. DInv /\ DeedsFit /\ [Next]_vars => DeedsFit'
  BY DeedsKeep
<1>3. DInv /\ VInv /\ NInv /\ DeedsFit => CallsFit
  BY TypesHold, ToldInOrder, DerivedAgree DEF CallsFit
<1> QED
  BY <1>1, <1>2, <1>3, ListsAreInOrder, ViewFits, PTL DEF Spec
=============================================================================
