----------------------------- MODULE AjaxProofs -----------------------------
(***************************************************************************)
(* jQuery.ajax, for every number of requests and all options: a request    *)
(* has one answer, whatever comes first of what may end it, the counter of *)
(* the requests follows what is under way, and the function of a JSONP     *)
(* request is its own.                                                     *)
(*                                                                         *)
(* The page may make and abort requests wherever it has its say, so that   *)
(* the stack of what is being executed holds steps of many requests.  The  *)
(* invariant says first what this stack looks like and then, request by    *)
(* request, what its variables have to do with the steps of it that are    *)
(* still on the stack; a step of one request leaves the others alone.      *)
(***************************************************************************)
EXTENDS Jsonp, FiniteSetTheorems, SequenceTheorems, TLAPS

(* Where the page has its say, except in beforeSend; and the stages of a   *)
(* request that is made and of one that ends.                              *)
Quietly == {"prefilter", "ajaxStart", "ajaxStop", "ajaxSend", "ajaxSuccess",
            "ajaxError", "ajaxComplete", "success", "error", "complete"}
Stages == {"filtered", "beforeSend", "asked", "refused", "install",
           "transport", "send", "wait"}
Ends == {"resolve", "reject", "complete", "count"}

(* What is on the stack.                                                   *)
Frame == [runs : {"ajax", "done", "body"}, r : Requests,
          at : Quietly \cup Stages \cup Ends]

(* The stages at which a stack is to go on with the making of a request,   *)
(* and with its end.                                                       *)
Of(s, what, r) == {i \in DOMAIN s : s[i].runs = what /\ s[i].r = r}
Stage(s, r) == {s[i].at : i \in Of(s, "ajax", r)}
End(s, r) == {s[i].at : i \in Of(s, "done", r)}

(* A stack: no request is made twice or ends twice on it, a request ends   *)
(* above its making, and beforeSend is called where its making waits for   *)
(* it.                                                                     *)
Shape(s) ==
  /\ s \in Seq(Frame)
  /\ \A i, j \in DOMAIN s :
       s[i].runs = s[j].runs /\ s[i].r = s[j].r /\ s[i].runs # "body" => i = j
  /\ \A i, j \in DOMAIN s :
       s[i].runs = "done" /\ s[j].runs = "ajax" /\ s[i].r = s[j].r => i < j
  /\ \A i \in DOMAIN s :
       s[i].runs = "body" /\ s[i].at = "beforeSend" =>
         i + 1 \in DOMAIN s /\ s[i + 1] = Making(s[i].r, "asked")

-----------------------------------------------------------------------------
(* The stages, by the places of the stack.                                 *)
LEMMA Views ==
  ASSUME NEW s, NEW q
  PROVE  /\ \A x : x \in Stage(s, q) <=>
                   \E i \in DOMAIN s : s[i].runs = "ajax" /\ s[i].r = q
                                       /\ x = s[i].at
         /\ \A x : x \in End(s, q) <=>
                   \E i \in DOMAIN s : s[i].runs = "done" /\ s[i].r = q
                                       /\ x = s[i].at
BY DEF Stage, End, Of

(* The three kinds of frames.                                              *)
LEMMA Frames ==
  ASSUME NEW r \in Requests
  PROVE  /\ \A pc \in Stages : Making(r, pc) \in Frame
         /\ \A pc \in Ends : Finishing(r, pc) \in Frame
         /\ \A of \in Quietly \cup Stages : Body(of, r) \in Frame
BY DEF Making, Finishing, Body, Frame

(* A stack with one more frame on top, place by place.                     *)
LEMMA PushFacts ==
  ASSUME NEW s \in Seq(Frame), NEW f \in Frame
  PROVE  /\ <<f>> \o s \in Seq(Frame)
         /\ <<f>> \o s # <<>>
         /\ Head(<<f>> \o s) = f
         /\ DOMAIN (<<f>> \o s) = 1 .. Len(s) + 1
         /\ (<<f>> \o s)[1] = f
         /\ \A i \in 1 .. Len(s) : (<<f>> \o s)[i + 1] = s[i]
         /\ \A i \in 2 .. Len(s) + 1 :
              (<<f>> \o s)[i] = s[i - 1] /\ i - 1 \in 1 .. Len(s)
OBVIOUS

(* What one more frame adds to the stages.                                 *)
LEMMA PushView ==
  ASSUME NEW s \in Seq(Frame), NEW f \in Frame, NEW q
  PROVE  /\ Stage(<<f>> \o s, q) = IF f.runs = "ajax" /\ f.r = q
                                   THEN Stage(s, q) \cup {f.at}
                                   ELSE Stage(s, q)
         /\ End(<<f>> \o s, q) = IF f.runs = "done" /\ f.r = q
                                 THEN End(s, q) \cup {f.at} ELSE End(s, q)
<1> DEFINE t == <<f>> \o s
<1>1. /\ DOMAIN t = 1 .. Len(s) + 1 /\ t[1] = f
      /\ \A i \in 1 .. Len(s) : t[i + 1] = s[i] /\ i + 1 \in 1 .. Len(s) + 1
      /\ \A i \in 2 .. Len(s) + 1 : t[i] = s[i - 1] /\ i - 1 \in 1 .. Len(s)
  BY PushFacts
<1>2. DOMAIN s = 1 .. Len(s) /\ Len(s) \in Nat
  OBVIOUS
<1> HIDE DEF t
<1>3. \A i \in DOMAIN t : i = 1 \/ i \in 2 .. Len(s) + 1
  BY <1>1, <1>2
<1>4. 1 \in DOMAIN t
  BY <1>1, <1>2
<1>5. \A x : x \in Stage(t, q) <=>
               \/ f.runs = "ajax" /\ f.r = q /\ x = f.at
               \/ x \in Stage(s, q)
  BY <1>1, <1>2, <1>3, <1>4, Views
<1>6. \A x : x \in End(t, q) <=>
               \/ f.runs = "done" /\ f.r = q /\ x = f.at
               \/ x \in End(s, q)
  <2>1. ASSUME NEW x, x \in End(t, q)
        PROVE  \/ f.runs = "done" /\ f.r = q /\ x = f.at
               \/ x \in End(s, q)
    BY <2>1, <1>1, <1>2, <1>3, Views
  <2>2. ASSUME NEW x, x \in End(s, q)
        PROVE  x \in End(t, q)
    BY <2>2, <1>1, <1>2, Views
  <2>3. f.runs = "done" /\ f.r = q => f.at \in End(t, q)
    BY <1>1, <1>4, Views
  <2> QED  BY <2>1, <2>2, <2>3
<1> QED
  BY <1>5, <1>6 DEF t

(* A stack that is not empty has a top.                                    *)
LEMMA PopFacts ==
  ASSUME NEW s \in Seq(Frame), s # <<>>
  PROVE  /\ Tail(s) \in Seq(Frame) /\ Head(s) \in Frame
         /\ s = <<Head(s)>> \o Tail(s)
OBVIOUS

(* What is left when the top is taken off: the stages of its request were  *)
(* those of the top alone, because no request is made or ends twice.       *)
LEMMA PopView ==
  ASSUME NEW s, Shape(s), s # <<>>
  PROVE  /\ Shape(Tail(s)) /\ Head(s) \in Frame
         /\ Head(s).runs = "ajax" =>
              /\ Stage(s, Head(s).r) = {Head(s).at} /\ End(s, Head(s).r) = {}
              /\ Stage(Tail(s), Head(s).r) = {}
         /\ Head(s).runs = "done" =>
              End(s, Head(s).r) = {Head(s).at} /\ End(Tail(s), Head(s).r) = {}
         /\ \A q : \/ Head(s).runs # "ajax" \/ Head(s).r # q
                   => Stage(Tail(s), q) = Stage(s, q)
         /\ \A q : \/ Head(s).runs # "done" \/ Head(s).r # q
                   => End(Tail(s), q) = End(s, q)
         /\ Head(s).runs = "body" /\ Head(s).at = "beforeSend" =>
              Tail(s) # <<>> /\ Head(Tail(s)) = Making(Head(s).r, "asked")
<1> USE DEF Shape
<1> DEFINE t == Tail(s)
           f == Head(s)
<1>1. s = <<f>> \o t /\ t \in Seq(Frame) /\ f \in Frame
  BY PopFacts
<1>2. DOMAIN s = 1 .. Len(t) + 1 /\ DOMAIN t = 1 .. Len(t) /\ Len(t) \in Nat
  BY <1>1, PushFacts
<1>3. s[1] = f /\ \A i \in 1 .. Len(t) : s[i + 1] = t[i] /\ i + 1 \in DOMAIN s
  BY <1>1, <1>2, PushFacts
<1>4. t # <<>> => Head(t) = t[1]
  BY <1>1
<1>5. t = <<>> <=> Len(t) = 0
  BY <1>1
<1> HIDE DEF t, f
<1>6. ASSUME NEW q
      PROVE  /\ Stage(s, q) = IF f.runs = "ajax" /\ f.r = q
                              THEN Stage(t, q) \cup {f.at} ELSE Stage(t, q)
             /\ End(s, q) = IF f.runs = "done" /\ f.r = q
                            THEN End(t, q) \cup {f.at} ELSE End(t, q)
  <2>1. /\ Stage(<<f>> \o t, q) = IF f.runs = "ajax" /\ f.r = q
                              THEN Stage(t, q) \cup {f.at} ELSE Stage(t, q)
        /\ End(<<f>> \o t, q) = IF f.runs = "done" /\ f.r = q
                            THEN End(t, q) \cup {f.at} ELSE End(t, q)
    <3> HIDE DEF Shape
    <3> QED  BY <1>1, PushView
  <2> HIDE DEF Shape
  <2> QED  BY <2>1, <1>1
<1>7. \A i, j \in DOMAIN t :
        t[i].runs = t[j].runs /\ t[i].r = t[j].r /\ t[i].runs # "body" => i = j
  <2> SUFFICES ASSUME NEW i \in DOMAIN t, NEW j \in DOMAIN t,
                      t[i].runs = t[j].runs, t[i].r = t[j].r, t[i].runs # "body"
               PROVE  i = j
    OBVIOUS
  <2>1. i + 1 = j + 1
    BY <1>2, <1>3
  <2> QED  BY <2>1, <1>2
<1>8. \A i, j \in DOMAIN t :
        t[i].runs = "done" /\ t[j].runs = "ajax" /\ t[i].r = t[j].r => i < j
  <2> SUFFICES ASSUME NEW i \in DOMAIN t, NEW j \in DOMAIN t,
                      t[i].runs = "done", t[j].runs = "ajax", t[i].r = t[j].r
               PROVE  i < j
    OBVIOUS
  <2>1. i + 1 < j + 1
    BY <1>2, <1>3
  <2> QED  BY <2>1, <1>2
<1>9. \A i \in DOMAIN t :
        t[i].runs = "body" /\ t[i].at = "beforeSend" =>
          i + 1 \in DOMAIN t /\ t[i + 1] = Making(t[i].r, "asked")
  <2> SUFFICES ASSUME NEW i \in DOMAIN t,
                      t[i].runs = "body", t[i].at = "beforeSend"
               PROVE  i + 1 \in DOMAIN t /\ t[i + 1] = Making(t[i].r, "asked")
    OBVIOUS
  <2>1. i + 1 \in DOMAIN s /\ s[i + 1] = t[i]
    BY <1>2, <1>3
  <2>2. (i + 1) + 1 \in DOMAIN s /\ s[(i + 1) + 1] = Making(t[i].r, "asked")
    BY <2>1
  <2>3. i + 1 \in 1 .. Len(t)
    BY <2>2, <1>2
  <2> QED  BY <2>2, <2>3, <1>2, <1>3
<1>10. Shape(t)
  BY <1>1, <1>7, <1>8, <1>9
<1>11. 1 \in DOMAIN s
  BY <1>2
<1>12. f.runs = "ajax" => Stage(t, f.r) = {} /\ End(t, f.r) = {}
  <2> SUFFICES ASSUME f.runs = "ajax", NEW i \in DOMAIN t, t[i].r = f.r,
                      t[i].runs \in {"ajax", "done"}
               PROVE  FALSE
    BY Views
  <2>1. i + 1 \in DOMAIN s /\ s[i + 1] = t[i] /\ i \in Nat \ {0}
    BY <1>2, <1>3
  <2>2. i + 1 = 1 \/ i + 1 < 1
    BY <2>1, <1>3, <1>11
  <2> QED  BY <2>1, <2>2
<1>13. f.runs = "done" => End(t, f.r) = {}
  <2> SUFFICES ASSUME f.runs = "done", NEW i \in DOMAIN t, t[i].r = f.r,
                      t[i].runs = "done"
               PROVE  FALSE
    BY Views
  <2>1. i + 1 \in DOMAIN s /\ s[i + 1] = t[i] /\ i \in Nat \ {0}
    BY <1>2, <1>3
  <2>2. i + 1 = 1
    BY <2>1, <1>3, <1>11
  <2> QED  BY <2>1, <2>2
<1>14. f.runs = "body" /\ f.at = "beforeSend" =>
         t # <<>> /\ Head(t) = Making(f.r, "asked")
  <2> SUFFICES ASSUME f.runs = "body", f.at = "beforeSend"
               PROVE  t # <<>> /\ Head(t) = Making(f.r, "asked")
    OBVIOUS
  <2>1. 1 + 1 \in DOMAIN s /\ s[1 + 1] = Making(f.r, "asked")
    BY <1>3, <1>11
  <2>2. Len(t) # 0 /\ 1 \in 1 .. Len(t)
    BY <2>1, <1>2
  <2> QED  BY <2>1, <2>2, <1>3, <1>4, <1>5
<1>15. f.runs = "ajax" => f.runs # "done"
  OBVIOUS
<1> QED
  BY <1>1, <1>6, <1>10, <1>12, <1>13, <1>14, <1>15 DEF t, f

(* What may be put on a stack.                                             *)
LEMMA PushShape ==
  ASSUME NEW s, Shape(s), NEW f \in Frame,
         f.runs # "body" => End(s, f.r) = {},
         f.runs = "ajax" => Stage(s, f.r) = {},
         f.runs = "body" /\ f.at = "beforeSend" =>
           s # <<>> /\ Head(s) = Making(f.r, "asked")
  PROVE  Shape(<<f>> \o s)
<1> USE DEF Shape
<1> DEFINE t == <<f>> \o s
<1>1. /\ DOMAIN t = 1 .. Len(s) + 1 /\ t[1] = f /\ t \in Seq(Frame)
      /\ \A i \in 2 .. Len(s) + 1 : t[i] = s[i - 1] /\ i - 1 \in 1 .. Len(s)
  BY PushFacts
<1>2. DOMAIN s = 1 .. Len(s) /\ Len(s) \in Nat
      /\ (s # <<>> => Head(s) = s[1] /\ 1 \in DOMAIN s)
  OBVIOUS
<1> HIDE DEF t
<1>3. \A i \in DOMAIN t : i = 1 \/ i \in 2 .. Len(s) + 1
  BY <1>1, <1>2
<1>4. \A i \in DOMAIN s : s[i].r = f.r =>
        /\ f.runs # "body" => s[i].runs # "done"
        /\ f.runs = "ajax" => s[i].runs # "ajax"
  <2>1. ASSUME NEW i \in DOMAIN s, s[i].r = f.r
        PROVE  /\ s[i].runs = "done" => s[i].at \in End(s, f.r)
               /\ s[i].runs = "ajax" => s[i].at \in Stage(s, f.r)
    BY <2>1, Views
  <2> QED  BY <2>1
<1>4a. f.runs \in {"ajax", "done", "body"}
  BY DEF Frame
<1>5. \A i, j \in DOMAIN t :
        t[i].runs = t[j].runs /\ t[i].r = t[j].r /\ t[i].runs # "body" => i = j
  <2> SUFFICES ASSUME NEW i \in DOMAIN t, NEW j \in DOMAIN t,
                      t[i].runs = t[j].runs, t[i].r = t[j].r, t[i].runs # "body"
               PROVE  i = j
    OBVIOUS
  <2>1. CASE i = 1 /\ j # 1
    <3>1. j \in 2 .. Len(s) + 1 /\ t[j] = s[j - 1] /\ j - 1 \in DOMAIN s
      BY <2>1, <1>1, <1>2, <1>3
    <3> QED  BY <3>1, <2>1, <1>1, <1>4, <1>4a
  <2>3. CASE i # 1 /\ j = 1
    <3>1. i \in 2 .. Len(s) + 1 /\ t[i] = s[i - 1] /\ i - 1 \in DOMAIN s
      BY <2>3, <1>1, <1>2, <1>3
    <3> QED  BY <3>1, <2>3, <1>1, <1>4, <1>4a
  <2>2. CASE i # 1 /\ j # 1
    <3>1. i \in 2 .. Len(s) + 1 /\ j \in 2 .. Len(s) + 1
      BY <2>2, <1>3
    <3>2. /\ i - 1 \in DOMAIN s /\ j - 1 \in DOMAIN s
          /\ s[i - 1].runs = s[j - 1].runs /\ s[i - 1].r = s[j - 1].r
          /\ s[i - 1].runs # "body"
      BY <3>1, <1>1, <1>2
    <3>3. \A k, l \in DOMAIN s :
            s[k].runs = s[l].runs /\ s[k].r = s[l].r /\ s[k].runs # "body" =>
              k = l
      OBVIOUS
    <3> HIDE DEF Shape
    <3>4. i - 1 = j - 1
      BY <3>2, <3>3
    <3>5. i \in Int /\ j \in Int
      BY <3>1, <1>2
    <3> QED  BY ONLY <3>4, <3>5
  <2> QED  BY <2>1, <2>2, <2>3
<1>6. \A i, j \in DOMAIN t :
        t[i].runs = "done" /\ t[j].runs = "ajax" /\ t[i].r = t[j].r => i < j
  <2> SUFFICES ASSUME NEW i \in DOMAIN t, NEW j \in DOMAIN t,
                      t[i].runs = "done", t[j].runs = "ajax", t[i].r = t[j].r
               PROVE  i < j
    OBVIOUS
  <2>1. CASE i # 1 /\ j = 1
    <3>1. i \in 2 .. Len(s) + 1 /\ t[i] = s[i - 1] /\ i - 1 \in DOMAIN s
      BY <2>1, <1>1, <1>2, <1>3
    <3> QED  BY <3>1, <2>1, <1>1, <1>4
  <2>2. CASE i = 1 /\ j # 1
    <3>1. j \in 2 .. Len(s) + 1 /\ Len(s) \in Nat
      BY <2>2, <1>2, <1>3
    <3> QED  BY ONLY <3>1, <2>2
  <2>4. i # 1 \/ j # 1
    BY <1>1
  <2>3. CASE i # 1 /\ j # 1
    <3>1. i \in 2 .. Len(s) + 1 /\ j \in 2 .. Len(s) + 1
      BY <2>3, <1>3
    <3>4. /\ i - 1 \in DOMAIN s /\ j - 1 \in DOMAIN s
          /\ s[i - 1].runs = "done" /\ s[j - 1].runs = "ajax"
          /\ s[i - 1].r = s[j - 1].r
      BY <3>1, <1>1, <1>2
    <3>5. \A k, l \in DOMAIN s :
            s[k].runs = "done" /\ s[l].runs = "ajax" /\ s[k].r = s[l].r => k < l
      OBVIOUS
    <3> HIDE DEF Shape
    <3>2. i - 1 < j - 1
      BY <3>4, <3>5
    <3>3. i \in Int /\ j \in Int
      BY <3>1, <1>2
    <3> QED  BY ONLY <3>2, <3>3
  <2> QED  BY <2>1, <2>2, <2>3, <2>4
<1>7. \A i \in DOMAIN t :
        t[i].runs = "body" /\ t[i].at = "beforeSend" =>
          i + 1 \in DOMAIN t /\ t[i + 1] = Making(t[i].r, "asked")
  <2> SUFFICES ASSUME NEW i \in DOMAIN t,
                      t[i].runs = "body", t[i].at = "beforeSend"
               PROVE  i + 1 \in DOMAIN t /\ t[i + 1] = Making(t[i].r, "asked")
    OBVIOUS
  <2>1. CASE i = 1
    <3>1. 1 \in DOMAIN s /\ s[1] = Making(f.r, "asked") /\ t[i] = f
      BY <2>1, <1>1, <1>2
    <3>2. i + 1 \in 2 .. Len(s) + 1 /\ i + 1 \in DOMAIN t /\ (i + 1) - 1 = 1
      BY <3>1, <2>1, <1>1, <1>2
    <3> QED  BY <3>1, <3>2, <1>1
  <2>2. CASE i # 1
    <3>1. i \in 2 .. Len(s) + 1 /\ i - 1 \in DOMAIN s /\ t[i] = s[i - 1]
      BY <2>2, <1>1, <1>2, <1>3
    <3>2. (i - 1) + 1 \in DOMAIN s /\ s[(i - 1) + 1] = Making(t[i].r, "asked")
      BY <3>1
    <3>3. i + 1 \in 2 .. Len(s) + 1 /\ (i + 1) - 1 = (i - 1) + 1
      BY <3>1, <3>2, <1>2
    <3> QED  BY <3>2, <3>3, <1>1
  <2> QED  BY <2>1, <2>2
<1> QED
  BY <1>1, <1>5, <1>6, <1>7 DEF t
-----------------------------------------------------------------------------
(* A stack that differs from the one there is in what is left to do for r. *)
Leads(s, r, m, f) ==
  /\ Shape(s) /\ Stage(s, r) = m /\ End(s, r) = f
  /\ \A q \in Requests \ {r} :
       Stage(s, q) = Stage(calls, q) /\ End(s, q) = End(calls, q)

(* The making of a request is put on top.                                  *)
LEMMA LeadsMaking ==
  ASSUME NEW r \in Requests, NEW s, Leads(s, r, {}, {}), NEW pc \in Stages
  PROVE  Leads(<<Making(r, pc)>> \o s, r, {pc}, {})
<1> DEFINE f == Making(r, pc)
<1>1. f \in Frame /\ f.runs = "ajax" /\ f.r = r /\ f.at = pc
  BY Frames DEF Making
<1>2. s \in Seq(Frame) /\ Shape(s)
  BY DEF Leads, Shape
<1> HIDE DEF f
<1>3. Shape(<<f>> \o s)
  BY <1>1, <1>2, PushShape DEF Leads
<1>4. \A q : /\ q # r => Stage(<<f>> \o s, q) = Stage(s, q)
             /\ q = r => Stage(<<f>> \o s, q) = Stage(s, q) \cup {pc}
             /\ End(<<f>> \o s, q) = End(s, q)
  BY <1>1, <1>2, PushView
<1> QED
  BY <1>3, <1>4 DEF Leads, f

(* The end of a request is put on top.                                     *)
LEMMA LeadsFinishing ==
  ASSUME NEW r \in Requests, NEW s, NEW m, Leads(s, r, m, {}), NEW pc \in Ends
  PROVE  Leads(<<Finishing(r, pc)>> \o s, r, m, {pc})
<1> DEFINE f == Finishing(r, pc)
<1>1. f \in Frame /\ f.runs = "done" /\ f.r = r /\ f.at = pc
  BY Frames DEF Finishing
<1>2. s \in Seq(Frame) /\ Shape(s)
  BY DEF Leads, Shape
<1> HIDE DEF f
<1>3. Shape(<<f>> \o s)
  BY <1>1, <1>2, PushShape DEF Leads
<1>4. \A q : /\ q # r => End(<<f>> \o s, q) = End(s, q)
             /\ q = r => End(<<f>> \o s, q) = End(s, q) \cup {pc}
             /\ Stage(<<f>> \o s, q) = Stage(s, q)
  BY <1>1, <1>2, PushView
<1> QED
  BY <1>3, <1>4 DEF Leads, f

(* A function of the page is called.                                       *)
LEMMA LeadsBody ==
  ASSUME NEW r \in Requests, NEW q \in Requests, NEW s, NEW m, NEW f,
         Leads(s, r, m, f), NEW of \in Quietly \cup Stages,
         of = "beforeSend" => s # <<>> /\ Head(s) = Making(q, "asked")
  PROVE  Leads(<<Body(of, q)>> \o s, r, m, f)
<1> DEFINE b == Body(of, q)
<1>1. b \in Frame /\ b.runs = "body" /\ b.r = q /\ b.at = of
  BY Frames DEF Body
<1>2. s \in Seq(Frame) /\ Shape(s)
  BY DEF Leads, Shape
<1> HIDE DEF b
<1>3. Shape(<<b>> \o s)
  BY <1>1, <1>2, PushShape
<1>4. \A p : /\ End(<<b>> \o s, p) = End(s, p)
             /\ Stage(<<b>> \o s, p) = Stage(s, p)
  BY <1>1, <1>2, PushView
<1> QED
  BY <1>3, <1>4 DEF Leads, b

(* A function of the page is called, or not.                               *)
LEMMA LeadsMaybe ==
  ASSUME NEW r \in Requests, NEW s, NEW m, NEW f, Leads(s, r, m, f),
         NEW of \in Quietly, NEW b, b = <<>> \/ b = <<Body(of, r)>>
  PROVE  Leads(b \o s, r, m, f) /\ b \in Seq(Frame)
<1>1. s \in Seq(Frame)
  BY DEF Leads, Shape
<1>1a. of \in Quietly \cup Stages
  OBVIOUS
<1>1b. of # "beforeSend"
  BY DEF Quietly
<1>2. Leads(<<Body(of, r)>> \o s, r, m, f) /\ <<Body(of, r)>> \in Seq(Frame)
  BY <1>1a, <1>1b, LeadsBody, Frames
<1>3. <<>> \o s = s /\ <<>> \in Seq(Frame)
  BY <1>1
<1> QED
  BY <1>2, <1>3

(* How stacks are put together does not matter.                            *)
LEMMA Concats ==
  ASSUME NEW a \in Seq(Frame), NEW b \in Seq(Frame), NEW c \in Seq(Frame)
  PROVE  (a \o b) \o c = a \o (b \o c)
OBVIOUS

Associate(a, b, c) == (a \o b) \o c = a \o (b \o c)

Regroup(a, b, c, d) == a \o b \o c \o d = a \o (b \o (c \o d))

LEMMA MoreConcats ==
  ASSUME NEW a \in Seq(Frame), NEW b \in Seq(Frame), NEW c \in Seq(Frame),
         NEW d \in Seq(Frame)
  PROVE  Regroup(a, b, c, d)
<1>1. a \o b \in Seq(Frame) /\ c \o d \in Seq(Frame)
  OBVIOUS
<1>2. \A x, y, z \in Seq(Frame) : Associate(x, y, z)
  BY Concats DEF Associate
<1>3. Associate(a \o b, c, d) /\ Associate(a, b, c \o d)
  BY <1>1, <1>2, Zenon
<1> QED
  BY <1>3, Zenon DEF Associate, Regroup

(* What is left below the top.                                             *)
LEMMA LeadsBelow ==
  ASSUME Shape(calls), calls # <<>>
  PROVE  /\ Top.r \in Requests
         /\ Top.runs = "ajax" =>
              /\ Stage(calls, Top.r) = {Top.at} /\ End(calls, Top.r) = {}
              /\ Leads(Below, Top.r, {}, {})
         /\ Top.runs = "done" =>
              /\ End(calls, Top.r) = {Top.at}
              /\ Leads(Below, Top.r, Stage(calls, Top.r), {})
         /\ Top.runs = "body" =>
              \A r \in Requests :
                Leads(Below, r, Stage(calls, r), End(calls, r))
<1> DEFINE f == Top
           t == Below
<1>1. /\ Shape(t) /\ f \in Frame
      /\ f.runs = "ajax" =>
           /\ Stage(calls, f.r) = {f.at} /\ End(calls, f.r) = {}
           /\ Stage(t, f.r) = {}
      /\ f.runs = "done" =>
           End(calls, f.r) = {f.at} /\ End(t, f.r) = {}
      /\ \A q : f.runs # "ajax" \/ f.r # q => Stage(t, q) = Stage(calls, q)
      /\ \A q : f.runs # "done" \/ f.r # q => End(t, q) = End(calls, q)
  BY PopView DEF Top, Below
<1>2. f.r \in Requests
  BY <1>1 DEF Frame
<1> HIDE DEF f, t
<1>3. CASE f.runs = "ajax"
  <2>1. Leads(t, f.r, {}, {})
    BY <1>1, <1>3 DEF Leads
  <2> QED  BY <1>1, <1>2, <1>3, <2>1 DEF f, t
<1>4. CASE f.runs = "done"
  <2>1. Leads(t, f.r, Stage(calls, f.r), {})
    BY <1>1, <1>4 DEF Leads
  <2> QED  BY <1>1, <1>2, <1>4, <2>1 DEF f, t
<1>5. CASE f.runs = "body"
  <2>1. \A r \in Requests : Leads(t, r, Stage(calls, r), End(calls, r))
    BY <1>1, <1>5 DEF Leads
  <2> QED  BY <1>1, <1>2, <1>5, <2>1 DEF f, t
<1>6. f.runs \in {"ajax", "done", "body"}
  BY <1>1 DEF Frame
<1> QED
  BY <1>3, <1>4, <1>5, <1>6

(* The stack as it is.                                                     *)
LEMMA LeadsOn ==
  ASSUME Shape(calls), NEW r
  PROVE  Leads(calls, r, Stage(calls, r), End(calls, r))
BY DEF Leads
-----------------------------------------------------------------------------
(* The types.                                                              *)
Typing ==
  /\ options \in [Requests -> Options \cup {Off}]
  /\ state \in [Requests -> 0 .. 2]
  /\ transport \in [Requests -> BOOLEAN]
  /\ xhr \in [Requests -> {"none", "open", "closed"}]
  /\ deferred \in [Requests -> {"no", "resolve", "reject"}]
  /\ completed \in [Requests -> BOOLEAN]
  /\ statusText \in [Requests -> {Off, "success", "error", "parsererror",
                                  "timeout", "abort", "canceled"}]
  /\ told \in [Requests -> [success : Int, error : Int, complete : Int]]
  /\ \A R \in {timers, fireGlobals, installed, reopened} : R \subseteq Requests
  /\ active \in Int /\ starts \in Int /\ stops \in Int /\ thrown \in BOOLEAN

(* A request that was not made yet.                                        *)
Untouched(r) ==
  /\ state[r] = 0 /\ ~transport[r] /\ xhr[r] = "none" /\ deferred[r] = "no"
  /\ ~completed[r]
  /\ r \notin timers /\ r \notin fireGlobals
  /\ r \notin installed /\ r \notin reopened
  /\ Stage(calls, r) = {} /\ End(calls, r) = {}

(* A transport is listened to exactly while the request is under way, and  *)
(* only then may its timeout come.                                         *)
Sent(r) ==
  /\ xhr[r] = "open" <=> state[r] = 1
  /\ state[r] = 1 => transport[r] /\ r \in installed
  /\ r \in timers => state[r] = 1

(* The stages before the callbacks are installed.                          *)
Early == {"filtered", "beforeSend", "asked", "refused", "install"}

(* A request that is still being made is not under way, and was not sent   *)
(* after it was done: that is what sending it does.  Its callbacks are     *)
(* installed by the stage it is at, and it is counted after the first one. *)
Coming(r) ==
  LET m == Stage(calls, r)
  IN  /\ m # {} /\ "wait" \notin m => state[r] # 1 /\ r \notin reopened
      /\ m \cap {"transport", "send", "wait"} # {} => r \in installed
      /\ m \cap Early # {} => r \notin installed
      /\ "filtered" \in m => r \notin fireGlobals

(* A request ends on the stack only once it is done; one that is done is   *)
(* settled, and then completed, unless the steps that do so are still to   *)
(* come or were lost with an exception.  Only what has callbacks is        *)
(* resolved.                                                               *)
Ending(r) ==
  LET f == End(calls, r)
  IN  /\ f # {} => state[r] = 2
      /\ "resolve" \in f \/ deferred[r] = "resolve" => r \in installed
      /\ state[r] = 2 /\ ~thrown =>
           /\ deferred[r] # "no" \/ "resolve" \in f \/ "reject" \in f
           /\ completed[r] \/ "resolve" \in f \/ "reject" \in f
              \/ "complete" \in f

(* The callbacks were called as the deferreds were settled, if they were   *)
(* installed.                                                              *)
Telling(r) ==
  /\ told[r].success =
       IF r \in installed /\ deferred[r] = "resolve" THEN 1 ELSE 0
  /\ told[r].error = IF r \in installed /\ deferred[r] = "reject" THEN 1 ELSE 0
  /\ told[r].complete = IF r \in installed /\ completed[r] THEN 1 ELSE 0

(* A request that was counted and not sent is still being made.            *)
Counted(r) ==
  r \in fireGlobals /\ state[r] = 0 /\ ~thrown => Stage(calls, r) # {}

RequestInv(r) ==
  /\ options[r] = Off => Untouched(r)
  /\ Sent(r) /\ Coming(r) /\ Ending(r) /\ Telling(r) /\ Counted(r)

(* A step that has nothing to do with a request.                           *)
AsWere(q) ==
  /\ options'[q] = options[q] /\ state'[q] = state[q] /\ xhr'[q] = xhr[q]
  /\ transport'[q] = transport[q] /\ deferred'[q] = deferred[q]
  /\ completed'[q] = completed[q] /\ told'[q] = told[q]
  /\ q \in timers' <=> q \in timers
  /\ q \in fireGlobals' <=> q \in fireGlobals
  /\ q \in installed' <=> q \in installed
  /\ q \in reopened' <=> q \in reopened
  /\ Stage(calls', q) = Stage(calls, q) /\ End(calls', q) = End(calls, q)

Others(r) == \A q \in Requests \ {r} : AsWere(q)

(* A request that a step has nothing to do with stays as it is.            *)
LEMMA SameKeeps ==
  ASSUME NEW q, RequestInv(q), AsWere(q), thrown' = thrown
  PROVE  RequestInv(q)'
<1>1. (options[q] = Off => Untouched(q))'
  BY DEF RequestInv, AsWere, Untouched
<1>2. Sent(q)'
  BY DEF RequestInv, AsWere, Sent
<1>3. Coming(q)'
  BY DEF RequestInv, AsWere, Coming
<1>4. Ending(q)'
  BY DEF RequestInv, AsWere, Ending
<1>5. Telling(q)'
  BY DEF RequestInv, AsWere, Telling
<1>6. Counted(q)'
  BY DEF RequestInv, AsWere, Counted
<1> QED
  BY <1>1, <1>2, <1>3, <1>4, <1>5, <1>6 DEF RequestInv

(* done() has been called for a request, and what called it has been left. *)
LEMMA DoneEffect ==
  ASSUME Typing, NEW r \in Requests, NEW result \in {"resolve", "reject"},
         NEW text \in {"success", "error", "parsererror", "timeout", "abort",
                       "canceled"},
         NEW open \in [Requests -> {"none", "open", "closed"}],
         \A q \in Requests \ {r} : open[q] = xhr[q],
         NEW rest, NEW m, Leads(rest, r, m, End(calls, r)),
         End(calls, r) # {} => state[r] = 2,
         Done(r, result, text, open, rest),
         UNCHANGED <<options, fireGlobals, installed, deferred, completed,
                     told, counter, reopened, thrown>>
  PROVE  /\ Typing' /\ Others(r) /\ Shape(calls')
         /\ xhr' = open /\ state'[r] = 2 /\ Stage(calls', r) = m
         /\ End(calls', r) = IF state[r] = 2 THEN End(calls, r) ELSE {result}
         /\ transport'[r] => transport[r]
         /\ r \in timers' => r \in timers
         /\ state[r] # 2 => r \notin timers'
<1>1. CASE state[r] = 2
  <2>1. /\ calls' = rest /\ xhr' = open
        /\ UNCHANGED <<state, timers, transport, statusText>>
    BY <1>1 DEF Done
  <2>2. Typing'
    BY <2>1 DEF Typing, counter
  <2>3. Others(r)
    BY <2>1 DEF Others, AsWere, Leads
  <2> QED  BY <1>1, <2>1, <2>2, <2>3 DEF Leads
<1>2. CASE state[r] # 2
  <2>1. /\ state' = [state EXCEPT ![r] = 2]
        /\ timers' = timers \ {r} /\ xhr' = open
        /\ transport' = [transport EXCEPT ![r] = FALSE]
        /\ statusText' = [statusText EXCEPT ![r] = text]
        /\ calls' = <<Finishing(r, result)>> \o rest
    BY <1>2 DEF Done
  <2>2. Leads(calls', r, m, {result})
    <3>1. Leads(rest, r, m, {}) /\ result \in Ends
      BY <1>2 DEF Ends
    <3> QED  BY <2>1, <3>1, LeadsFinishing
  <2>3. Typing'
    <3>1. /\ state' \in [Requests -> 0 .. 2]
          /\ transport' \in [Requests -> BOOLEAN]
          /\ statusText' \in [Requests -> {Off, "success", "error",
                        "parsererror", "timeout", "abort", "canceled"}]
      BY <2>1 DEF Typing
    <3> QED  BY <2>1, <3>1 DEF Typing, counter
  <2>4. /\ state'[r] = 2 /\ ~transport'[r]
        /\ \A q \in Requests \ {r} : /\ state'[q] = state[q]
                                     /\ transport'[q] = transport[q]
    BY <2>1 DEF Typing
  <2>5. Others(r)
    BY <2>1, <2>2, <2>4 DEF Others, AsWere, Leads
  <2> QED  BY <1>2, <2>1, <2>2, <2>3, <2>4, <2>5 DEF Leads
<1> QED
  BY <1>1, <1>2

(* The inductive invariant of the requests.                                *)
IInv ==
  Typing /\ Shape(calls) /\ \A r \in Requests : RequestInv(r)

(* The requests that the counter has still to give back; those that it has *)
(* not given back yet, or that are not to be given back before they are    *)
(* sent a second time; and those that are given back twice.                *)
Live == {r \in fireGlobals : state[r] # 2 \/ End(calls, r) # {}}
Owed == {r \in fireGlobals \ reopened :
           ~(state[r] = 2 /\ Stage(calls, r) # {} /\ End(calls, r) = {})}
Again == reopened \cap fireGlobals

(* The counter is the number of what it has to give back, less one for     *)
(* each request that is given back twice, and an exception can only leave  *)
(* it too large; it never is larger than what was not given back.          *)
CounterInv ==
  /\ active + Cardinality(Again) >= Cardinality(Live)
  /\ ~thrown => active + Cardinality(Again) = Cardinality(Live)
  /\ active <= Cardinality(Owed)

(* The invariant is kept when it is for the request of the step.           *)
LEMMA OthersKeep ==
  ASSUME IInv, NEW r \in Requests, Typing', Shape(calls)', Others(r),
         RequestInv(r)', thrown' = thrown
  PROVE  IInv'
<1>1. ASSUME NEW q \in Requests \ {r} PROVE RequestInv(q)'
  BY SameKeeps DEF IInv, Others
<1> QED
  BY <1>1 DEF IInv

(* The requests are finitely many, and so are any of them.                 *)
LEMMA Finite ==
  /\ IsFiniteSet(Requests) /\ Cardinality(Requests) = MaxRequests
  /\ \A A \in SUBSET Requests :
       /\ IsFiniteSet(A) /\ Cardinality(A) \in Nat
       /\ \A B \in SUBSET A : Cardinality(B) <= Cardinality(A)
<1>1. IsFiniteSet(Requests) /\ Cardinality(Requests) = MaxRequests
  BY FS_Interval, AjaxAssumption DEF Requests, AjaxAssumption
<1>2. ASSUME NEW A \in SUBSET Requests
      PROVE  /\ IsFiniteSet(A) /\ Cardinality(A) \in Nat
             /\ \A B \in SUBSET A : Cardinality(B) <= Cardinality(A)
  BY <1>1, FS_Subset, FS_CardinalityType
<1> QED
  BY <1>1, <1>2

(* The sets that are counted are sets of requests.                         *)
LEMMA Sets ==
  Typing => /\ Live \in SUBSET Requests /\ Owed \in SUBSET Requests
           /\ Again \in SUBSET Requests /\ active \in Int
BY DEF Typing, Live, Owed, Again

(* What is neither counted up nor down.                                    *)
LEMMA CounterSame ==
  ASSUME Typing, Typing', CounterInv, NEW r \in Requests, Others(r),
         active' = active, thrown' = thrown,
         r \in Live' <=> r \in Live, r \in Again' <=> r \in Again,
         r \in Owed => r \in Owed'
  PROVE  CounterInv'
<1>0. /\ Live \in SUBSET Requests /\ Owed \in SUBSET Requests
      /\ Again \in SUBSET Requests /\ active \in Int
      /\ Live' \in SUBSET Requests /\ Owed' \in SUBSET Requests
      /\ Again' \in SUBSET Requests /\ active' \in Int
  BY Sets DEF Typing, Live, Owed, Again
<1>1. ASSUME NEW q \in Requests
      PROVE  /\ q \in Live' <=> q \in Live
             /\ q \in Again' <=> q \in Again
             /\ q \in Owed => q \in Owed'
  BY DEF Others, AsWere, Live, Owed, Again
<1>2. Live' = Live /\ Again' = Again /\ Owed \subseteq Owed'
  BY <1>0, <1>1
<1>3. Cardinality(Owed) <= Cardinality(Owed')
  BY <1>0, <1>2, Finite
<1>4. active' <= Cardinality(Owed')
  BY <1>0, <1>3, Finite DEF CounterInv
<1> QED
  BY <1>2, <1>4 DEF CounterInv

(* done() keeps the invariant, whoever calls it.                           *)
LEMMA DoneKeeps ==
  ASSUME IInv, CounterInv, NEW r \in Requests, options[r] # Off,
         NEW result \in {"resolve", "reject"},
         NEW text \in {"success", "error", "parsererror", "timeout", "abort",
                       "canceled"},
         NEW open, \/ open = xhr /\ xhr[r] # "open"
                   \/ open = [xhr EXCEPT ![r] = "closed"] /\ xhr[r] = "open",
         result = "resolve" => xhr[r] = "open",
         NEW rest, NEW m, Leads(rest, r, m, End(calls, r)),
         m = {} \/ m = Stage(calls, r),
         Done(r, result, text, open, rest),
         UNCHANGED <<options, fireGlobals, installed, deferred, completed,
                     told, counter, reopened, thrown>>
  PROVE  IInv' /\ CounterInv'
<1>1. RequestInv(r) /\ Typing
  BY DEF IInv
<1>2. /\ open \in [Requests -> {"none", "open", "closed"}]
      /\ \A q \in Requests \ {r} : open[q] = xhr[q]
      /\ open[r] # "open"
  BY <1>1 DEF Typing
<1>3. End(calls, r) # {} => state[r] = 2
  BY <1>1 DEF RequestInv, Ending
<1>4. /\ Typing' /\ Others(r) /\ Shape(calls')
      /\ xhr' = open /\ state'[r] = 2 /\ Stage(calls', r) = m
      /\ End(calls', r) = IF state[r] = 2 THEN End(calls, r) ELSE {result}
      /\ transport'[r] => transport[r]
      /\ r \in timers' => r \in timers
      /\ state[r] # 2 => r \notin timers'
  BY <1>1, <1>2, <1>3, DoneEffect
<1>5. RequestInv(r)'
  <2>1. Sent(r)'
    BY <1>1, <1>2, <1>4 DEF RequestInv, Sent
  <2>2. Coming(r)'
    BY <1>1, <1>4 DEF RequestInv, Coming
  <2>3. Ending(r)'
    BY <1>1, <1>4 DEF RequestInv, Ending, Sent
  <2>4. Telling(r)'
    BY <1>1 DEF RequestInv, Telling
  <2>5. Counted(r)'
    BY <1>4 DEF Counted
  <2> QED  BY <2>1, <2>2, <2>3, <2>4, <2>5 DEF RequestInv
<1>6. IInv'
  BY <1>4, <1>5, OthersKeep
<1>7. CounterInv'
  <2>1. /\ r \in Live' <=> r \in Live
        /\ r \in Again' <=> r \in Again
        /\ r \in Owed => r \in Owed'
    BY <1>3, <1>4 DEF Live, Again, Owed
  <2> QED  BY <1>1, <1>4, <2>1, CounterSame DEF counter
<1> QED
  BY <1>6, <1>7

-----------------------------------------------------------------------------
(* abort(), called by the page, a timeout or the making of the request.    *)
LEMMA AbortKeeps ==
  ASSUME IInv, CounterInv, NEW r \in Requests, options[r] # Off,
         NEW text \in {"timeout", "abort", "canceled"},
         NEW rest, NEW m, Leads(rest, r, m, End(calls, r)),
         m = {} \/ m = Stage(calls, r),
         Abort(r, text, rest),
         UNCHANGED <<options, fireGlobals, installed, deferred, completed,
                     told, counter, reopened, thrown>>
  PROVE  IInv' /\ CounterInv'
<1>1. PICK open : open = IF transport[r] /\ xhr[r] = "open"
                         THEN [xhr EXCEPT ![r] = "closed"] ELSE xhr
  OBVIOUS
<1>2. \/ open = xhr /\ xhr[r] # "open"
      \/ open = [xhr EXCEPT ![r] = "closed"] /\ xhr[r] = "open"
  BY <1>1 DEF IInv, RequestInv, Sent
<1>3. Done(r, "reject", text, open, rest)
  BY <1>1 DEF Abort
<1> QED
  BY <1>2, <1>3, DoneKeeps

(* The answer has come.                                                    *)
LEMMA AnsweredKeeps ==
  ASSUME IInv, CounterInv, NEW r \in Requests,
         NEW text \in {"success", "error", "parsererror"},
         NEW rest, NEW m, Leads(rest, r, m, End(calls, r)),
         m = {} \/ m = Stage(calls, r),
         Answered(r, text, rest)
  PROVE  IInv' /\ CounterInv'
<1>1. PICK result : result = IF text = "success" THEN "resolve" ELSE "reject"
  OBVIOUS
<1>2. PICK open : open = [xhr EXCEPT ![r] = "closed"]
  OBVIOUS
<1>3. /\ xhr[r] = "open" /\ Done(r, result, text, open, rest)
      /\ UNCHANGED <<options, fireGlobals, installed, deferred, completed,
                     told, counter, reopened, thrown>>
  BY <1>1, <1>2 DEF Answered
<1>4. options[r] # Off
  BY <1>3 DEF IInv, RequestInv, Untouched
<1> QED
  BY <1>1, <1>2, <1>3, <1>4, DoneKeeps

(* What is on the stack was made.                                          *)
LEMMA TopIsMade ==
  ASSUME IInv, calls # <<>>
  PROVE  /\ Top.r \in Requests
         /\ Top.runs \in {"ajax", "done"} => options[Top.r] # Off
<1>1. Shape(calls)
  BY DEF IInv
<1>2. /\ Top.r \in Requests
      /\ Top.runs = "ajax" => Stage(calls, Top.r) = {Top.at}
      /\ Top.runs = "done" => End(calls, Top.r) = {Top.at}
  BY <1>1, LeadsBelow
<1> QED
  BY <1>2 DEF IInv, RequestInv, Untouched

(* beforeSend has returned false.                                          *)
LEMMA RefusedKeeps == IInv /\ CounterInv /\ Refused => IInv' /\ CounterInv'
<1> SUFFICES ASSUME IInv, CounterInv, Refused PROVE IInv' /\ CounterInv'
  OBVIOUS
<1>1. PICK r : r = Top.r
  OBVIOUS
<1>2. /\ calls # <<>> /\ Top.runs = "ajax" /\ Shape(calls)
      /\ Abort(r, "canceled", Below)
      /\ UNCHANGED <<options, fireGlobals, installed, deferred, completed,
                     told, counter, reopened, thrown>>
  BY <1>1 DEF Refused, At, IInv
<1>3. r \in Requests /\ options[r] # Off
  BY <1>1, <1>2, TopIsMade
<1>4. Leads(Below, r, {}, End(calls, r))
  BY <1>1, <1>2, LeadsBelow
<1> QED
  BY <1>2, <1>3, <1>4, AbortKeeps

(* There is no transport.                                                  *)
LEMMA NoTransportKeeps ==
  IInv /\ CounterInv /\ NoTransport => IInv' /\ CounterInv'
<1> SUFFICES ASSUME IInv, CounterInv, NoTransport PROVE IInv' /\ CounterInv'
  OBVIOUS
<1>1. PICK r : r = Top.r
  OBVIOUS
<1>2. /\ calls # <<>> /\ Top.runs = "ajax" /\ Top.at = "transport"
      /\ Shape(calls) /\ Done(r, "reject", "error", xhr, Below)
      /\ UNCHANGED <<options, fireGlobals, installed, deferred, completed,
                     told, counter, reopened, thrown>>
  BY <1>1 DEF NoTransport, At, IInv
<1>3. r \in Requests /\ options[r] # Off
  BY <1>1, <1>2, TopIsMade
<1>4. Stage(calls, r) = {"transport"} /\ Leads(Below, r, {}, End(calls, r))
  BY <1>1, <1>2, LeadsBelow
<1>5. xhr[r] # "open"
  BY <1>3, <1>4 DEF IInv, RequestInv, Coming, Sent
<1> QED
  BY <1>2, <1>3, <1>4, <1>5, DoneKeeps

(* An answer that was waited for.                                          *)
LEMMA WaitKeeps ==
  ASSUME IInv, CounterInv, NEW text \in {"success", "error", "parsererror"},
         Wait(text)
  PROVE  IInv' /\ CounterInv'
<1>1. PICK r : r = Top.r
  OBVIOUS
<1>2. /\ calls # <<>> /\ Top.runs = "ajax" /\ Shape(calls)
      /\ Answered(r, text, Below)
  BY <1>1 DEF Wait, At, IInv
<1>3. r \in Requests /\ Leads(Below, r, {}, End(calls, r))
  BY <1>1, <1>2, LeadsBelow
<1> QED
  BY <1>2, <1>3, AnsweredKeeps

(* An answer that comes when the script has returned.                      *)
LEMMA AnswerKeeps ==
  ASSUME IInv, CounterInv, NEW r \in Requests,
         NEW text \in {"success", "error", "parsererror"}, Answer(r, text)
  PROVE  IInv' /\ CounterInv'
<1>1. calls = <<>> /\ Answered(r, text, <<>>) /\ Shape(calls)
  BY DEF Answer, IInv
<1>2. Leads(<<>>, r, Stage(calls, r), End(calls, r))
  BY <1>1, LeadsOn
<1> QED
  BY <1>1, <1>2, AnsweredKeeps

(* The timeout comes.                                                      *)
LEMMA TimeoutKeeps ==
  ASSUME IInv, CounterInv, NEW r \in Requests, Timeout(r)
  PROVE  IInv' /\ CounterInv'
<1>1. /\ calls = <<>> /\ r \in timers /\ Shape(calls)
      /\ Abort(r, "timeout", <<>>)
      /\ UNCHANGED <<options, fireGlobals, installed, deferred, completed,
                     told, counter, reopened, thrown>>
  BY DEF Timeout, IInv
<1>2. Leads(<<>>, r, Stage(calls, r), End(calls, r))
  BY <1>1, LeadsOn
<1>3. options[r] # Off
  BY <1>1 DEF IInv, RequestInv, Untouched
<1> QED
  BY <1>1, <1>2, <1>3, AbortKeeps

(* The page aborts a request.                                              *)
LEMMA UserAbortKeeps ==
  ASSUME IInv, CounterInv, NEW r \in Requests, UserAbort(r)
  PROVE  IInv' /\ CounterInv'
<1>1. PICK text \in {"abort", "canceled"} : text = strAbort(r)
  BY DEF strAbort
<1>2. /\ options[r] # Off /\ Abort(r, text, calls) /\ Shape(calls)
      /\ UNCHANGED <<options, fireGlobals, installed, deferred, completed,
                     told, counter, reopened, thrown>>
  BY <1>1 DEF UserAbort, IInv
<1>3. Leads(calls, r, Stage(calls, r), End(calls, r))
  BY <1>2, LeadsOn
<1> QED
  BY <1>2, <1>3, AbortKeeps

(* Only the stack moves.                                                   *)
LEMMA StackKeeps ==
  ASSUME IInv, CounterInv, NEW r \in Requests, NEW m,
         Leads(calls', r, m, End(calls, r)),
         m # {} <=> Stage(calls, r) # {}, RequestInv(r)',
         UNCHANGED <<request, answer, counter, reopened, thrown>>
  PROVE  IInv' /\ CounterInv'
<1>1. Typing' /\ Shape(calls)' /\ Others(r)
  <2>1. Typing'
    BY DEF IInv, Typing, request, answer, counter
  <2> QED  BY <2>1 DEF Leads, Others, AsWere, request, answer, counter
<1>2. Stage(calls', r) = m /\ End(calls', r) = End(calls, r)
  BY DEF Leads
<1>3. /\ r \in Live' <=> r \in Live
      /\ r \in Again' <=> r \in Again
      /\ r \in Owed => r \in Owed'
  BY <1>2 DEF Live, Again, Owed, request
<1> QED
  BY <1>1, <1>3, OthersKeep, CounterSame DEF counter, IInv

(* Nothing is left to do that was not there before.                        *)
LEMMA QuietKeeps ==
  ASSUME IInv, CounterInv, NEW r \in Requests,
         Leads(calls', r, Stage(calls, r), End(calls, r)),
         UNCHANGED <<request, answer, counter, reopened, thrown>>
  PROVE  IInv' /\ CounterInv'
<1>1. AsWere(r) /\ RequestInv(r)
  BY DEF Leads, AsWere, IInv, request, answer, counter
<1>2. RequestInv(r)'
  BY <1>1, SameKeeps
<1> QED
  BY <1>2, StackKeeps

(* The making of a request goes on to another stage before its callbacks   *)
(* are installed.                                                          *)
LEMMA StageKeeps ==
  ASSUME IInv, CounterInv, NEW r \in Requests,
         NEW a \in Early \ {"filtered"}, NEW b \in Early,
         Stage(calls, r) = {b}, Leads(calls', r, {a}, End(calls, r)),
         UNCHANGED <<request, answer, counter, reopened, thrown>>
  PROVE  IInv' /\ CounterInv'
<1>1. RequestInv(r) /\ Stage(calls', r) = {a} /\ End(calls', r) = End(calls, r)
  BY DEF IInv, Leads
<1>2. Sent(r)'
  BY <1>1 DEF RequestInv, Sent, request, answer, counter
<1>3. Coming(r)'
  BY <1>1 DEF RequestInv, Coming, request, Early
<1>4. Ending(r)'
  BY <1>1 DEF RequestInv, Ending, request, answer
<1>5. Telling(r)'
  BY <1>1 DEF RequestInv, Telling, request, answer
<1>6. Counted(r)'
  BY <1>1 DEF Counted
<1>7. (options[r] = Off => Untouched(r))'
  BY <1>1 DEF RequestInv, Untouched, request
<1>8. RequestInv(r)'
  BY <1>2, <1>3, <1>4, <1>5, <1>6, <1>7 DEF RequestInv
<1>9. {a} # {} /\ Stage(calls, r) # {}
  OBVIOUS
<1> QED
  BY <1>8, <1>9, StackKeeps

(* beforeSend is called.                                                   *)
LEMMA BeforeSendKeeps ==
  IInv /\ CounterInv /\ BeforeSend => IInv' /\ CounterInv'
<1> SUFFICES ASSUME IInv, CounterInv, BeforeSend PROVE IInv' /\ CounterInv'
  OBVIOUS
<1>1. PICK r : r = Top.r
  OBVIOUS
<1>2. /\ calls # <<>> /\ Top.runs = "ajax" /\ Top.at = "beforeSend"
      /\ Shape(calls)
      /\ calls' = <<Body("beforeSend", r), Making(r, "asked")>> \o Below
      /\ UNCHANGED <<request, answer, counter, reopened, thrown>>
  BY <1>1 DEF BeforeSend, At, IInv
<1>3. /\ r \in Requests /\ Stage(calls, r) = {"beforeSend"}
      /\ End(calls, r) = {} /\ Leads(Below, r, {}, {})
  BY <1>1, <1>2, LeadsBelow
<1>4. PICK s : s = <<Making(r, "asked")>> \o Below
  OBVIOUS
<1>5. /\ Leads(s, r, {"asked"}, {}) /\ Making(r, "asked") \in Frame
      /\ Body("beforeSend", r) \in Frame /\ Below \in Seq(Frame)
  <2>1. "asked" \in Stages /\ "beforeSend" \in Stages
    BY DEF Stages
  <2>2. Below \in Seq(Frame)
    BY <1>3 DEF Leads, Shape
  <2> QED  BY <1>3, <1>4, <2>1, <2>2, LeadsMaking, Frames
<1>6. s # <<>> /\ Head(s) = Making(r, "asked")
  BY <1>4, <1>5, PushFacts
<1>7. calls' = <<Body("beforeSend", r)>> \o s
  BY <1>2, <1>4, <1>5
<1>8. Leads(calls', r, {"asked"}, {})
  BY <1>3, <1>5, <1>6, <1>7, LeadsBody DEF Stages
<1> QED
  BY <1>2, <1>3, <1>8, StageKeeps DEF Early

(* It has returned, and may have aborted the request.                      *)
LEMMA AllowedKeeps ==
  IInv /\ CounterInv /\ Allowed => IInv' /\ CounterInv'
<1> SUFFICES ASSUME IInv, CounterInv, Allowed PROVE IInv' /\ CounterInv'
  OBVIOUS
<1>1. PICK r : r = Top.r
  OBVIOUS
<1>2. /\ calls # <<>> /\ Top.runs = "ajax" /\ Top.at = "asked"
      /\ Shape(calls)
      /\ UNCHANGED <<options, fireGlobals, installed, deferred, completed,
                     told, counter, reopened, thrown>>
  BY <1>1 DEF Allowed, At, IInv
<1>3. /\ r \in Requests /\ Stage(calls, r) = {"asked"}
      /\ End(calls, r) = {} /\ Leads(Below, r, {}, {})
  BY <1>1, <1>2, LeadsBelow
<1>4. options[r] # Off
  BY <1>1, <1>2, TopIsMade
<1>5. CASE state[r] = 2
  <2>1. Abort(r, "canceled", Below)
    BY <1>1, <1>5 DEF Allowed
  <2> QED  BY <1>2, <1>3, <1>4, <2>1, AbortKeeps
<1>6. CASE state[r] # 2
  <2>1. /\ calls' = <<Making(r, "install")>> \o Below
        /\ UNCHANGED <<xhr, state, timers, transport, statusText>>
    BY <1>1, <1>6 DEF Allowed
  <2>2. Leads(calls', r, {"install"}, {})
    BY <1>3, <2>1, LeadsMaking DEF Stages
  <2>3. UNCHANGED <<request, answer, counter, reopened, thrown>>
    BY <1>2, <2>1 DEF request, answer, counter
  <2> QED  BY <1>3, <2>2, <2>3, StageKeeps DEF Early
<1> QED
  BY <1>5, <1>6

(* A function of the page returns.                                         *)
LEMMA ReturnKeeps ==
  IInv /\ CounterInv /\ Return => IInv' /\ CounterInv'
<1> SUFFICES ASSUME IInv, CounterInv, Return PROVE IInv' /\ CounterInv'
  OBVIOUS
<1>1. PICK r : r = Top.r
  OBVIOUS
<1>2. /\ calls # <<>> /\ Top.runs = "body" /\ Shape(calls)
      /\ calls' = Below
      /\ UNCHANGED <<request, answer, counter, reopened, thrown>>
  BY DEF Return, InBody, IInv
<1>3. r \in Requests /\ Leads(calls', r, Stage(calls, r), End(calls, r))
  BY <1>1, <1>2, LeadsBelow
<1> QED
  BY <1>2, <1>3, QuietKeeps

(* beforeSend returns false.                                               *)
LEMMA ReturnFalseKeeps ==
  IInv /\ CounterInv /\ ReturnFalse => IInv' /\ CounterInv'
<1> SUFFICES ASSUME IInv, CounterInv, ReturnFalse PROVE IInv' /\ CounterInv'
  OBVIOUS
<1>1. PICK r : r = Top.r
  OBVIOUS
<1>2. /\ calls # <<>> /\ Top.runs = "body" /\ Top.at = "beforeSend"
      /\ Shape(calls)
      /\ calls' = <<Making(r, "refused")>> \o Tail(Below)
      /\ UNCHANGED <<request, answer, counter, reopened, thrown>>
  BY <1>1 DEF ReturnFalse, At, IInv
<1>3. r \in Requests /\ Leads(Below, r, Stage(calls, r), End(calls, r))
  BY <1>1, <1>2, LeadsBelow
<1>4. Shape(Below) /\ Below # <<>> /\ Head(Below) = Making(r, "asked")
  BY <1>1, <1>2, PopView DEF Top, Below
<1>5. /\ Head(Below).runs = "ajax" /\ Head(Below).r = r
      /\ Head(Below).at = "asked"
  BY <1>4 DEF Making
<1>6. /\ Shape(Tail(Below))
      /\ Stage(Below, r) = {"asked"} /\ End(Below, r) = {}
      /\ Stage(Tail(Below), r) = {}
      /\ \A q : q # r => Stage(Tail(Below), q) = Stage(Below, q)
      /\ \A q : End(Tail(Below), q) = End(Below, q)
  BY <1>4, <1>5, PopView
<1>7. /\ Leads(Tail(Below), r, {}, {})
      /\ Stage(calls, r) = {"asked"} /\ End(calls, r) = {}
  BY <1>3, <1>6 DEF Leads
<1>8. Leads(calls', r, {"refused"}, {})
  BY <1>2, <1>3, <1>7, LeadsMaking DEF Stages
<1> QED
  BY <1>2, <1>3, <1>7, <1>8, StageKeeps DEF Early

(* One callback more has been called.                                      *)
LEMMA TellFacts ==
  ASSUME Typing, NEW r \in Requests
  PROVE  /\ \A what \in {"success", "error", "complete"} :
              /\ Tell(r, what) \in
                   [Requests -> [success : Int, error : Int, complete : Int]]
              /\ \A q \in Requests \ {r} : Tell(r, what)[q] = told[q]
         /\ Tell(r, "success")[r] = [success |-> told[r].success + 1,
              error |-> told[r].error, complete |-> told[r].complete]
         /\ Tell(r, "error")[r] = [success |-> told[r].success,
              error |-> told[r].error + 1, complete |-> told[r].complete]
         /\ Tell(r, "complete")[r] = [success |-> told[r].success,
              error |-> told[r].error, complete |-> told[r].complete + 1]
<1>1. told \in [Requests -> [success : Int, error : Int, complete : Int]]
  BY DEF Typing
<1>2. /\ Tell(r, "success") = [told EXCEPT ![r].success = @ + 1]
      /\ Tell(r, "error") = [told EXCEPT ![r].error = @ + 1]
      /\ Tell(r, "complete") = [told EXCEPT ![r].complete = @ + 1]
  BY DEF Tell
<1>3. told[r] \in [success : Int, error : Int, complete : Int]
  BY <1>1
<1>4. /\ [told[r] EXCEPT !.success = @ + 1] =
           [success |-> told[r].success + 1, error |-> told[r].error,
            complete |-> told[r].complete]
      /\ [told[r] EXCEPT !.error = @ + 1] =
           [success |-> told[r].success, error |-> told[r].error + 1,
            complete |-> told[r].complete]
      /\ [told[r] EXCEPT !.complete = @ + 1] =
           [success |-> told[r].success, error |-> told[r].error,
            complete |-> told[r].complete + 1]
  BY <1>3
<1>5. /\ Tell(r, "success")[r] = [told[r] EXCEPT !.success = @ + 1]
      /\ Tell(r, "error")[r] = [told[r] EXCEPT !.error = @ + 1]
      /\ Tell(r, "complete")[r] = [told[r] EXCEPT !.complete = @ + 1]
  BY <1>1, <1>2
<1> QED
  BY <1>1, <1>2, <1>4, <1>5

(* The deferreds: the callbacks are called when they are installed.        *)
LEMMA SettleKeeps ==
  IInv /\ CounterInv /\ Settle => IInv' /\ CounterInv'
<1> SUFFICES ASSUME IInv, CounterInv, Settle PROVE IInv' /\ CounterInv'
  OBVIOUS
<1>1. PICK r : r = Top.r
  OBVIOUS
<1>1a. PICK at : at = Top.at
  OBVIOUS
<1>2. /\ calls # <<>> /\ Top.runs = "done" /\ at \in {"resolve", "reject"}
      /\ Shape(calls) /\ Typing
      /\ UNCHANGED <<request, completed, statusText, counter, reopened, thrown>>
  BY <1>1, <1>1a DEF Settle, IInv
<1>3. /\ r \in Requests /\ End(calls, r) = {at}
      /\ Leads(Below, r, Stage(calls, r), {})
  BY <1>1, <1>1a, <1>2, LeadsBelow
<1>3a. RequestInv(r) /\ options[r] # Off
  BY <1>1, <1>2, <1>3, TopIsMade DEF IInv
<1>4. PICK how \in {"success", "error"} :
        how = IF at = "resolve" THEN "success" ELSE "error"
  OBVIOUS
<1>5. PICK event \in {"ajaxSuccess", "ajaxError"} :
        event = IF at = "resolve" THEN "ajaxSuccess" ELSE "ajaxError"
  OBVIOUS
<1>6. PICK a : a = IF deferred[r] = "no" /\ r \in installed
                   THEN <<Body(how, r)>> ELSE <<>>
  OBVIOUS
<1>7. PICK b : b = GlobalEvent(r, event)
  OBVIOUS
<1>8. /\ calls' = a \o (b \o <<Finishing(r, "complete")>> \o Below)
      /\ deferred' = IF deferred[r] = "no"
                     THEN [deferred EXCEPT ![r] = at] ELSE deferred
      /\ told' = IF deferred[r] = "no" /\ r \in installed
                 THEN Tell(r, how) ELSE told
  BY <1>1, <1>1a, <1>4, <1>5, <1>6, <1>7 DEF Settle
<1>9. Leads(calls', r, Stage(calls, r), {"complete"})
  <2>1. PICK s : s = <<Finishing(r, "complete")>> \o Below
    OBVIOUS
  <2>2. /\ Leads(s, r, Stage(calls, r), {"complete"})
        /\ <<Finishing(r, "complete")>> \in Seq(Frame) /\ Below \in Seq(Frame)
    <3>1. "complete" \in Ends
      BY DEF Ends
    <3>2. Below \in Seq(Frame)
      BY <1>3 DEF Leads, Shape
    <3> QED  BY <1>3, <2>1, <3>1, <3>2, LeadsFinishing, Frames
  <2>3. b = <<>> \/ b = <<Body(event, r)>>
    BY <1>7 DEF GlobalEvent
  <2>4. Leads(b \o s, r, Stage(calls, r), {"complete"}) /\ b \in Seq(Frame)
    BY <1>3, <2>2, <2>3, LeadsMaybe DEF Quietly
  <2>5. b \o <<Finishing(r, "complete")>> \o Below = b \o s
    BY <2>1, <2>2, <2>4, Concats
  <2>6. a = <<>> \/ a = <<Body(how, r)>>
    BY <1>6
  <2> QED  BY <1>3, <1>8, <2>4, <2>5, <2>6, LeadsMaybe DEF Quietly
<1>10. Typing' /\ Shape(calls)' /\ Others(r)
  <2>1. /\ deferred' \in [Requests -> {"no", "resolve", "reject"}]
        /\ \A q \in Requests \ {r} : deferred'[q] = deferred[q]
        /\ deferred'[r] = IF deferred[r] = "no" THEN at ELSE deferred[r]
    BY <1>2, <1>3, <1>8 DEF Typing
  <2>2. /\ told' \in [Requests -> [success : Int, error : Int, complete : Int]]
        /\ \A q \in Requests \ {r} : told'[q] = told[q]
    <3>1. CASE told' = told
      BY <1>2, <3>1 DEF Typing
    <3>2. CASE told' = Tell(r, how)
      <4>1. how \in {"success", "error", "complete"}
        OBVIOUS
      <4>2. /\ Tell(r, how) \in
                 [Requests -> [success : Int, error : Int, complete : Int]]
            /\ \A q \in Requests \ {r} : Tell(r, how)[q] = told[q]
        BY <1>2, <1>3, <4>1, TellFacts
      <4> QED  BY <3>2, <4>2
    <3> QED  BY <1>8, <3>1, <3>2
  <2>3. Typing'
    BY <1>2, <2>1, <2>2 DEF Typing, request, counter
  <2>4. Others(r)
    BY <1>2, <1>9, <2>1, <2>2 DEF Leads, Others, AsWere, request, counter
  <2> QED  BY <1>9, <2>3, <2>4 DEF Leads
<1>11a. /\ Stage(calls', r) = Stage(calls, r) /\ End(calls', r) = {"complete"}
        /\ deferred'[r] = IF deferred[r] = "no" THEN at ELSE deferred[r]
  BY <1>2, <1>3, <1>8, <1>9 DEF Typing, Leads
<1>11. /\ told'[r].complete = told[r].complete
       /\ told'[r].success = told[r].success +
            IF deferred[r] = "no" /\ r \in installed /\ at = "resolve"
            THEN 1 ELSE 0
       /\ told'[r].error = told[r].error +
            IF deferred[r] = "no" /\ r \in installed /\ at = "reject"
            THEN 1 ELSE 0
  <2>0. told[r].success \in Int /\ told[r].error \in Int
    BY <1>2, <1>3 DEF Typing
  <2>1. CASE deferred[r] = "no" /\ r \in installed /\ at = "resolve"
    <3>1. told' = Tell(r, "success")
      BY <1>4, <1>8, <2>1
    <3>2. told'[r] = [success |-> told[r].success + 1,
                 error |-> told[r].error, complete |-> told[r].complete]
      BY <1>2, <1>3, <3>1, TellFacts
    <3> QED  BY <2>0, <2>1, <3>2
  <2>2. CASE deferred[r] = "no" /\ r \in installed /\ at = "reject"
    <3>1. told' = Tell(r, "error")
      BY <1>4, <1>8, <2>2
    <3>2. told'[r] = [success |-> told[r].success,
                 error |-> told[r].error + 1, complete |-> told[r].complete]
      BY <1>2, <1>3, <3>1, TellFacts
    <3> QED  BY <2>0, <2>2, <3>2
  <2>3. CASE ~(deferred[r] = "no" /\ r \in installed)
    BY <1>2, <1>3, <1>8, <2>3 DEF Typing
  <2> QED  BY <1>2, <2>1, <2>2, <2>3
<1>12. RequestInv(r)'
  <2>1. Sent(r)'
    BY <1>2, <1>3a DEF RequestInv, Sent, request
  <2>2. Coming(r)'
    BY <1>2, <1>3a, <1>11, <1>11a DEF RequestInv, Coming, request
  <2>3. Ending(r)'
    BY <1>2, <1>3, <1>3a, <1>11, <1>11a DEF RequestInv, Ending, request
  <2>4. Telling(r)'
    BY <1>2, <1>3, <1>3a, <1>11, <1>11a DEF RequestInv, Telling, request, Typing
  <2>5. Counted(r)'
    BY <1>2, <1>3a, <1>11, <1>11a DEF RequestInv, Counted, request
  <2> QED  BY <1>2, <1>3a, <2>1, <2>2, <2>3, <2>4, <2>5 DEF RequestInv, request
<1>13. /\ r \in Live' <=> r \in Live
       /\ r \in Again' <=> r \in Again
       /\ r \in Owed => r \in Owed'
  BY <1>2, <1>3, <1>11a DEF Live, Again, Owed, request
<1> QED
  BY <1>2, <1>3, <1>10, <1>12, <1>13, OthersKeep, CounterSame DEF counter

(* The request is completed.                                               *)
LEMMA CompleteKeeps ==
  IInv /\ CounterInv /\ Complete => IInv' /\ CounterInv'
<1> SUFFICES ASSUME IInv, CounterInv, Complete PROVE IInv' /\ CounterInv'
  OBVIOUS
<1>1. PICK r : r = Top.r
  OBVIOUS
<1>2. /\ calls # <<>> /\ Top.runs = "done" /\ Top.at = "complete"
      /\ Shape(calls) /\ Typing
      /\ UNCHANGED <<request, deferred, statusText, counter, reopened, thrown>>
  BY <1>1 DEF Complete, At, IInv
<1>3. /\ r \in Requests /\ End(calls, r) = {"complete"}
      /\ Leads(Below, r, Stage(calls, r), {})
  BY <1>1, <1>2, LeadsBelow
<1>4. RequestInv(r) /\ options[r] # Off
  BY <1>1, <1>2, <1>3, TopIsMade DEF IInv
<1>5. PICK a : a = IF ~completed[r] /\ r \in installed
                   THEN <<Body("complete", r)>> ELSE <<>>
  OBVIOUS
<1>6. PICK b : b = GlobalEvent(r, "ajaxComplete")
  OBVIOUS
<1>7. /\ calls' = a \o b \o <<Finishing(r, "count")>> \o Below
      /\ completed' = [completed EXCEPT ![r] = TRUE]
      /\ told' = IF ~completed[r] /\ r \in installed
                 THEN Tell(r, "complete") ELSE told
  BY <1>1, <1>5, <1>6 DEF Complete
<1>8. Leads(calls', r, Stage(calls, r), {"count"})
  <2>1. PICK s : s = <<Finishing(r, "count")>> \o Below
    OBVIOUS
  <2>2. /\ Leads(s, r, Stage(calls, r), {"count"}) /\ s \in Seq(Frame)
        /\ <<Finishing(r, "count")>> \in Seq(Frame) /\ Below \in Seq(Frame)
    <3>1. "count" \in Ends
      BY DEF Ends
    <3>2. Below \in Seq(Frame)
      BY <1>3 DEF Leads, Shape
    <3>3. Leads(s, r, Stage(calls, r), {"count"})
      BY <1>3, <2>1, <3>1, LeadsFinishing
    <3>4. s \in Seq(Frame)
      BY <3>3 DEF Leads, Shape
    <3> QED  BY <1>3, <3>1, <3>2, <3>3, <3>4, Frames
  <2>3. b = <<>> \/ b = <<Body("ajaxComplete", r)>>
    BY <1>6 DEF GlobalEvent
  <2>4. Leads(b \o s, r, Stage(calls, r), {"count"}) /\ b \in Seq(Frame)
    BY <1>3, <2>2, <2>3, LeadsMaybe DEF Quietly
  <2>5. a = <<>> \/ a = <<Body("complete", r)>>
    BY <1>5
  <2>6. Leads(a \o (b \o s), r, Stage(calls, r), {"count"}) /\ a \in Seq(Frame)
    BY <1>3, <2>4, <2>5, LeadsMaybe DEF Quietly
  <2>7. a \o b \o <<Finishing(r, "count")>> \o Below = a \o (b \o s)
    <3>1. <<Finishing(r, "count")>> \in Seq(Frame) /\ Below \in Seq(Frame)
      BY <2>2
    <3>2. Regroup(a, b, <<Finishing(r, "count")>>, Below)
      BY <3>1, <2>4, <2>6, MoreConcats
    <3> QED  BY <3>2, <2>1, Zenon DEF Regroup
  <2>8. calls' = a \o (b \o s)
    BY <1>7, <2>7
  <2> QED  BY <2>6, <2>8
<1>9. /\ Stage(calls', r) = Stage(calls, r) /\ End(calls', r) = {"count"}
      /\ completed'[r]
      /\ told'[r].success = told[r].success /\ told'[r].error = told[r].error
      /\ told'[r].complete = told[r].complete +
           IF ~completed[r] /\ r \in installed THEN 1 ELSE 0
  <2>1. completed'[r]
    BY <1>2, <1>3, <1>7 DEF Typing
  <2>2. told[r].complete \in Int
    BY <1>2, <1>3 DEF Typing
  <2>3. CASE ~completed[r] /\ r \in installed
    <3>1. told' = Tell(r, "complete")
      BY <1>7, <2>3
    <3>2. told'[r] = [success |-> told[r].success, error |-> told[r].error,
                      complete |-> told[r].complete + 1]
      BY <1>2, <1>3, <3>1, TellFacts
    <3> QED  BY <1>8, <2>1, <2>3, <3>2 DEF Leads
  <2>4. CASE ~(~completed[r] /\ r \in installed)
    BY <1>7, <1>8, <2>1, <2>2, <2>4 DEF Leads
  <2> QED  BY <2>3, <2>4
<1>10. Typing' /\ Shape(calls)' /\ Others(r)
  <2>1. /\ completed' \in [Requests -> BOOLEAN]
        /\ \A q \in Requests \ {r} : completed'[q] = completed[q]
    BY <1>2, <1>3, <1>7 DEF Typing
  <2>2. /\ told' \in [Requests -> [success : Int, error : Int, complete : Int]]
        /\ \A q \in Requests \ {r} : told'[q] = told[q]
    <3>1. CASE told' = told
      BY <1>2, <3>1 DEF Typing
    <3>2. CASE told' = Tell(r, "complete")
      BY <1>2, <1>3, <3>2, TellFacts
    <3> QED  BY <1>7, <3>1, <3>2
  <2>3. Typing'
    BY <1>2, <2>1, <2>2 DEF Typing, request, counter
  <2>4. Others(r)
    BY <1>2, <1>8, <2>1, <2>2 DEF Leads, Others, AsWere, request, counter
  <2> QED  BY <1>8, <2>3, <2>4 DEF Leads
<1>11. RequestInv(r)'
  <2>1. Sent(r)'
    BY <1>2, <1>4 DEF RequestInv, Sent, request
  <2>2. Coming(r)'
    BY <1>2, <1>4, <1>9 DEF RequestInv, Coming, request
  <2>3. Ending(r)'
    BY <1>2, <1>3, <1>4, <1>9 DEF RequestInv, Ending, request
  <2>4. Telling(r)'
    BY <1>2, <1>3, <1>4, <1>9 DEF RequestInv, Telling, request, Typing
  <2>5. Counted(r)'
    BY <1>2, <1>4, <1>9 DEF RequestInv, Counted, request
  <2> QED  BY <1>2, <1>4, <2>1, <2>2, <2>3, <2>4, <2>5 DEF RequestInv, request
<1>12. /\ r \in Live' <=> r \in Live
       /\ r \in Again' <=> r \in Again
       /\ r \in Owed => r \in Owed'
  BY <1>2, <1>3, <1>9 DEF Live, Again, Owed, request
<1> QED
  BY <1>2, <1>3, <1>10, <1>11, <1>12, OthersKeep, CounterSame DEF counter

(* One request more, and one less.                                         *)
LEMMA Sizes ==
  ASSUME NEW A \in SUBSET Requests, NEW r \in Requests
  PROVE  /\ r \notin A => Cardinality(A \cup {r}) = Cardinality(A) + 1
         /\ r \in A => Cardinality(A \ {r}) = Cardinality(A) - 1
         /\ Cardinality(A) \in Nat
<1>1. IsFiniteSet(A)
  BY Finite
<1> QED
  BY <1>1, FS_AddElement, FS_RemoveElement, FS_CardinalityType

(* What a request is for the counter depends on nothing of the others.     *)
LEMMA OthersCount ==
  ASSUME Typing, Typing', NEW r \in Requests, Others(r)
  PROVE  /\ Live' \ {r} = Live \ {r} /\ Again' \ {r} = Again \ {r}
         /\ Owed' \ {r} = Owed \ {r}
         /\ Live \in SUBSET Requests /\ Again \in SUBSET Requests
         /\ Owed \in SUBSET Requests /\ active \in Int
         /\ Live' \in SUBSET Requests /\ Again' \in SUBSET Requests
         /\ Owed' \in SUBSET Requests /\ active' \in Int
<1>1. /\ Live \in SUBSET Requests /\ Owed \in SUBSET Requests
      /\ Again \in SUBSET Requests /\ active \in Int
      /\ Live' \in SUBSET Requests /\ Owed' \in SUBSET Requests
      /\ Again' \in SUBSET Requests /\ active' \in Int
  BY Sets DEF Typing, Live, Owed, Again
<1>2. ASSUME NEW q \in Requests \ {r}
      PROVE  /\ q \in Live' <=> q \in Live
             /\ q \in Again' <=> q \in Again
             /\ q \in Owed' <=> q \in Owed
  BY DEF Others, AsWere, Live, Owed, Again
<1> QED
  BY <1>1, <1>2

(* A request is counted.                                                   *)
LEMMA CounterUp ==
  ASSUME Typing, Typing', CounterInv, NEW r \in Requests, Others(r),
         active' = active + 1, thrown' = thrown,
         r \notin Live, r \in Live', r \in Again' <=> r \in Again,
         r \notin Owed, r \in Owed'
  PROVE  CounterInv'
<1>0. /\ Live' \ {r} = Live \ {r} /\ Again' \ {r} = Again \ {r}
      /\ Owed' \ {r} = Owed \ {r}
      /\ Live \in SUBSET Requests /\ Again \in SUBSET Requests
      /\ Owed \in SUBSET Requests /\ active \in Int
  BY OthersCount
<1>1. /\ Live' = Live \cup {r} /\ Again' = Again /\ Owed' = Owed \cup {r}
      /\ Live \in SUBSET Requests /\ Again \in SUBSET Requests
      /\ Owed \in SUBSET Requests /\ active \in Int
  BY <1>0
<1>2. /\ Cardinality(Live') = Cardinality(Live) + 1
      /\ Cardinality(Owed') = Cardinality(Owed) + 1
      /\ Cardinality(Live) \in Nat /\ Cardinality(Owed) \in Nat
      /\ Cardinality(Again) \in Nat
  BY <1>1, Sizes
<1> QED
  BY <1>1, <1>2 DEF CounterInv

(* It is given back; it may have been given back before.                   *)
LEMMA CounterDown ==
  ASSUME Typing, Typing', CounterInv, NEW r \in Requests, Others(r),
         active' = active - 1, thrown' = thrown,
         r \in Live, r \notin Live', r \in Again' <=> r \in Again
  PROVE  CounterInv'
<1>1. /\ Live' \ {r} = Live \ {r} /\ Again' \ {r} = Again \ {r}
      /\ Owed' \ {r} = Owed \ {r}
      /\ Live \in SUBSET Requests /\ Again \in SUBSET Requests
      /\ Owed \in SUBSET Requests /\ active \in Int
      /\ Owed' \in SUBSET Requests
  BY OthersCount
<1>2. Live' = Live \ {r} /\ Again' = Again
  BY <1>1
<1>3. /\ Cardinality(Live') = Cardinality(Live) - 1
      /\ Cardinality(Live) \in Nat /\ Cardinality(Again) \in Nat
  BY <1>1, <1>2, Sizes
<1>4. Cardinality(Owed') >= Cardinality(Owed) - 1
      /\ Cardinality(Owed) \in Nat /\ Cardinality(Owed') \in Nat
  <2>1. PICK o : o = Owed'
    OBVIOUS
  <2>2. /\ o \in SUBSET Requests /\ Cardinality(o) \in Nat
        /\ Cardinality(Owed) \in Nat
    BY <1>1, <2>1, Sizes
  <2>3. Cardinality(Owed \ {r}) >= Cardinality(Owed) - 1
    <3>1. CASE r \in Owed
      BY <1>1, <2>2, <3>1, Sizes
    <3>2. CASE r \notin Owed
      <4>1. PICK p : p = Owed \ {r}
        OBVIOUS
      <4>2. p = Owed
        BY <3>2, <4>1
      <4>3. Cardinality(p) >= Cardinality(Owed) - 1
        BY <2>2, <4>2
      <4> QED  BY <4>1, <4>3
    <3> QED  BY <3>1, <3>2
  <2>4. Owed \ {r} \subseteq o
    BY <1>1, <2>1
  <2>5. Cardinality(Owed \ {r}) <= Cardinality(o)
        /\ Cardinality(Owed \ {r}) \in Nat
    <3>1. Owed \ {r} \in SUBSET Requests
      BY <1>1
    <3> QED  BY <2>2, <2>4, <3>1, Finite
  <2> QED  BY <2>1, <2>2, <2>3, <2>5
<1>5. active' <= Cardinality(Owed')
  BY <1>1, <1>4 DEF CounterInv
<1> QED
  BY <1>1, <1>2, <1>3, <1>5 DEF CounterInv

(* It is sent, or fails to be, after it was done: it will be given back    *)
(* once more.                                                              *)
LEMMA CounterAgain ==
  ASSUME Typing, Typing', CounterInv, NEW r \in Requests, Others(r),
         active' = active, thrown' = thrown,
         r \notin Live, r \in Live', r \notin Again, r \in Again',
         r \notin Owed
  PROVE  CounterInv'
<1>1. /\ Live' \ {r} = Live \ {r} /\ Again' \ {r} = Again \ {r}
      /\ Owed' \ {r} = Owed \ {r}
      /\ Live \in SUBSET Requests /\ Again \in SUBSET Requests
      /\ Owed \in SUBSET Requests /\ active \in Int
      /\ Owed' \in SUBSET Requests
  BY OthersCount
<1>2. /\ Live' = Live \cup {r} /\ Again' = Again \cup {r}
      /\ Owed \subseteq Owed'
  BY <1>1
<1>3. /\ Cardinality(Live') = Cardinality(Live) + 1
      /\ Cardinality(Live) \in Nat
  BY <1>1, <1>2, Sizes
<1>4. /\ Cardinality(Again') = Cardinality(Again) + 1
      /\ Cardinality(Again) \in Nat
  BY <1>1, <1>2, Sizes
<1>5. /\ Cardinality(Owed) <= Cardinality(Owed')
      /\ Cardinality(Owed) \in Nat /\ Cardinality(Owed') \in Nat
  BY <1>1, <1>2, Finite
<1>6. active' <= Cardinality(Owed')
  BY <1>1, <1>5 DEF CounterInv
<1> QED
  BY <1>1, <1>3, <1>4, <1>6 DEF CounterInv

(* The last step of a request that is done.                                *)
LEMMA CountDownKeeps ==
  IInv /\ CounterInv /\ CountDown => IInv' /\ CounterInv'
<1> SUFFICES ASSUME IInv, CounterInv, CountDown PROVE IInv' /\ CounterInv'
  OBVIOUS
<1>1. PICK r : r = Top.r
  OBVIOUS
<1>2. /\ calls # <<>> /\ Top.runs = "done" /\ Top.at = "count"
      /\ Shape(calls) /\ Typing
      /\ UNCHANGED <<request, answer, starts, reopened, thrown>>
  BY <1>1 DEF CountDown, At, IInv
<1>3. /\ r \in Requests /\ End(calls, r) = {"count"}
      /\ Leads(Below, r, Stage(calls, r), {})
  BY <1>1, <1>2, LeadsBelow
<1>4. RequestInv(r) /\ options[r] # Off
  BY <1>1, <1>2, <1>3, TopIsMade DEF IInv
<1>5. PICK a : a = IF r \in fireGlobals /\ active = 1
                   THEN <<Body("ajaxStop", r)>> ELSE <<>>
  OBVIOUS
<1>6. /\ calls' = a \o Below
      /\ r \in fireGlobals => active' = active - 1
      /\ r \notin fireGlobals => active' = active
      /\ active' \in Int /\ stops' \in Int
  <2>1. Below \in Seq(Frame)
    BY <1>3 DEF Leads, Shape
  <2>2. <<>> \o Below = Below
    BY <2>1
  <2>3. active \in Int /\ stops \in Int
    BY <1>2 DEF Typing
  <2>4. CASE r \in fireGlobals
    BY <1>1, <1>5, <2>3, <2>4 DEF CountDown
  <2>5. CASE r \notin fireGlobals
    BY <1>1, <1>5, <2>2, <2>3, <2>5 DEF CountDown
  <2> QED  BY <2>4, <2>5
<1>7. Leads(calls', r, Stage(calls, r), {})
  <2>1. a = <<>> \/ a = <<Body("ajaxStop", r)>>
    BY <1>5
  <2> QED  BY <1>3, <1>6, <2>1, LeadsMaybe DEF Quietly
<1>8. Typing' /\ Shape(calls)' /\ Others(r)
  <2>1. Typing'
    BY <1>2, <1>6 DEF Typing, request, answer
  <2> QED  BY <1>2, <1>7, <2>1 DEF Leads, Others, AsWere, request, answer
<1>9. /\ Stage(calls', r) = Stage(calls, r) /\ End(calls', r) = {}
      /\ state[r] = 2
  BY <1>3, <1>4, <1>7 DEF Leads, RequestInv, Ending
<1>10. RequestInv(r)'
  <2>1. Sent(r)'
    BY <1>2, <1>4 DEF RequestInv, Sent, request
  <2>2. Coming(r)'
    BY <1>2, <1>4, <1>9 DEF RequestInv, Coming, request
  <2>3. Ending(r)'
    BY <1>2, <1>3, <1>4, <1>9 DEF RequestInv, Ending, request, answer
  <2>4. Telling(r)'
    BY <1>2, <1>4 DEF RequestInv, Telling, request, answer
  <2>5. Counted(r)'
    BY <1>2, <1>4, <1>9 DEF RequestInv, Counted, request
  <2> QED  BY <1>2, <1>4, <2>1, <2>2, <2>3, <2>4, <2>5 DEF RequestInv, request
<1>11. CASE r \in fireGlobals
  <2>1. r \in Live /\ r \notin Live' /\ (r \in Again' <=> r \in Again)
    BY <1>2, <1>3, <1>9, <1>11 DEF Live, Again, request
  <2> QED
    BY <1>2, <1>3, <1>6, <1>8, <1>10, <1>11, <2>1, OthersKeep, CounterDown
<1>12. CASE r \notin fireGlobals
  <2>1. /\ r \in Live' <=> r \in Live
        /\ r \in Again' <=> r \in Again
        /\ r \in Owed => r \in Owed'
    BY <1>2, <1>12 DEF Live, Again, Owed, request
  <2> QED
    BY <1>2, <1>3, <1>6, <1>8, <1>10, <1>12, <2>1, OthersKeep, CounterSame
<1> QED
  BY <1>11, <1>12

(* The first step of a request that is made.                               *)
LEMMA CountUpKeeps ==
  IInv /\ CounterInv /\ CountUp => IInv' /\ CounterInv'
<1> SUFFICES ASSUME IInv, CounterInv, CountUp PROVE IInv' /\ CounterInv'
  OBVIOUS
<1>1. PICK r : r = Top.r
  OBVIOUS
<1>2. /\ calls # <<>> /\ Top.runs = "ajax" /\ Top.at = "filtered"
      /\ Shape(calls) /\ Typing
      /\ UNCHANGED <<options, state, transport, xhr, timers, installed, answer,
                     stops, reopened, thrown>>
  BY <1>1 DEF CountUp, At, IInv
<1>3. /\ r \in Requests /\ Stage(calls, r) = {"filtered"}
      /\ End(calls, r) = {} /\ Leads(Below, r, {}, {})
  BY <1>1, <1>2, LeadsBelow
<1>4. RequestInv(r) /\ options[r] # Off
  BY <1>1, <1>2, <1>3, TopIsMade DEF IInv
<1>5. PICK counts \in BOOLEAN : counts <=> state[r] # 2 /\ options[r].global
  OBVIOUS
<1>6. PICK next \in {"beforeSend", "install"} :
        next = IF options[r].beforeSend THEN "beforeSend" ELSE "install"
  OBVIOUS
<1>7. PICK a : a = IF counts /\ active = 0 THEN <<Body("ajaxStart", r)>>
                   ELSE <<>>
  OBVIOUS
<1>8. /\ fireGlobals' = IF counts THEN fireGlobals \cup {r} ELSE fireGlobals
      /\ active' = IF counts THEN active + 1 ELSE active
      /\ starts' = IF counts /\ active = 0 THEN starts + 1 ELSE starts
      /\ calls' = IF state[r] = 2 THEN <<>> \o Below
                  ELSE a \o <<Making(r, next)>> \o Below
  BY <1>1, <1>5, <1>6, <1>7 DEF CountUp
<1>9. Leads(calls', r, IF state[r] = 2 THEN {} ELSE {next}, {})
  <2>0. Below \in Seq(Frame)
    BY <1>3 DEF Leads, Shape
  <2>1. CASE state[r] = 2
    <3>1. calls' = Below
      BY <1>8, <2>0, <2>1
    <3> QED  BY <1>3, <2>1, <3>1
  <2>2. CASE state[r] # 2
    <3>1. PICK s : s = <<Making(r, next)>> \o Below
      OBVIOUS
    <3>2. next \in Stages
      BY DEF Stages
    <3>3. Leads(s, r, {next}, {}) /\ <<Making(r, next)>> \in Seq(Frame)
      BY <1>3, <3>1, <3>2, LeadsMaking, Frames
    <3>4. a = <<>> \/ a = <<Body("ajaxStart", r)>>
      BY <1>7
    <3>5. Leads(a \o s, r, {next}, {}) /\ a \in Seq(Frame)
      BY <1>3, <3>3, <3>4, LeadsMaybe DEF Quietly
    <3>6. a \o <<Making(r, next)>> \o Below = a \o s
      BY <2>0, <3>1, <3>3, <3>5, Concats
    <3> QED  BY <1>8, <2>2, <3>5, <3>6
  <2> QED  BY <2>1, <2>2
<1>10. /\ Stage(calls', r) = IF state[r] = 2 THEN {} ELSE {next}
       /\ End(calls', r) = {}
       /\ state[r] # 1 /\ r \notin installed /\ r \notin reopened
       /\ r \notin fireGlobals
  BY <1>3, <1>4, <1>9 DEF Leads, RequestInv, Coming, Early
<1>11. Typing' /\ Shape(calls)' /\ Others(r)
  <2>1. /\ active' \in Int /\ starts' \in Int
        /\ fireGlobals' \subseteq Requests
    BY <1>2, <1>3, <1>8 DEF Typing
  <2>2. Typing'
    BY <1>2, <2>1 DEF Typing, answer
  <2>3. \A q \in Requests \ {r} : q \in fireGlobals' <=> q \in fireGlobals
    BY <1>8
  <2> QED  BY <1>2, <1>9, <2>2, <2>3 DEF Leads, Others, AsWere, answer
<1>12. RequestInv(r)'
  <2>1. Sent(r)'
    BY <1>2, <1>4 DEF RequestInv, Sent
  <2>2. Coming(r)'
    BY <1>2, <1>10 DEF Coming, Early
  <2>3. Ending(r)'
    BY <1>2, <1>3, <1>4, <1>10 DEF RequestInv, Ending, answer
  <2>4. Telling(r)'
    BY <1>2, <1>4 DEF RequestInv, Telling, answer
  <2>5. Counted(r)'
    BY <1>2, <1>10 DEF Counted
  <2> QED  BY <1>2, <1>4, <2>1, <2>2, <2>3, <2>4, <2>5 DEF RequestInv
<1>13. CASE counts
  <2>1. r \in fireGlobals' /\ state[r] # 2 /\ active' = active + 1
    BY <1>5, <1>8, <1>13
  <2>2. /\ r \notin Live /\ r \in Live'
        /\ r \in Again' <=> r \in Again
        /\ r \notin Owed /\ r \in Owed'
    BY <1>2, <1>10, <2>1 DEF Live, Again, Owed
  <2> QED  BY <1>2, <1>3, <1>11, <1>12, <2>1, <2>2, OthersKeep, CounterUp
<1>14. CASE ~counts
  <2>1. fireGlobals' = fireGlobals /\ active' = active
    BY <1>8, <1>14
  <2>2. /\ r \in Live' <=> r \in Live
        /\ r \in Again' <=> r \in Again
        /\ r \in Owed => r \in Owed'
    BY <1>10, <2>1 DEF Live, Again, Owed
  <2> QED  BY <1>2, <1>3, <1>11, <1>12, <2>1, <2>2, OthersKeep, CounterSame
<1> QED
  BY <1>13, <1>14

(* The callbacks are installed, and called for what has been.              *)
LEMMA InstallKeeps ==
  IInv /\ CounterInv /\ Install => IInv' /\ CounterInv'
<1> SUFFICES ASSUME IInv, CounterInv, Install PROVE IInv' /\ CounterInv'
  OBVIOUS
<1>1. PICK r : r = Top.r
  OBVIOUS
<1>2. /\ calls # <<>> /\ Top.runs = "ajax" /\ Top.at = "install"
      /\ Shape(calls) /\ Typing
      /\ installed' = installed \cup {r}
      /\ UNCHANGED <<options, state, transport, xhr, timers, fireGlobals,
                     deferred, completed, statusText, counter, reopened, thrown>>
  BY <1>1 DEF Install, At, IInv
<1>3. /\ r \in Requests /\ Stage(calls, r) = {"install"}
      /\ End(calls, r) = {} /\ Leads(Below, r, {}, {})
  BY <1>1, <1>2, LeadsBelow
<1>4. RequestInv(r) /\ options[r] # Off
  BY <1>1, <1>2, <1>3, TopIsMade DEF IInv
<1>5. PICK failed \in BOOLEAN : failed <=> deferred[r] = "reject"
  OBVIOUS
<1>6. PICK over \in BOOLEAN : over <=> completed[r]
  OBVIOUS
<1>7. PICK a : a = IF failed THEN <<Body("error", r)>> ELSE <<>>
  OBVIOUS
<1>8. PICK b : b = IF over THEN <<Body("complete", r)>> ELSE <<>>
  OBVIOUS
<1>9. /\ told' = [told EXCEPT ![r].error = IF failed THEN @ + 1 ELSE @,
                              ![r].complete = IF over THEN @ + 1 ELSE @]
      /\ calls' = a \o b \o <<Making(r, "transport")>> \o Below
  BY <1>1, <1>5, <1>6, <1>7, <1>8 DEF Install
<1>10. Leads(calls', r, {"transport"}, {})
  <2>1. PICK s : s = <<Making(r, "transport")>> \o Below
    OBVIOUS
  <2>2. /\ Leads(s, r, {"transport"}, {}) /\ s \in Seq(Frame)
        /\ <<Making(r, "transport")>> \in Seq(Frame) /\ Below \in Seq(Frame)
    <3>1. "transport" \in Stages
      BY DEF Stages
    <3>2. Below \in Seq(Frame)
      BY <1>3 DEF Leads, Shape
    <3>3. Leads(s, r, {"transport"}, {})
      BY <1>3, <2>1, <3>1, LeadsMaking
    <3>4. s \in Seq(Frame)
      BY <3>3 DEF Leads, Shape
    <3> QED  BY <1>3, <3>1, <3>2, <3>3, <3>4, Frames
  <2>3. b = <<>> \/ b = <<Body("complete", r)>>
    BY <1>8
  <2>4. Leads(b \o s, r, {"transport"}, {}) /\ b \in Seq(Frame)
    BY <1>3, <2>2, <2>3, LeadsMaybe DEF Quietly
  <2>5. a = <<>> \/ a = <<Body("error", r)>>
    BY <1>7
  <2>6. Leads(a \o (b \o s), r, {"transport"}, {}) /\ a \in Seq(Frame)
    BY <1>3, <2>4, <2>5, LeadsMaybe DEF Quietly
  <2>7. a \o b \o <<Making(r, "transport")>> \o Below = a \o (b \o s)
    <3>1. <<Making(r, "transport")>> \in Seq(Frame) /\ Below \in Seq(Frame)
      BY <2>2
    <3>2. Regroup(a, b, <<Making(r, "transport")>>, Below)
      BY <3>1, <2>4, <2>6, MoreConcats
    <3> QED  BY <3>2, <2>1, Zenon DEF Regroup
  <2> QED  BY <1>9, <2>6, <2>7
<1>11. /\ Stage(calls', r) = {"transport"} /\ End(calls', r) = {}
       /\ state[r] # 1 /\ r \notin installed /\ r \notin reopened
  BY <1>3, <1>4, <1>10 DEF Leads, RequestInv, Coming, Early
<1>12. /\ told' \in [Requests -> [success : Int, error : Int, complete : Int]]
       /\ \A q \in Requests \ {r} : told'[q] = told[q]
       /\ told'[r].success = told[r].success
       /\ told'[r].error = told[r].error + IF failed THEN 1 ELSE 0
       /\ told'[r].complete = told[r].complete + IF over THEN 1 ELSE 0
  <2>1. told \in [Requests -> [success : Int, error : Int, complete : Int]]
    BY <1>2 DEF Typing
  <2>2. told' = [told EXCEPT ![r] =
                   [success |-> told[r].success,
                    error |-> told[r].error + IF failed THEN 1 ELSE 0,
                    complete |-> told[r].complete + IF over THEN 1 ELSE 0]]
    <3>1. told[r] \in [success : Int, error : Int, complete : Int]
      BY <1>3, <2>1
    <3>2. CASE failed /\ over
      <4>1. told' = [told EXCEPT ![r].error = @ + 1, ![r].complete = @ + 1]
        BY <1>9, <3>2
      <4> QED  BY <1>3, <2>1, <3>1, <3>2, <4>1
    <3>3. CASE failed /\ ~over
      <4>1. told' = [told EXCEPT ![r].error = @ + 1, ![r].complete = @]
        BY <1>9, <3>3
      <4>2. told' = [told EXCEPT ![r] =
                       [success |-> told[r].success, error |-> told[r].error + 1,
                        complete |-> told[r].complete]]
        <5>1. PICK t : t = Tell(r, "error")
          OBVIOUS
        <5>2. t[r] = [success |-> told[r].success,
                      error |-> told[r].error + 1, complete |-> told[r].complete]
              /\ \A q \in Requests \ {r} : t[q] = told[q]
          BY <1>2, <1>3, <5>1, TellFacts
        <5>3. t \in [Requests ->
                      [success : Int, error : Int, complete : Int]]
          BY <1>2, <1>3, <5>1, TellFacts
        <5>4. told' = [t EXCEPT ![r].complete = @]
          BY <4>1, <5>1 DEF Tell
        <5>5. told' = t
          BY <1>3, <5>3, <5>4
        <5> QED  BY <1>3, <2>1, <5>2, <5>3, <5>5
      <4>3. told[r].error \in Int /\ told[r].complete \in Int
        BY <3>1
      <4>4. /\ told[r].complete + (IF over THEN 1 ELSE 0) = told[r].complete
            /\ told[r].error + (IF failed THEN 1 ELSE 0) = told[r].error + 1
        BY <3>3, <4>3
      <4> QED  BY <4>2, <4>4
    <3>4. CASE ~failed /\ over
      <4>1. told' = [told EXCEPT ![r].error = @, ![r].complete = @ + 1]
        BY <1>9, <3>4
      <4> QED  BY <1>3, <2>1, <3>1, <3>4, <4>1
    <3>5. CASE ~failed /\ ~over
      <4>1. told' = [told EXCEPT ![r].error = @, ![r].complete = @]
        BY <1>9, <3>5
      <4>2. told' = [told EXCEPT ![r] =
                       [success |-> told[r].success, error |-> told[r].error,
                        complete |-> told[r].complete]]
        BY <1>3, <2>1, <3>1, <4>1
      <4>3. told[r].error \in Int /\ told[r].complete \in Int
        BY <3>1
      <4>4. /\ told[r].complete + (IF over THEN 1 ELSE 0) = told[r].complete
            /\ told[r].error + (IF failed THEN 1 ELSE 0) = told[r].error
        BY <3>5, <4>3
      <4> QED  BY <4>2, <4>4
    <3> QED  BY <3>2, <3>3, <3>4, <3>5
  <2> QED  BY <1>3, <2>1, <2>2
<1>13. Typing' /\ Shape(calls)' /\ Others(r)
  <2>1. Typing'
    BY <1>2, <1>3, <1>12 DEF Typing, counter
  <2>2. \A q \in Requests \ {r} : q \in installed' <=> q \in installed
    BY <1>2
  <2> QED  BY <1>2, <1>10, <1>12, <2>1, <2>2 DEF Leads, Others, AsWere, counter
<1>14. RequestInv(r)'
  <2>1. Sent(r)'
    BY <1>2, <1>4, <1>11 DEF RequestInv, Sent
  <2>2. Coming(r)'
    BY <1>2, <1>11 DEF Coming, Early
  <2>3. Ending(r)'
    BY <1>2, <1>3, <1>4, <1>11 DEF RequestInv, Ending
  <2>4. Telling(r)'
    BY <1>2, <1>4, <1>5, <1>6, <1>11, <1>12 DEF RequestInv, Telling, Ending
  <2>5. Counted(r)'
    BY <1>11 DEF Counted
  <2> QED  BY <1>2, <1>4, <2>1, <2>2, <2>3, <2>4, <2>5 DEF RequestInv
<1>15. /\ r \in Live' <=> r \in Live
       /\ r \in Again' <=> r \in Again
       /\ r \in Owed => r \in Owed'
  BY <1>2, <1>3, <1>11 DEF Live, Again, Owed
<1> QED
  BY <1>2, <1>3, <1>13, <1>14, <1>15, OthersKeep, CounterSame DEF counter

(* The request has found its transport.                                    *)
LEMMA GetTransportKeeps ==
  IInv /\ CounterInv /\ GetTransport => IInv' /\ CounterInv'
<1> SUFFICES ASSUME IInv, CounterInv, GetTransport PROVE IInv' /\ CounterInv'
  OBVIOUS
<1>1. PICK r : r = Top.r
  OBVIOUS
<1>2. /\ calls # <<>> /\ Top.runs = "ajax" /\ Top.at = "transport"
      /\ Shape(calls) /\ Typing
      /\ transport' = [transport EXCEPT ![r] = TRUE]
      /\ UNCHANGED <<options, state, xhr, timers, fireGlobals, installed,
                     answer, counter, reopened, thrown>>
  BY <1>1 DEF GetTransport, At, IInv
<1>3. /\ r \in Requests /\ Stage(calls, r) = {"transport"}
      /\ End(calls, r) = {} /\ Leads(Below, r, {}, {})
  BY <1>1, <1>2, LeadsBelow
<1>4. RequestInv(r) /\ options[r] # Off
  BY <1>1, <1>2, <1>3, TopIsMade DEF IInv
<1>5. PICK a : a = GlobalEvent(r, "ajaxSend")
  OBVIOUS
<1>6. calls' = a \o <<Making(r, "send")>> \o Below
  BY <1>1, <1>5 DEF GetTransport
<1>7. Leads(calls', r, {"send"}, {})
  <2>1. PICK s : s = <<Making(r, "send")>> \o Below
    OBVIOUS
  <2>2. "send" \in Stages
    BY DEF Stages
  <2>3. Below \in Seq(Frame)
    BY <1>3 DEF Leads, Shape
  <2>4. Leads(s, r, {"send"}, {}) /\ <<Making(r, "send")>> \in Seq(Frame)
    BY <1>3, <2>1, <2>2, LeadsMaking, Frames
  <2>5. a = <<>> \/ a = <<Body("ajaxSend", r)>>
    BY <1>5 DEF GlobalEvent
  <2>6. Leads(a \o s, r, {"send"}, {}) /\ a \in Seq(Frame)
    BY <1>3, <2>4, <2>5, LeadsMaybe DEF Quietly
  <2>7. a \o <<Making(r, "send")>> \o Below = a \o s
    BY <2>1, <2>3, <2>4, <2>6, Concats
  <2> QED  BY <1>6, <2>6, <2>7
<1>8. /\ Stage(calls', r) = {"send"} /\ End(calls', r) = {}
      /\ state[r] # 1 /\ r \in installed /\ r \notin reopened
  BY <1>3, <1>4, <1>7 DEF Leads, RequestInv, Coming
<1>9. /\ transport' \in [Requests -> BOOLEAN]
      /\ \A q \in Requests \ {r} : transport'[q] = transport[q]
  BY <1>2, <1>3 DEF Typing
<1>10. Typing' /\ Shape(calls)' /\ Others(r)
  <2>1. Typing'
    BY <1>2, <1>9 DEF Typing, answer, counter
  <2> QED  BY <1>2, <1>7, <1>9, <2>1 DEF Leads, Others, AsWere, answer, counter
<1>11. RequestInv(r)'
  <2>1. Sent(r)'
    BY <1>2, <1>4, <1>8 DEF RequestInv, Sent
  <2>2. Coming(r)'
    BY <1>2, <1>8 DEF Coming, Early
  <2>3. Ending(r)'
    BY <1>2, <1>3, <1>4, <1>8 DEF RequestInv, Ending, answer
  <2>4. Telling(r)'
    BY <1>2, <1>4 DEF RequestInv, Telling, answer
  <2>5. Counted(r)'
    BY <1>8 DEF Counted
  <2> QED  BY <1>2, <1>4, <2>1, <2>2, <2>3, <2>4, <2>5 DEF RequestInv
<1>12. /\ r \in Live' <=> r \in Live
       /\ r \in Again' <=> r \in Again
       /\ r \in Owed => r \in Owed'
  BY <1>2, <1>3, <1>8 DEF Live, Again, Owed
<1> QED
  BY <1>2, <1>3, <1>10, <1>11, <1>12, OthersKeep, CounterSame DEF counter

(* The request is sent, whatever its state was: nothing of its end is left *)
(* on the stack, because it would be above its making.                     *)
LEMMA SendKeeps ==
  IInv /\ CounterInv /\ Send => IInv' /\ CounterInv'
<1> SUFFICES ASSUME IInv, CounterInv, Send PROVE IInv' /\ CounterInv'
  OBVIOUS
<1>1. PICK r : r = Top.r
  OBVIOUS
<1>2. /\ calls # <<>> /\ Top.runs = "ajax" /\ Top.at = "send"
      /\ Shape(calls) /\ Typing /\ transport[r]
      /\ state' = [state EXCEPT ![r] = 1]
      /\ reopened' = IF state[r] = 2 THEN reopened \cup {r} ELSE reopened
      /\ timers' = IF options[r].async /\ options[r].timeout
                   THEN timers \cup {r} ELSE timers
      /\ xhr' = [xhr EXCEPT ![r] = "open"]
      /\ UNCHANGED <<options, transport, fireGlobals, installed, answer,
                     counter, thrown>>
  BY <1>1 DEF Send, Open, At, IInv
<1>3. /\ r \in Requests /\ Stage(calls, r) = {"send"}
      /\ End(calls, r) = {} /\ Leads(Below, r, {}, {})
  BY <1>1, <1>2, LeadsBelow
<1>4. RequestInv(r) /\ options[r] # Off
  BY <1>1, <1>2, <1>3, TopIsMade DEF IInv
<1>5. PICK m \in {{}, {"wait"}} :
        m = IF options[r].async THEN {} ELSE {"wait"}
  OBVIOUS
<1>6. Leads(calls', r, m, {})
  <2>1. calls' = (IF options[r].async THEN <<>> ELSE <<Making(r, "wait")>>)
                 \o Below
    BY <1>1 DEF Send
  <2>2. CASE options[r].async
    <3>1. Below \in Seq(Frame)
      BY <1>3 DEF Leads, Shape
    <3>2. calls' = Below
      BY <2>1, <2>2, <3>1
    <3> QED  BY <1>3, <1>5, <2>2, <3>2
  <2>3. CASE ~options[r].async
    <3>1. calls' = <<Making(r, "wait")>> \o Below
      BY <2>1, <2>3
    <3>2. "wait" \in Stages
      BY DEF Stages
    <3> QED  BY <1>3, <1>5, <2>3, <3>1, <3>2, LeadsMaking
  <2> QED  BY <2>2, <2>3
<1>7. /\ state' \in [Requests -> 0 .. 2] /\ state'[r] = 1
      /\ xhr' \in [Requests -> {"none", "open", "closed"}] /\ xhr'[r] = "open"
      /\ \A q \in Requests \ {r} : /\ state'[q] = state[q] /\ xhr'[q] = xhr[q]
                                   /\ q \in timers' <=> q \in timers
                                   /\ q \in reopened' <=> q \in reopened
      /\ reopened' \subseteq Requests /\ timers' \subseteq Requests
  BY <1>2, <1>3 DEF Typing
<1>8. /\ Stage(calls', r) = m /\ End(calls', r) = {}
      /\ state[r] # 1 /\ r \in installed /\ r \notin reopened
  BY <1>3, <1>4, <1>6 DEF Leads, RequestInv, Coming
<1>9. Typing' /\ Shape(calls)' /\ Others(r)
  <2>1. Typing'
    BY <1>2, <1>7 DEF Typing, answer, counter
  <2> QED  BY <1>2, <1>6, <1>7, <2>1 DEF Leads, Others, AsWere, answer, counter
<1>10. RequestInv(r)'
  <2>1. Sent(r)'
    BY <1>2, <1>7, <1>8 DEF Sent
  <2>2. Coming(r)'
    BY <1>2, <1>5, <1>8 DEF Coming, Early
  <2>3. Ending(r)'
    BY <1>2, <1>4, <1>7, <1>8 DEF RequestInv, Ending, answer
  <2>4. Telling(r)'
    BY <1>2, <1>4 DEF RequestInv, Telling, answer
  <2>5. Counted(r)'
    BY <1>7 DEF Counted
  <2> QED  BY <1>2, <1>4, <2>1, <2>2, <2>3, <2>4, <2>5 DEF RequestInv
<1>11. CASE state[r] = 2 /\ r \in fireGlobals
  <2>1. /\ r \notin Live /\ r \in Live' /\ r \notin Again /\ r \in Again'
        /\ r \notin Owed
    BY <1>2, <1>3, <1>7, <1>8, <1>11 DEF Live, Again, Owed
  <2> QED
    BY <1>2, <1>3, <1>9, <1>10, <2>1, OthersKeep, CounterAgain DEF counter
<1>12. CASE ~(state[r] = 2 /\ r \in fireGlobals)
  <2>1. /\ r \in Live' <=> r \in Live
        /\ r \in Again' <=> r \in Again
        /\ r \in Owed => r \in Owed'
    BY <1>2, <1>3, <1>7, <1>8, <1>12 DEF Live, Again, Owed
  <2> QED
    BY <1>2, <1>3, <1>9, <1>10, <2>1, OthersKeep, CounterSame DEF counter
<1> QED
  BY <1>11, <1>12

(* An exception of send() ends the request.                                *)
LEMMA SendThrowsKeeps ==
  IInv /\ CounterInv /\ SendThrows => IInv' /\ CounterInv'
<1> SUFFICES ASSUME IInv, CounterInv, SendThrows PROVE IInv' /\ CounterInv'
  OBVIOUS
<1>1. PICK r : r = Top.r
  OBVIOUS
<1>2. /\ calls # <<>> /\ Top.runs = "ajax" /\ Top.at = "send"
      /\ Shape(calls) /\ Typing
      /\ state' = [state EXCEPT ![r] = 2]
      /\ reopened' = IF state[r] = 2 THEN reopened \cup {r} ELSE reopened
      /\ timers' = timers \ {r}
      /\ transport' = [transport EXCEPT ![r] = FALSE]
      /\ statusText' = [statusText EXCEPT ![r] = "error"]
      /\ calls' = <<Finishing(r, "reject")>> \o Below
      /\ UNCHANGED <<options, xhr, fireGlobals, installed, deferred, completed,
                     told, counter, thrown>>
  BY <1>1 DEF SendThrows, At, IInv
<1>3. /\ r \in Requests /\ Stage(calls, r) = {"send"}
      /\ End(calls, r) = {} /\ Leads(Below, r, {}, {})
  BY <1>1, <1>2, LeadsBelow
<1>4. RequestInv(r) /\ options[r] # Off
  BY <1>1, <1>2, <1>3, TopIsMade DEF IInv
<1>5. Leads(calls', r, {}, {"reject"})
  <2>1. "reject" \in Ends
    BY DEF Ends
  <2> QED  BY <1>2, <1>3, <2>1, LeadsFinishing
<1>6. /\ state' \in [Requests -> 0 .. 2] /\ state'[r] = 2
      /\ transport' \in [Requests -> BOOLEAN]
      /\ statusText' \in [Requests -> {Off, "success", "error",
                        "parsererror", "timeout", "abort", "canceled"}]
      /\ \A q \in Requests \ {r} : /\ state'[q] = state[q]
                                   /\ transport'[q] = transport[q]
                                   /\ q \in timers' <=> q \in timers
                                   /\ q \in reopened' <=> q \in reopened
      /\ reopened' \subseteq Requests /\ timers' \subseteq Requests
      /\ r \notin timers'
  BY <1>2, <1>3 DEF Typing
<1>7. /\ Stage(calls', r) = {} /\ End(calls', r) = {"reject"}
      /\ state[r] # 1 /\ r \in installed /\ r \notin reopened
  BY <1>3, <1>4, <1>5 DEF Leads, RequestInv, Coming
<1>8. Typing' /\ Shape(calls)' /\ Others(r)
  <2>1. Typing'
    BY <1>2, <1>6 DEF Typing, counter
  <2> QED  BY <1>2, <1>5, <1>6, <2>1 DEF Leads, Others, AsWere, counter
<1>9. RequestInv(r)'
  <2>1. Sent(r)'
    BY <1>2, <1>4, <1>6, <1>7 DEF RequestInv, Sent
  <2>2. Coming(r)'
    BY <1>7 DEF Coming
  <2>3. Ending(r)'
    BY <1>2, <1>6, <1>7 DEF Ending
  <2>4. Telling(r)'
    BY <1>2, <1>4 DEF RequestInv, Telling
  <2>5. Counted(r)'
    BY <1>6 DEF Counted
  <2> QED  BY <1>2, <1>4, <2>1, <2>2, <2>3, <2>4, <2>5 DEF RequestInv
<1>10. CASE state[r] = 2 /\ r \in fireGlobals
  <2>1. /\ r \notin Live /\ r \in Live' /\ r \notin Again /\ r \in Again'
        /\ r \notin Owed
    BY <1>2, <1>3, <1>7, <1>10 DEF Live, Again, Owed
  <2> QED
    BY <1>2, <1>3, <1>8, <1>9, <2>1, OthersKeep, CounterAgain DEF counter
<1>11. CASE ~(state[r] = 2 /\ r \in fireGlobals)
  <2>1. /\ r \in Live' <=> r \in Live
        /\ r \in Again' <=> r \in Again
        /\ r \in Owed => r \in Owed'
    BY <1>2, <1>3, <1>6, <1>7, <1>11 DEF Live, Again, Owed
  <2> QED
    BY <1>2, <1>3, <1>8, <1>9, <2>1, OthersKeep, CounterSame DEF counter
<1> QED
  BY <1>10, <1>11

(* A request is made.                                                      *)
LEMMA RequestKeeps ==
  ASSUME IInv, CounterInv, NEW r \in Requests, NEW s \in Options, Request(r, s)
  PROVE  IInv' /\ CounterInv'
<1>1. /\ options[r] = Off /\ options' = [options EXCEPT ![r] = s]
      /\ calls' = <<Body("prefilter", r), Making(r, "filtered")>> \o calls
      /\ UNCHANGED <<state, transport, xhr, timers, fireGlobals, installed,
                     answer, counter, reopened, thrown>>
      /\ Shape(calls) /\ Typing
  BY DEF Request, IInv
<1>2. RequestInv(r) /\ Untouched(r)
  BY <1>1 DEF IInv, RequestInv
<1>3. Leads(calls, r, {}, {})
  BY <1>1, <1>2 DEF Leads, Untouched
<1>4. Leads(calls', r, {"filtered"}, {})
  <2>1. PICK t : t = <<Making(r, "filtered")>> \o calls
    OBVIOUS
  <2>2. "filtered" \in Stages /\ "prefilter" \in Quietly
    BY DEF Stages, Quietly
  <2>3. Leads(t, r, {"filtered"}, {})
    BY <1>3, <2>1, <2>2, LeadsMaking
  <2>4. Leads(<<Body("prefilter", r)>> \o t, r, {"filtered"}, {})
    BY <2>2, <2>3, LeadsMaybe
  <2>5. /\ Making(r, "filtered") \in Frame /\ Body("prefilter", r) \in Frame
        /\ calls \in Seq(Frame)
    BY <1>1, <2>2, Frames DEF Shape
  <2>6. calls' = <<Body("prefilter", r)>> \o t
    BY <1>1, <2>1, <2>5
  <2> QED  BY <2>4, <2>6
<1>5. /\ Stage(calls', r) = {"filtered"} /\ End(calls', r) = {}
      /\ options'[r] # Off
      /\ options' \in [Requests -> Options \cup {Off}]
      /\ \A q \in Requests \ {r} : options'[q] = options[q]
  BY <1>1, <1>4, AjaxAssumption DEF Leads, Typing, AjaxAssumption
<1>6. Typing' /\ Shape(calls)' /\ Others(r)
  <2>1. Typing'
    BY <1>1, <1>5 DEF Typing, answer, counter
  <2> QED  BY <1>1, <1>4, <1>5, <2>1 DEF Leads, Others, AsWere, answer, counter
<1>7. RequestInv(r)'
  <2>0. /\ state'[r] = 0 /\ r \notin reopened' /\ r \notin installed'
        /\ r \notin fireGlobals' /\ deferred'[r] = "no"
    BY <1>1, <1>2 DEF Untouched, answer
  <2>1. Sent(r)'
    BY <1>1, <1>2 DEF RequestInv, Sent
  <2>2. Coming(r)'
    BY <1>5, <2>0 DEF Coming, Early
  <2>3. Ending(r)'
    BY <1>5, <2>0 DEF Ending
  <2>4. Telling(r)'
    BY <1>1, <1>2 DEF RequestInv, Telling, answer
  <2>5. Counted(r)'
    BY <1>5 DEF Counted
  <2> QED  BY <1>5, <2>1, <2>2, <2>3, <2>4, <2>5 DEF RequestInv
<1>8. /\ r \in Live' <=> r \in Live
      /\ r \in Again' <=> r \in Again
      /\ r \in Owed => r \in Owed'
  BY <1>1, <1>2 DEF Live, Again, Owed, Untouched
<1> QED
  BY <1>1, <1>6, <1>7, <1>8, OthersKeep, CounterSame DEF counter

(* An exception of the page empties the stack.                             *)
LEMMA ThrowKeeps ==
  IInv /\ CounterInv /\ Throw => IInv' /\ CounterInv'
<1> SUFFICES ASSUME IInv, CounterInv, Throw PROVE IInv' /\ CounterInv'
  OBVIOUS
<1>1. /\ calls' = <<>> /\ thrown' = TRUE
      /\ UNCHANGED <<request, answer, counter, reopened>>
      /\ Typing
  BY DEF Throw, IInv
<1>2. Shape(calls') /\ \A q : Stage(calls', q) = {} /\ End(calls', q) = {}
  BY <1>1 DEF Shape, Stage, End, Of
<1>3. Typing'
  BY <1>1 DEF Typing, request, answer, counter
<1>4. ASSUME NEW q \in Requests
      PROVE  RequestInv(q)'
  <2>1. RequestInv(q)
    BY DEF IInv
  <2>2. (options[q] = Off => Untouched(q))'
    BY <1>1, <1>2, <2>1 DEF RequestInv, Untouched, request, answer
  <2>3. Sent(q)'
    BY <1>1, <2>1 DEF RequestInv, Sent, request
  <2>4. Coming(q)'
    BY <1>2 DEF Coming
  <2>5. Ending(q)'
    BY <1>1, <1>2, <2>1 DEF RequestInv, Ending, request, answer
  <2>6. Telling(q)'
    BY <1>1, <2>1 DEF RequestInv, Telling, request, answer
  <2>7. Counted(q)'
    BY <1>1 DEF Counted
  <2> QED  BY <2>2, <2>3, <2>4, <2>5, <2>6, <2>7 DEF RequestInv
<1>5. Live' \subseteq Live /\ Owed \subseteq Owed' /\ Again' = Again
  BY <1>1, <1>2 DEF Live, Owed, Again, request
<1>6. /\ Live \in SUBSET Requests /\ Again \in SUBSET Requests
      /\ Owed' \in SUBSET Requests
      /\ active \in Int /\ active' = active
  BY <1>1, <1>3, Sets DEF Typing, counter, Owed
<1>7. /\ Cardinality(Live') <= Cardinality(Live)
      /\ Cardinality(Live) \in Nat /\ Cardinality(Again) \in Nat
  BY <1>5, <1>6, Finite
<1>8. Cardinality(Live') \in Nat
  <2>1. Live' \in SUBSET Requests
    BY <1>5, <1>6
  <2> QED  BY <2>1, Finite
<1>9. /\ Cardinality(Owed) <= Cardinality(Owed')
      /\ Cardinality(Owed) \in Nat /\ Cardinality(Owed') \in Nat
  <2>1. Owed \in SUBSET Requests
    BY <1>5, <1>6
  <2> QED  BY <1>5, <1>6, <2>1, Finite
<1>10. active' <= Cardinality(Owed')
  BY <1>6, <1>9 DEF CounterInv
<1>11. CounterInv'
  BY <1>1, <1>5, <1>6, <1>7, <1>8, <1>10 DEF CounterInv
<1> QED
  BY <1>2, <1>3, <1>4, <1>11 DEF IInv

-----------------------------------------------------------------------------
(* What an answer comes to.                                                *)
Texts == {"success", "error", "parsererror"}

(* All steps but those that count.                                         *)
Moves ==
  \/ Settle \/ Complete \/ BeforeSend \/ Allowed \/ Refused \/ Install
  \/ GetTransport \/ NoTransport \/ Send \/ SendThrows
  \/ Return \/ ReturnFalse \/ Throw
  \/ \E text \in Texts : Wait(text)
  \/ \E r \in Requests, text \in Texts : Answer(r, text)
  \/ \E r \in Requests : Timeout(r) \/ UserAbort(r)
  \/ \E r \in Requests, s \in Options : Request(r, s)

(* The prefilter of scripts changes the options to other options.          *)
LEMMA ScriptOptions ==
  ASSUME NEW s \in Options, NEW w
  PROVE  WithScript(s, w) \in Options
<1>1. PICK b \in BOOLEAN :
        b = (s.global /\ ~((w.jsonp \/ Head(w.types) = "script") /\ w.cross))
  OBVIOUS
<1>2. WithScript(s, w) = [s EXCEPT !.global = b]
  BY <1>1 DEF WithScript
<1> QED
  BY <1>2 DEF Options

(* Every step of Jsonp is one of Ajax, or leaves its variables alone.      *)
LEMMA NextIsAStep == Next => CountUp \/ CountDown \/ Moves \/ UNCHANGED vars
<1> SUFFICES ASSUME Next PROVE CountUp \/ CountDown \/ Moves \/ UNCHANGED vars
  OBVIOUS
<1>1. CASE LibraryStep
  <2>1. CASE SettleAndCleanUp
    BY <2>1 DEF SettleAndCleanUp, Moves
  <2>2. CASE /\ \/ Complete \/ CountDown
                \/ CountUp \/ BeforeSend \/ Allowed \/ Refused \/ Install
                \/ FindTransport \/ Sending
             /\ Plainly
    BY <2>2 DEF FindTransport, Sending, Moves
  <2>3. CASE \E ok, parses \in BOOLEAN, contentType \in {"json", "none"} :
               WaitText(ok, contentType, parses)
    BY <2>3 DEF WaitText, Moves, Texts
  <2> QED  BY <1>1, <2>1, <2>2, <2>3 DEF LibraryStep
<1>2. CASE PageStep
  <2>1. CASE \E r \in Requests, m \in Made : Make(r, m[1], m[2])
    <3>1. PICK r \in Requests, m \in Made : Make(r, m[1], m[2])
      BY <2>1
    <3>2. m[1] \in Options
      BY JsonpAssumption, AjaxAssumption DEF JsonpAssumption, AjaxAssumption
    <3>3. WithScript(m[1], m[2]) \in Options
      BY <3>2, ScriptOptions
    <3>4. Request(r, WithScript(m[1], m[2]))
      BY <3>1 DEF Make
    <3> QED  BY <3>3, <3>4 DEF Moves
  <2>2. CASE \E r \in Requests : UserAbort(r)
    BY <2>2 DEF Moves
  <2>3. CASE ReturnFalse \/ Throw
    BY <2>3 DEF Moves
  <2> QED  BY <1>2, <2>1, <2>2, <2>3 DEF PageStep
<1>3. CASE Return_
  BY <1>3 DEF Return_, Moves
<1>4. ASSUME NEW r \in Requests, Late(r)
      PROVE  Moves
  BY <1>4 DEF Late, Moves
<1>5. ASSUME NEW r \in Requests, LateScript(r)
      PROVE  UNCHANGED vars
  BY <1>5 DEF LateScript
<1>6. ASSUME NEW r \in Requests, NEW runs \in BOOLEAN, AnswerScript(r, runs)
      PROVE  Moves
  <2>1. \E text \in Texts : Answer(r, text)
    BY <1>6 DEF AnswerScript, Texts
  <2> QED  BY <2>1 DEF Moves
<1>7. ASSUME NEW r \in Requests, NEW ok \in BOOLEAN, NEW parses \in BOOLEAN,
             NEW contentType \in {"json", "none"},
             AnswerText(r, ok, contentType, parses)
      PROVE  Moves
  BY <1>7 DEF AnswerText, Moves, Texts
<1> QED
  BY <1>1, <1>2, <1>3, <1>4, <1>5, <1>6, <1>7 DEF Next

(* All of them together.                                                   *)
LEMMA MovesKeep == IInv /\ CounterInv /\ Moves => IInv' /\ CounterInv'
BY SettleKeeps, CompleteKeeps, BeforeSendKeeps, AllowedKeeps, RefusedKeeps,
   InstallKeeps, GetTransportKeeps, NoTransportKeeps, SendKeeps,
   SendThrowsKeeps, ReturnKeeps, ReturnFalseKeeps, ThrowKeeps, WaitKeeps,
   AnswerKeeps, TimeoutKeeps, UserAbortKeeps, RequestKeeps DEF Moves, Texts

(* What leaves the variables of Ajax alone keeps the invariant.            *)
LEMMA StutterKeeps ==
  IInv /\ CounterInv /\ UNCHANGED vars => IInv' /\ CounterInv'
<1> SUFFICES ASSUME IInv, CounterInv, UNCHANGED vars PROVE IInv' /\ CounterInv'
  OBVIOUS
<1>1. UNCHANGED <<options, state, transport, xhr, timers, fireGlobals,
                  installed, deferred, completed, statusText, told, active,
                  starts, stops, calls, reopened, thrown>>
  BY DEF vars, request, answer, counter
<1>2. ASSUME NEW q \in Requests PROVE RequestInv(q)'
  <2>1. AsWere(q) /\ RequestInv(q)
    BY <1>1 DEF AsWere, IInv
  <2> QED  BY <1>1, <2>1, SameKeeps
<1>3. Typing' /\ Shape(calls)'
  BY <1>1 DEF IInv, Typing
<1>4. CounterInv'
  BY <1>1 DEF CounterInv, Live, Owed, Again
<1> QED
  BY <1>2, <1>3, <1>4 DEF IInv

(* Only two steps count.                                                   *)
LEMMA OnlyCounting == Moves => UNCHANGED counter
BY DEF Moves, Settle, Complete, BeforeSend, Allowed, Refused, Install,
       GetTransport, NoTransport, Send, SendThrows, Return, ReturnFalse,
       Throw, Wait, Answer, Answered, Timeout, UserAbort, Request

(* The events of the first and of the last request come in turn.           *)
LEMMA StartsKeep ==
  ASSUME Typing, StartsAndStops, [Next]_all
  PROVE  StartsAndStops'
<1>0. active \in Int /\ starts \in Int /\ stops \in Int
  BY DEF Typing
<1>1. CASE CountUp
  <2>1. PICK counts \in BOOLEAN :
          counts <=> state[Top.r] # 2 /\ options[Top.r].global
    OBVIOUS
  <2>2. /\ active' = IF counts THEN active + 1 ELSE active
        /\ starts' = IF counts /\ active = 0 THEN starts + 1 ELSE starts
        /\ stops' = stops
    BY <1>1, <2>1 DEF CountUp
  <2> QED  BY <1>0, <2>2 DEF StartsAndStops
<1>2. CASE CountDown
  <2>1. CASE Top.r \in fireGlobals
    <3>1. /\ active' = active - 1 /\ starts' = starts
          /\ stops' = IF active = 1 THEN stops + 1 ELSE stops
      BY <1>2, <2>1 DEF CountDown
    <3> QED  BY <1>0, <3>1 DEF StartsAndStops
  <2>2. CASE Top.r \notin fireGlobals
    <3>1. active' = active /\ starts' = starts /\ stops' = stops
      BY <1>2, <2>2 DEF CountDown
    <3> QED  BY <3>1 DEF StartsAndStops
  <2> QED  BY <2>1, <2>2
<1>3. CASE Moves \/ UNCHANGED vars
  <2>1. UNCHANGED counter
    BY <1>3, OnlyCounting DEF vars
  <2> QED  BY <2>1 DEF counter, StartsAndStops
<1>4. CASE UNCHANGED all
  BY <1>3, <1>4 DEF all
<1> QED
  BY <1>1, <1>2, <1>3, <1>4, NextIsAStep

(* The whole invariant.                                                    *)
AjaxInv == IInv /\ CounterInv /\ StartsAndStops

(* The invariant holds when the page is loaded.                            *)
LEMMA InitInv == JsonpInit => AjaxInv
<1> SUFFICES ASSUME Init PROVE AjaxInv
  BY DEF JsonpInit
<1>1. Typing
  <2>1. told \in [Requests -> [success : Int, error : Int, complete : Int]]
    BY DEF Init
  <2>2. /\ options \in [Requests -> Options \cup {Off}]
        /\ state \in [Requests -> 0 .. 2]
        /\ transport \in [Requests -> BOOLEAN]
        /\ xhr \in [Requests -> {"none", "open", "closed"}]
    BY DEF Init
  <2>3. /\ deferred \in [Requests -> {"no", "resolve", "reject"}]
        /\ completed \in [Requests -> BOOLEAN]
        /\ statusText \in [Requests -> {Off, "success", "error",
                        "parsererror", "timeout", "abort", "canceled"}]
    BY DEF Init
  <2>4. /\ timers = {} /\ fireGlobals = {} /\ installed = {}
        /\ reopened = {} /\ active = 0 /\ starts = 0 /\ stops = 0
        /\ thrown = FALSE
    BY DEF Init
  <2>5. /\ \A R \in {timers, fireGlobals, installed, reopened} :
              R \subseteq Requests
        /\ active \in Int /\ starts \in Int /\ stops \in Int
        /\ thrown \in BOOLEAN
    <3>1. ASSUME NEW R \in {timers, fireGlobals, installed, reopened}
          PROVE  R \subseteq Requests
      BY <2>4, <3>1
    <3>2. active \in Int /\ starts \in Int /\ stops \in Int
      BY <2>4
    <3>3. thrown \in BOOLEAN
      BY <2>4
    <3> QED  BY <3>1, <3>2, <3>3
  <2> QED  BY <2>1, <2>2, <2>3, <2>5 DEF Typing
<1>2. calls = <<>> /\ fireGlobals = {} /\ active = 0 /\ reopened = {}
  BY DEF Init
<1>3. Shape(calls) /\ \A q : Stage(calls, q) = {} /\ End(calls, q) = {}
  BY <1>2 DEF Shape, Stage, End, Of
<1>4. ASSUME NEW q \in Requests PROVE RequestInv(q)
  BY <1>2, <1>3 DEF Init, RequestInv, Untouched, Sent, Coming, Ending,
                    Telling, Counted
<1>5. Live = {} /\ Owed = {} /\ Again = {}
  BY <1>2 DEF Live, Owed, Again
<1>6. CounterInv
  BY <1>2, <1>5, FS_EmptySet DEF CounterInv
<1>7. StartsAndStops
  BY DEF Init, StartsAndStops
<1> QED
  BY <1>1, <1>3, <1>4, <1>6, <1>7 DEF AjaxInv, IInv

(* It is kept by every step.                                               *)
LEMMA NextInv == AjaxInv /\ [Next]_all => AjaxInv'
<1> SUFFICES ASSUME AjaxInv, [Next]_all PROVE AjaxInv'
  OBVIOUS
<1>1. CountUp \/ CountDown \/ Moves \/ UNCHANGED vars
  BY NextIsAStep DEF all
<1>2. IInv' /\ CounterInv'
  BY <1>1, CountUpKeeps, CountDownKeeps, MovesKeep, StutterKeeps DEF AjaxInv
<1>3. StartsAndStops'
  BY StartsKeep DEF AjaxInv, IInv
<1> QED
  BY <1>2, <1>3 DEF AjaxInv

(* It holds always.                                                        *)
LEMMA Invariance == Spec => []AjaxInv
BY InitInv, NextInv, PTL DEF Spec

(* It implies that each request has one answer.                            *)
LEMMA InvAnswers == AjaxInv => AnswersFit
<1> SUFFICES ASSUME AjaxInv PROVE AnswersFit
  OBVIOUS
<1>1. ASSUME NEW r \in Requests
      PROVE  /\ told[r].success + told[r].error <= 1 /\ told[r].complete <= 1
             /\ Idle /\ state[r] = 2 /\ r \in installed =>
                  /\ told[r].success + told[r].error = 1
                  /\ told[r].complete = 1
  <2>1. Telling(r) /\ Ending(r) /\ deferred[r] \in {"no", "resolve", "reject"}
    BY DEF AjaxInv, IInv, RequestInv, Typing
  <2>2. told[r].success + told[r].error <= 1 /\ told[r].complete <= 1
    BY <2>1 DEF Telling
  <2>3. ASSUME Idle, state[r] = 2, r \in installed
        PROVE  deferred[r] # "no" /\ completed[r]
    <3>1. End(calls, r) = {}
      BY <2>3 DEF Idle, End, Of
    <3> QED  BY <2>1, <2>3, <3>1 DEF Ending, Idle
  <2> QED  BY <2>1, <2>2, <2>3 DEF Telling
<1>2. OneAnswer
  BY <1>1 DEF OneAnswer
<1>3. UnderWay
  BY DEF UnderWay, AjaxInv, IInv, RequestInv, Sent, Typing
<1> QED
  BY <1>2, <1>3 DEF AnswersFit

(* It implies that the counter is right.                                   *)
LEMMA InvCounters == AjaxInv => CountersFit
<1> SUFFICES ASSUME AjaxInv PROVE CountersFit
  OBVIOUS
<1>1. Typing /\ CounterInv /\ StartsAndStops
  BY DEF AjaxInv, IInv
<1>2. /\ Live \in SUBSET Requests /\ Owed \in SUBSET Requests
      /\ Again \in SUBSET Requests /\ active \in Int
      /\ reopened \in SUBSET Requests
  BY <1>1, Sets DEF Typing
<1>3. TypeOK
  <2>1. /\ Cardinality(Live) \in Nat /\ Cardinality(Again) \in Nat
        /\ Cardinality(Owed) \in Nat /\ Cardinality(reopened) \in Nat
        /\ IsFiniteSet(Owed) /\ IsFiniteSet(reopened)
    BY <1>2, Finite
  <2>2. Cardinality(Again) <= Cardinality(reopened)
    BY <1>2, Finite DEF Again
  <2>3. active + Cardinality(reopened) >= 0
    BY <1>1, <1>2, <2>1, <2>2 DEF CounterInv
  <2>4. Cardinality(Owed \cup reopened) =
          Cardinality(Owed) + Cardinality(reopened)
    <3>1. Owed \cap reopened = {}
      BY DEF Owed
    <3>2. Cardinality(Owed \cap reopened) = 0
      BY <3>1, FS_EmptySet
    <3>3. Cardinality(Owed \cup reopened) =
            Cardinality(Owed) + Cardinality(reopened)
              - Cardinality(Owed \cap reopened)
      BY <2>1, FS_Union
    <3> QED  BY <2>1, <3>2, <3>3
  <2>5. Cardinality(Owed \cup reopened) <= MaxRequests
    <3>1. Owed \cup reopened \in SUBSET Requests
      BY <1>2
    <3>2. Requests \in SUBSET Requests
      OBVIOUS
    <3> QED  BY <3>1, <3>2, Finite
  <2>6. active + Cardinality(reopened) <= MaxRequests
    BY <1>1, <1>2, <2>1, <2>4, <2>5, AjaxAssumption
       DEF CounterInv, AjaxAssumption
  <2>7. active + Cardinality(reopened) \in 0 .. MaxRequests
    BY <1>2, <2>1, <2>3, <2>6, AjaxAssumption DEF AjaxAssumption
  <2> QED  BY <1>1, <2>7 DEF Typing, TypeOK
<1>4. ActiveFits
  <2> SUFFICES ASSUME Idle, reopened = {}
               PROVE  active = Cardinality({r \in fireGlobals : state[r] = 1})
    BY DEF ActiveFits
  <2>1. \A q \in Requests : Stage(calls, q) = {} /\ End(calls, q) = {}
    BY DEF Idle, Stage, End, Of
  <2>2. ASSUME NEW q \in fireGlobals
        PROVE  q \in Requests /\ state[q] \in 1 .. 2 /\ End(calls, q) = {}
    <3>1. q \in Requests /\ state[q] \in 0 .. 2
      BY <1>1 DEF Typing
    <3>2. state[q] # 0
      BY <2>1, <3>1 DEF AjaxInv, IInv, RequestInv, Counted, Idle
    <3> QED  BY <2>1, <3>1, <3>2
  <2>3. Live = {r \in fireGlobals : state[r] = 1}
    BY <2>2 DEF Live
  <2>4. Again = {} /\ Cardinality(Again) = 0
    BY FS_EmptySet DEF Again
  <2>5. active + Cardinality(Again) = Cardinality(Live)
    BY <1>1 DEF CounterInv, Idle
  <2> QED  BY <1>2, <2>3, <2>4, <2>5
<1> QED
  BY <1>1, <1>3, <1>4 DEF CountersFit

(* Whatever comes first of the answer, the timeout and abort() settles a   *)
(* request, once, and leaves nothing of it behind, for every number of     *)
(* requests and all options.                                               *)
THEOREM AnswersComeOnce == Spec => []AnswersFit
BY Invariance, InvAnswers, PTL

(* jQuery.active counts the requests that are under way, it is never more  *)
(* than one too small for each request that was sent after it was done,    *)
(* and ajaxStart and ajaxStop come in turn.                                *)
THEOREM CounterIsRight == Spec => []CountersFit
BY Invariance, InvCounters, PTL

-----------------------------------------------------------------------------
(* The request has its name still.                                         *)
Owns(r) == IsJsonp(r) /\ ~Settled(r)

(* The names were made for requests that were made, one each at most; none *)
(* of them is free twice.                                                  *)
NameTypes ==
  /\ nonce \in Nat /\ \A q \in 1 .. nonce : q \in Requests /\ options[q] # Off
  /\ wants = [r \in Requests |-> wants[r]]
  /\ callbackName \in [Requests -> (0 .. nonce) \cup {Off}]
  /\ window \in [Names -> Requests \cup {Off}]
  /\ overwritten \in [Requests -> Requests \cup {Off}]
  /\ oldCallbacks \in Seq(1 .. nonce) /\ IsInjective(oldCallbacks)

(* A request has no name before it is made; the function of a name is that *)
(* of the one request that has it, if it has not to share it, and the name *)
(* was free before.                                                        *)
OwnName(r) ==
  /\ options[r] = Off => callbackName[r] = Off
  /\ IsJsonp(r) => (wants[r].given <=> callbackName[r] = 0)
  /\ Owns(r) /\ (callbackName[r] = 0 => ~shared) =>
       window[callbackName[r]] = r /\ overwritten[r] = Off

(* A name that has a function is that of a request that has it still, and  *)
(* one that is free or was not made yet has none.                          *)
OwnFunction(n) ==
  IF n > nonce \/ Contains(oldCallbacks, n) THEN window[n] = Off
  ELSE /\ n # 0 => window[n] # Off
       /\ window[n] # Off /\ (n = 0 => ~shared) =>
            callbackName[window[n]] = n /\ ~Settled(window[n])

NamesInv ==
  /\ NameTypes
  /\ \A r \in Requests : OwnName(r)
  /\ \A n \in Names : OwnFunction(n)

(* A function was called with the answer to the request that has it.       *)
AnswersInv ==
  /\ container \in [Requests -> Requests \cup {Off}]
  /\ response \in [Requests -> Requests \cup {Off}]
  /\ strayed \/ shared \/
     \A r \in Requests : container[r] \in {Off, r} /\ response[r] \in {Off, r}

-----------------------------------------------------------------------------
(* A free name that is used is no longer free, the others are.             *)
LEMMA LastTaken ==
  ASSUME NEW S, NEW s \in Seq(S), s # <<>>, IsInjective(s)
  PROVE  /\ Last(s) \in S /\ Front(s) \in Seq(S) /\ IsInjective(Front(s))
         /\ Contains(s, Last(s)) /\ ~Contains(Front(s), Last(s))
         /\ \A x : x # Last(s) => (Contains(Front(s), x) <=> Contains(s, x))
<1>1. /\ Len(s) \in Nat \ {0} /\ Last(s) = s[Len(s)] /\ Last(s) \in S
      /\ Front(s) \in Seq(S) /\ Len(Front(s)) = Len(s) - 1
      /\ \A i \in 1 .. Len(s) - 1 : Front(s)[i] = s[i]
      /\ DOMAIN s = 1 .. Len(s) /\ DOMAIN Front(s) = 1 .. Len(s) - 1
  <2>1. Len(s) \in Nat \ {0} /\ DOMAIN s = 1 .. Len(s)
    OBVIOUS
  <2>2. /\ SubSeq(s, 1, Len(s) - 1) \in Seq(S)
        /\ Len(SubSeq(s, 1, Len(s) - 1)) = Len(s) - 1
        /\ \A i \in 1 .. Len(s) - 1 : SubSeq(s, 1, Len(s) - 1)[i] = s[i]
    <3>1. 1 \in 1 .. Len(s) + 1 /\ Len(s) - 1 \in 0 .. Len(s)
      BY <2>1
    <3>2. \A i \in 1 .. Len(s) - 1 : 1 <= i /\ i <= Len(s) /\ i \in Int
      BY <2>1
    <3> QED  BY <2>1, <3>1, <3>2, SubSeqProperties
  <2> QED  BY <2>1, <2>2 DEF Last, Front
<1> QED
  BY <1>1 DEF Contains, IsInjective

(* A name that becomes free is one of those that are.                      *)
LEMMA LastGiven ==
  ASSUME NEW S, NEW s \in Seq(S), IsInjective(s), NEW n \in S, ~Contains(s, n)
  PROVE  /\ Append(s, n) \in Seq(S) /\ IsInjective(Append(s, n))
         /\ \A x : Contains(Append(s, n), x) <=> x = n \/ Contains(s, x)
<1> DEFINE t == Append(s, n)
<1>1. /\ Len(s) \in Nat /\ t \in Seq(S) /\ Len(t) = Len(s) + 1
      /\ \A i \in 1 .. Len(s) : t[i] = s[i]
      /\ t[Len(s) + 1] = n
      /\ DOMAIN s = 1 .. Len(s) /\ DOMAIN t = 1 .. Len(s) + 1
  OBVIOUS
<1> HIDE DEF t
<1>2. \A i \in 1 .. Len(t) : i \in 1 .. Len(s) \/ i = Len(s) + 1
  BY <1>1
<1>3. IsInjective(t)
  <2>1. ASSUME NEW a \in DOMAIN t, NEW b \in DOMAIN t, t[a] = t[b]
        PROVE  a = b
    BY <1>1, <1>2, <2>1 DEF Contains, IsInjective
  <2> QED  BY <2>1 DEF IsInjective
<1>4. ASSUME NEW x PROVE Contains(t, x) <=> x = n \/ Contains(s, x)
  BY <1>1, <1>2 DEF Contains
<1> QED
  BY <1>1, <1>3, <1>4 DEF t

(* Undefined is neither a request nor a name.                              *)
LEMMA Undefined ==
  /\ Off \notin Names /\ Off \notin Requests
  /\ Requests \subseteq Names /\ Names \subseteq Nat /\ 0 \in Names
BY JsonpAssumption, AjaxAssumption
   DEF JsonpAssumption, AjaxAssumption, Names, Requests

(* What the names depend on.                                               *)
naming == <<wants, names, window, overwritten, shared, options, deferred>>

(* A step that leaves it alone keeps them.                                 *)
LEMMA NamesSame ==
  ASSUME NamesInv, UNCHANGED naming
  PROVE  NamesInv'
<1>1. UNCHANGED <<wants, callbackName, oldCallbacks, nonce, window,
                  overwritten, shared, options, deferred>>
  BY DEF naming, names
<1>2. NameTypes'
  BY <1>1 DEF NamesInv, NameTypes
<1>3. ASSUME NEW r \in Requests PROVE OwnName(r)'
  <2>1. OwnName(r)
    BY DEF NamesInv
  <2> QED  BY <1>1, <2>1 DEF OwnName, Owns, IsJsonp, Settled
<1>4. ASSUME NEW n \in Names PROVE OwnFunction(n)'
  <2>1. OwnFunction(n)
    BY DEF NamesInv
  <2> QED  BY <1>1, <2>1 DEF OwnFunction, Settled
<1> QED
  BY <1>2, <1>3, <1>4 DEF NamesInv

(* The names that are left when one is taken: the name that a request gets *)
(* was free, or it is the one that was given.                              *)
Taken(n, old, count, given) ==
  /\ count \in Nat /\ count >= nonce
  /\ \A q \in 1 .. count : q \in 1 .. nonce \/ q = nonce + 1
  /\ n \in 0 .. count /\ (n = 0 <=> given)
  /\ old \in Seq(1 .. count) /\ IsInjective(old) /\ ~Contains(old, n)
  /\ n # 0 => n > nonce \/ Contains(oldCallbacks, n)
  /\ \A m \in Nat \ {n} : m > count \/ Contains(old, m) <=>
                            m > nonce \/ Contains(oldCallbacks, m)

LEMMA NameIsFree ==
  ASSUME nonce \in Nat, oldCallbacks \in Seq(1 .. nonce),
         IsInjective(oldCallbacks), NEW given \in BOOLEAN
  PROVE  LET n == Name(given) IN Taken(n.name, n.old, n.nonce, given)
<1>1. \A x : Contains(oldCallbacks, x) => x \in 1 .. nonce
  BY DEF Contains
<1>2. CASE given
  <2>1. Name(given) = [name |-> 0, old |-> oldCallbacks, nonce |-> nonce]
    BY <1>2 DEF Name
  <2>2. ~Contains(oldCallbacks, 0)
    BY <1>1
  <2>3. Taken(0, oldCallbacks, nonce, given)
    BY <1>2, <2>2 DEF Taken
  <2> QED  BY <2>1, <2>3
<1>3. CASE ~given /\ oldCallbacks # <<>>
  <2>1. Name(given) = [name |-> Last(oldCallbacks),
                       old |-> Front(oldCallbacks), nonce |-> nonce]
    BY <1>3 DEF Name
  <2>2. /\ Last(oldCallbacks) \in 1 .. nonce
        /\ Front(oldCallbacks) \in Seq(1 .. nonce)
        /\ IsInjective(Front(oldCallbacks))
        /\ Contains(oldCallbacks, Last(oldCallbacks))
        /\ ~Contains(Front(oldCallbacks), Last(oldCallbacks))
        /\ \A x : x # Last(oldCallbacks) =>
             (Contains(Front(oldCallbacks), x) <=> Contains(oldCallbacks, x))
    BY <1>3, LastTaken
  <2> QED  BY <1>3, <2>1, <2>2 DEF Taken
<1>4. CASE ~given /\ oldCallbacks = <<>>
  <2>1. Name(given) = [name |-> nonce + 1, old |-> oldCallbacks,
                       nonce |-> nonce + 1]
    BY <1>4 DEF Name
  <2>2. \A x : ~Contains(oldCallbacks, x)
    BY <1>4 DEF Contains
  <2>3. oldCallbacks \in Seq(1 .. nonce + 1)
    BY <1>4
  <2> QED  BY <1>4, <2>1, <2>2, <2>3 DEF Taken
<1> QED
  BY <1>2, <1>3, <1>4

(* A request is made: it gets a name that no other has, unless two have to *)
(* share the given one.                                                    *)
LEMMA MakeKeepsNames ==
  ASSUME NamesInv, IInv, NEW r \in Requests, NEW s \in Options,
         NEW w \in Wants, Make(r, s, w)
  PROVE  NamesInv'
<1>1. /\ options[r] = Off /\ options' \in [Requests -> Options \cup {Off}]
      /\ options'[r] # Off /\ \A q \in Requests \ {r} : options'[q] = options[q]
      /\ \A q \in 1 .. r - 1 : options[q] # Off
  <2>1. WithScript(s, w) \in Options
    BY ScriptOptions
  <2>2. Request(r, WithScript(s, w))
    BY DEF Make
  <2> HIDE DEF Make
  <2> QED  BY <2>1, <2>2, AjaxAssumption
              DEF Request, IInv, Typing, AjaxAssumption
<1>2. /\ UNCHANGED deferred /\ deferred[r] = "no"
  <2>1. UNCHANGED deferred
    BY DEF Make, Request, answer
  <2>2. RequestInv(r)
    BY DEF IInv
  <2> QED  BY <1>1, <2>1, <2>2 DEF RequestInv, Untouched
<1>3. /\ nonce \in Nat /\ r > nonce
      /\ \A q \in 1 .. nonce : q \in Requests /\ options[q] # Off
  BY <1>1 DEF NamesInv, NameTypes, Requests
<1>4. /\ wants' = [q \in Requests |-> wants'[q]] /\ wants'[r] = w
      /\ \A q \in Requests \ {r} : wants'[q] = wants[q]
  BY DEF Make, NamesInv, NameTypes
<1>5. callbackName[r] = Off
  BY <1>1 DEF NamesInv, OwnName
<1>6. CASE w.jsonp
  <2>1. PICK n, old, count :
          /\ Taken(n, old, count, w.given)
          /\ n = Name(w.given).name /\ old = Name(w.given).old
          /\ count = Name(w.given).nonce
    <3>1. w.given \in BOOLEAN
      BY DEF Wants
    <3> QED  BY <1>3, <3>1, NameIsFree DEF NamesInv, NameTypes
  <2>2. /\ callbackName' = [callbackName EXCEPT ![r] = n]
        /\ oldCallbacks' = old /\ nonce' = count
        /\ overwritten' = [overwritten EXCEPT ![r] = window[n]]
        /\ window' = [window EXCEPT ![n] = r]
        /\ shared' = (shared \/ (w.given /\ window[n] # Off))
    BY <1>6, <2>1 DEF Make, Prefilter
  <2>3. /\ count \in Nat /\ count >= nonce
        /\ \A q \in 1 .. count : q \in Requests /\ options'[q] # Off
    <3>1. count \in Nat /\ count >= nonce
      BY <2>1 DEF Taken
    <3>2. ASSUME NEW q \in 1 .. count PROVE q \in Requests /\ options'[q] # Off
      <4>1. q \in 1 .. nonce \/ q = nonce + 1
        BY <2>1 DEF Taken
      <4>2. CASE q \in 1 .. nonce
        BY <1>1, <1>3, <4>2
      <4>3. CASE q = nonce + 1
        BY <1>1, <1>3, <4>3, AjaxAssumption DEF Requests, AjaxAssumption
      <4> QED  BY <4>1, <4>2, <4>3
    <3> QED  BY <3>1, <3>2
  <2>4. n \in Names /\ n \in 0 .. count
    BY <2>1, <2>3, Undefined DEF Taken
  <2>5. /\ callbackName'[r] = n /\ window'[n] = r /\ overwritten'[r] = window[n]
        /\ \A q \in Requests \ {r} : /\ callbackName'[q] = callbackName[q]
                                     /\ overwritten'[q] = overwritten[q]
        /\ \A m \in Names \ {n} : window'[m] = window[m]
    BY <2>2, <2>4 DEF NamesInv, NameTypes
  <2>6. NameTypes'
    <3>1. /\ callbackName' \in [Requests -> (0 .. count) \cup {Off}]
          /\ window' \in [Names -> Requests \cup {Off}]
          /\ overwritten' \in [Requests -> Requests \cup {Off}]
      BY <1>3, <2>2, <2>3, <2>4 DEF NamesInv, NameTypes
    <3>2. old \in Seq(1 .. count) /\ IsInjective(old)
      BY <2>1 DEF Taken
    <3> QED  BY <1>4, <2>2, <2>3, <3>1, <3>2 DEF NameTypes
  <2>7. n # 0 \/ ~shared' => window[n] = Off
    <3>1. CASE n # 0
      <4>1. n > nonce \/ Contains(oldCallbacks, n)
        BY <2>1, <3>1 DEF Taken
      <4> QED  BY <2>4, <4>1 DEF NamesInv, OwnFunction
    <3>2. CASE n = 0
      BY <2>1, <2>2, <3>2 DEF Taken
    <3> QED  BY <3>1, <3>2
  <2>8. ASSUME NEW q \in Requests PROVE OwnName(q)'
    <3>1. CASE q = r
      <4>1. callbackName'[r] = n /\ wants'[r] = w /\ (n = 0 <=> w.given)
        BY <1>4, <2>1, <2>5 DEF Taken
      <4> QED  BY <1>1, <2>5, <2>7, <3>1, <4>1 DEF OwnName
    <3>2. CASE q # r
      <4>1. OwnName(q)
        BY DEF NamesInv
      <4>2. /\ callbackName'[q] = callbackName[q]
            /\ overwritten'[q] = overwritten[q]
            /\ wants'[q] = wants[q] /\ options'[q] = options[q]
            /\ deferred'[q] = deferred[q] /\ (shared => shared')
        BY <1>1, <1>2, <1>4, <2>2, <2>5, <3>2
      <4>3. ASSUME Owns(q)', callbackName'[q] = 0 => ~shared'
            PROVE  window'[callbackName[q]] = q /\ overwritten'[q] = Off
        <5>1. Owns(q) /\ (callbackName[q] = 0 => ~shared)
          BY <4>2, <4>3 DEF Owns, IsJsonp, Settled
        <5>2. window[callbackName[q]] = q /\ overwritten[q] = Off
          BY <4>1, <5>1 DEF OwnName
        <5>3. callbackName[q] # n
          BY <2>7, <4>2, <4>3, <5>2, Undefined
        <5>4. callbackName[q] \in Names
          <6>1. callbackName[q] \in (0 .. nonce) \cup {Off}
            BY DEF NamesInv, NameTypes
          <6>2. callbackName[q] # Off
            BY <5>1 DEF Owns, IsJsonp
          <6> QED  BY <1>3, <6>1, <6>2, Undefined
        <5> QED  BY <2>5, <4>2, <5>2, <5>3, <5>4
      <4> QED  BY <4>1, <4>2, <4>3 DEF OwnName, IsJsonp
    <3> QED  BY <3>1, <3>2
  <2>9. ASSUME NEW m \in Names PROVE OwnFunction(m)'
    <3>1. CASE m = n
      <4>1. ~(n > count) /\ ~Contains(old, n)
        BY <2>1, <2>4 DEF Taken
      <4>2. window'[n] = r /\ callbackName'[r] = n /\ ~Settled(r)' /\ r # Off
        BY <1>2, <2>5, Undefined DEF Settled
      <4> QED  BY <2>2, <3>1, <4>1, <4>2 DEF OwnFunction
    <3>2. CASE m # n
      <4>1. OwnFunction(m) /\ m \in Nat
        BY Undefined DEF NamesInv
      <4>2. m > count \/ Contains(old, m) <=>
              m > nonce \/ Contains(oldCallbacks, m)
        BY <2>1, <3>2, <4>1 DEF Taken
      <4>3. window'[m] = window[m] /\ window[m] \in Requests \cup {Off}
        BY <2>5, <3>2 DEF NamesInv, NameTypes
      <4>4. ASSUME window[m] # Off, callbackName[window[m]] = m
            PROVE  callbackName'[window[m]] = m
        BY <1>5, <2>5, <4>3, <4>4, Undefined
      <4>5. (shared => shared') /\ \A q : Settled(q)' <=> Settled(q)
        BY <1>2, <2>2 DEF Settled
      <4>6. CASE m > nonce \/ Contains(oldCallbacks, m)
        BY <2>2, <4>1, <4>2, <4>3, <4>6 DEF OwnFunction
      <4>7. CASE ~(m > nonce \/ Contains(oldCallbacks, m))
        BY <2>2, <4>1, <4>2, <4>3, <4>4, <4>5, <4>7 DEF OwnFunction
      <4> QED  BY <4>6, <4>7
    <3> QED  BY <3>1, <3>2
  <2> QED  BY <2>6, <2>8, <2>9 DEF NamesInv
<1>7. CASE ~w.jsonp
  <2>1. UNCHANGED <<names, overwritten, window, shared>>
    BY <1>7 DEF Make, Prefilter
  <2>2. UNCHANGED <<callbackName, oldCallbacks, nonce, overwritten, window,
                    shared>>
    BY <2>1 DEF names
  <2>3. NameTypes'
    BY <1>1, <1>3, <1>4, <2>2 DEF NamesInv, NameTypes
  <2>4. ASSUME NEW q \in Requests PROVE OwnName(q)'
    <3>1. OwnName(q)
      BY DEF NamesInv
    <3> QED  BY <1>1, <1>2, <1>4, <1>5, <2>2, <3>1
                DEF OwnName, Owns, IsJsonp, Settled
  <2>5. ASSUME NEW m \in Names PROVE OwnFunction(m)'
    <3>1. OwnFunction(m)
      BY DEF NamesInv
    <3> QED  BY <1>2, <2>2, <3>1 DEF OwnFunction, Settled
  <2> QED  BY <2>3, <2>4, <2>5 DEF NamesInv
<1> QED
  BY <1>6, <1>7

(* A request is settled: its name is free again, and its function is that  *)
(* which had the name before.                                              *)
LEMMA SettleKeepsNames ==
  ASSUME NamesInv, IInv, SettleAndCleanUp
  PROVE  NamesInv'
<1>0. PICK r : r = Top.r
  OBVIOUS
<1>1. /\ r \in Requests /\ Top.at # "no" /\ UNCHANGED options
      /\ deferred' = IF deferred[r] = "no"
                     THEN [deferred EXCEPT ![r] = Top.at] ELSE deferred
  <2>1. Settle
    BY DEF SettleAndCleanUp
  <2>2. calls \in Seq(Frame) /\ calls # <<>>
    BY <2>1 DEF Settle, IInv, Shape
  <2>3. Top \in Frame
    BY <2>2, PopFacts DEF Top
  <2> QED  BY <1>0, <2>1, <2>3 DEF Settle, request, Frame
<1>2. UNCHANGED <<wants, callbackName, nonce, overwritten, shared>>
  BY DEF SettleAndCleanUp, types, history
<1>3. \A q \in Requests \ {r} : deferred'[q] = deferred[q]
  BY <1>1 DEF IInv, Typing
<1>4. CASE deferred[r] = "no" /\ IsJsonp(r)
  <2>1. PICK n : n = callbackName[r]
    OBVIOUS
  <2>2. /\ window' = [window EXCEPT ![n] = overwritten[r]]
        /\ oldCallbacks' = IF wants[r].given THEN oldCallbacks
                           ELSE Append(oldCallbacks, n)
    BY <1>0, <1>4, <2>1 DEF SettleAndCleanUp, CleanUp
  <2>3. /\ OwnName(r) /\ n \in 0 .. nonce /\ n \in Names /\ nonce \in Nat
        /\ (wants[r].given <=> n = 0)
    <3>1. OwnName(r) /\ callbackName[r] \in (0 .. nonce) \cup {Off}
      BY <1>1 DEF NamesInv, NameTypes
    <3>2. n \in 0 .. nonce
      BY <1>4, <2>1, <3>1 DEF IsJsonp
    <3>3. nonce \in Nat /\ \A q \in 1 .. nonce : q \in Requests
      BY DEF NamesInv, NameTypes
    <3>4. n \in Names
      BY <3>2, <3>3, Undefined
    <3> QED  BY <1>4, <2>1, <3>1, <3>2, <3>3, <3>4 DEF OwnName
  <2>4. n # 0 \/ ~shared => window[n] = r /\ overwritten[r] = Off
    BY <1>4, <2>1, <2>3 DEF OwnName, Owns, Settled
  <2>5. n # 0 => ~Contains(oldCallbacks, n) /\ ~(n > nonce)
    BY <1>1, <2>3, <2>4, Undefined DEF NamesInv, OwnFunction
  <2>6. /\ oldCallbacks' \in Seq(1 .. nonce) /\ IsInjective(oldCallbacks')
        /\ n # 0 => Contains(oldCallbacks', n)
        /\ \A m : m # n =>
             (Contains(oldCallbacks', m) <=> Contains(oldCallbacks, m))
    <3>1. oldCallbacks \in Seq(1 .. nonce) /\ IsInjective(oldCallbacks)
      BY DEF NamesInv, NameTypes
    <3>2. CASE n = 0
      BY <2>2, <2>3, <3>1, <3>2
    <3>3. CASE n # 0
      <4>1. n \in 1 .. nonce /\ oldCallbacks' = Append(oldCallbacks, n)
        BY <2>2, <2>3, <3>3
      <4> QED  BY <2>5, <3>1, <3>3, <4>1, LastGiven
    <3> QED  BY <3>2, <3>3
  <2>7. /\ window'[n] = overwritten[r]
        /\ \A m \in Names \ {n} : window'[m] = window[m]
        /\ window' \in [Names -> Requests \cup {Off}]
    BY <1>1, <2>2, <2>3 DEF NamesInv, NameTypes
  <2>8. NameTypes'
    BY <1>1, <1>2, <2>6, <2>7 DEF NamesInv, NameTypes
  <2>9. Settled(r)' /\ \A q \in Requests \ {r} : Settled(q)' <=> Settled(q)
    BY <1>1, <1>3, <1>4 DEF Settled, IInv, Typing
  <2>10. ASSUME NEW q \in Requests PROVE OwnName(q)'
    <3>1. OwnName(q) /\ callbackName[q] \in (0 .. nonce) \cup {Off}
      BY DEF NamesInv, NameTypes
    <3>2. ASSUME Owns(q)', callbackName[q] = 0 => ~shared
          PROVE  window'[callbackName[q]] = q /\ overwritten[q] = Off
      <4>1. q # r /\ Owns(q)
        BY <1>2, <2>9, <3>2 DEF Owns, IsJsonp
      <4>2. window[callbackName[q]] = q /\ overwritten[q] = Off
        BY <3>1, <3>2, <4>1 DEF OwnName
      <4>3. callbackName[q] # n
        BY <2>4, <3>2, <4>1, <4>2
      <4>4. callbackName[q] \in Names
        <5>1. \A i \in 1 .. nonce : i \in Requests
          BY DEF NamesInv, NameTypes
        <5>2. callbackName[q] # Off
          BY <4>1 DEF Owns, IsJsonp
        <5> QED  BY <2>3, <3>1, <5>1, <5>2, Undefined
      <4> QED  BY <2>7, <4>2, <4>3, <4>4
    <3> QED  BY <1>1, <1>2, <3>1, <3>2 DEF OwnName, IsJsonp
  <2>11. ASSUME NEW m \in Names PROVE OwnFunction(m)'
    <3>1. OwnFunction(m) /\ window[m] \in Requests \cup {Off}
      BY DEF NamesInv, NameTypes
    <3>2. CASE m = n /\ n # 0
      <4>1. window'[m] = Off /\ Contains(oldCallbacks', m)
        BY <2>4, <2>6, <2>7, <3>2
      <4> QED  BY <4>1 DEF OwnFunction
    <3>3. CASE m = n /\ n = 0
      <4>1. ~shared => window'[m] = Off
        BY <2>4, <2>7, <3>3
      <4>2. ~(m > nonce) /\ ~Contains(oldCallbacks', m)
        BY <2>3, <2>6, <3>3 DEF Contains
      <4> QED  BY <1>2, <3>3, <4>1, <4>2 DEF OwnFunction
    <3>4. CASE m # n
      <4>1. window'[m] = window[m]
            /\ (Contains(oldCallbacks', m) <=> Contains(oldCallbacks, m))
        BY <2>6, <2>7, <3>4
      <4>2. ASSUME window[m] # Off, callbackName[window[m]] = m,
                   ~Settled(window[m])
            PROVE  deferred'[window[m]] = "no"
        BY <1>3, <2>1, <3>1, <3>4, <4>2 DEF Settled
      <4> QED  BY <1>2, <3>1, <4>1, <4>2 DEF OwnFunction, Settled
    <3> QED  BY <3>2, <3>3, <3>4
  <2> QED  BY <2>8, <2>10, <2>11 DEF NamesInv
<1>5. CASE ~(deferred[r] = "no" /\ IsJsonp(r))
  <2>1. UNCHANGED <<window, oldCallbacks>>
    BY <1>0, <1>5 DEF SettleAndCleanUp
  <2>2. \A q \in Requests : IsJsonp(q) => deferred'[q] = deferred[q]
    BY <1>1, <1>3, <1>5
  <2>3. NameTypes'
    BY <1>1, <1>2, <2>1 DEF NamesInv, NameTypes
  <2>4. ASSUME NEW q \in Requests PROVE OwnName(q)'
    <3>1. OwnName(q)
      BY DEF NamesInv
    <3> QED  BY <1>1, <1>2, <2>1, <2>2, <3>1 DEF OwnName, Owns, IsJsonp, Settled
  <2>5. ASSUME NEW m \in Names PROVE OwnFunction(m)'
    <3>1. OwnFunction(m) /\ window[m] \in Requests \cup {Off}
      BY DEF NamesInv, NameTypes
    <3>2. ASSUME window[m] # Off, callbackName[window[m]] = m,
                 ~Settled(window[m])
          PROVE  deferred'[window[m]] = "no"
      BY <2>2, <3>1, <3>2, Undefined DEF Settled, IsJsonp
    <3> QED  BY <1>2, <2>1, <3>1, <3>2 DEF OwnFunction, Settled
  <2> QED  BY <2>3, <2>4, <2>5 DEF NamesInv
<1> QED
  BY <1>4, <1>5

-----------------------------------------------------------------------------
(* What the answer to a request does: it may call the function that has    *)
(* the name of the request, and the request may be resolved with what its  *)
(* own function was called with.                                           *)
Hears(r) ==
  \E delivers, answers \in BOOLEAN :
    /\ delivers => Calls(r)
    /\ container' = IF delivers THEN Called(r) ELSE container
    /\ response' = IF answers THEN [response EXCEPT ![r] = container'[r]]
                   ELSE response
    /\ Strays(r, delivers)

LEMMA TextIsHeard ==
  ASSUME NEW r, NEW ok \in BOOLEAN, NEW contentType, NEW parses \in BOOLEAN,
         NEW text, TextAnswer(r, ok, contentType, parses, text)
  PROVE  Hears(r) /\ UNCHANGED <<wants, names, window, overwritten, shared>>
<1>1. PICK delivers \in BOOLEAN, answers \in BOOLEAN :
        /\ delivers => Calls(r)
        /\ container' = IF delivers THEN Called(r) ELSE container
        /\ response' = IF answers
                       THEN [response EXCEPT ![r] = container'[r]]
                       ELSE response
        /\ Strays(r, delivers)
  BY DEF TextAnswer
<1>2. UNCHANGED <<wants, names, window, overwritten, shared>>
  BY DEF TextAnswer
<1> QED
  BY <1>1, <1>2 DEF Hears

(* Every step but two leaves the names alone, and the answers, unless it   *)
(* is an answer that comes.                                                *)
LEMMA NextAnswers ==
  ASSUME IInv, [Next]_all
  PROVE  \/ \E r \in Requests, m \in Made : Make(r, m[1], m[2])
         \/ SettleAndCleanUp
         \/ /\ UNCHANGED naming
            /\ \/ UNCHANGED <<container, response, strayed>>
               \/ \E r \in Requests : Hears(r)
               \/ \E r \in Requests : LateScript(r)
<1>1. CASE /\ \/ Complete \/ CountDown
              \/ CountUp \/ BeforeSend \/ Allowed \/ Refused \/ Install
              \/ FindTransport \/ Sending
           /\ Plainly
  <2>1. UNCHANGED <<options, deferred>>
    BY <1>1 DEF Complete, CountDown, CountUp, BeforeSend, Allowed, Refused,
                Install, FindTransport, GetTransport, NoTransport, Sending,
                Send, SendThrows, request, answer
  <2> QED  BY <1>1, <2>1 DEF Plainly, types, functions, history, naming
<1>2. CASE (\E r \in Requests : UserAbort(r)) /\ Plainly
  BY <1>2 DEF UserAbort, Plainly, types, functions, history, naming
<1>3. CASE (ReturnFalse \/ Throw \/ Return) /\ Plainly
  BY <1>3 DEF ReturnFalse, Throw, Return, Plainly, request, answer, types,
              functions, history, naming
<1>4. ASSUME NEW r \in Requests, Late(r)
      PROVE  UNCHANGED naming /\ UNCHANGED <<container, response, strayed>>
  BY <1>4 DEF Late, Timeout, Plainly, types, functions, history, naming
<1>5. ASSUME NEW r \in Requests, LateScript(r)
      PROVE  UNCHANGED naming
  BY <1>5 DEF LateScript, vars, request, answer, types, naming
<1>6. ASSUME NEW r \in Requests, NEW runs \in BOOLEAN, AnswerScript(r, runs)
      PROVE  UNCHANGED naming /\ Hears(r)
  <2>1. UNCHANGED naming
    BY <1>6 DEF AnswerScript, Answer, Answered, types, naming
  <2>2. PICK delivers \in BOOLEAN : delivers <=> runs /\ Calls(r)
    OBVIOUS
  <2>3. /\ container' = IF delivers THEN Called(r) ELSE container
        /\ response' = [response EXCEPT ![r] = container'[r]]
        /\ Strays(r, delivers)
    BY <1>6, <2>2 DEF AnswerScript
  <2> QED  BY <2>1, <2>2, <2>3 DEF Hears
<1>7. ASSUME NEW r \in Requests, NEW ok \in BOOLEAN, NEW parses \in BOOLEAN,
             NEW contentType \in {"json", "none"},
             AnswerText(r, ok, contentType, parses)
      PROVE  UNCHANGED naming /\ Hears(r)
  <2>1. PICK text : /\ TextAnswer(r, ok, contentType, parses, text)
                    /\ Answer(r, text)
    BY <1>7 DEF AnswerText
  <2>2. UNCHANGED <<options, deferred>>
    BY <2>1 DEF Answer, Answered
  <2> QED  BY <2>1, <2>2, TextIsHeard DEF naming
<1>8. ASSUME NEW ok \in BOOLEAN, NEW parses \in BOOLEAN,
             NEW contentType \in {"json", "none"},
             WaitText(ok, contentType, parses)
      PROVE  UNCHANGED naming /\ \E r \in Requests : Hears(r)
  <2>1. PICK text : /\ TextAnswer(Top.r, ok, contentType, parses, text)
                    /\ Wait(text)
    BY <1>8 DEF WaitText
  <2>2. UNCHANGED <<options, deferred>>
    BY <2>1 DEF Wait, Answered
  <2>3. Top.r \in Requests
    <3>1. calls # <<>> /\ calls \in Seq(Frame)
      BY <1>8 DEF WaitText, At, IInv, Shape
    <3>2. Top \in Frame
      BY <3>1, PopFacts DEF Top
    <3> QED  BY <3>2 DEF Frame
  <2> QED  BY <2>1, <2>2, <2>3, TextIsHeard DEF naming
<1>9. CASE UNCHANGED all
  BY <1>9 DEF all, vars, jsonpVars, request, answer, types, names, functions,
              history, naming
<1> QED
  BY <1>1, <1>2, <1>3, <1>4, <1>5, <1>6, <1>7, <1>8, <1>9
     DEF Next, LibraryStep, PageStep, Return_

(* The functions that are called are those of the requests whose answers   *)
(* came.                                                                   *)
LEMMA HearsKeeps ==
  ASSUME NamesInv, AnswersInv, UNCHANGED shared, NEW r \in Requests, Hears(r)
  PROVE  AnswersInv'
<1>1. PICK delivers \in BOOLEAN, answers \in BOOLEAN :
        /\ delivers => Calls(r)
        /\ container' = IF delivers THEN Called(r) ELSE container
        /\ response' = IF answers
                       THEN [response EXCEPT ![r] = container'[r]]
                       ELSE response
        /\ strayed' = (strayed \/ (delivers /\ Settled(r)))
  BY DEF Hears, Strays
<1>2. PICK q : q = window[callbackName[r]]
  OBVIOUS
<1>3. delivers => /\ q \in Requests /\ container' = [container EXCEPT ![q] = r]
                  /\ IsJsonp(r)
  <2>1. ASSUME delivers
        PROVE  /\ q \in Requests /\ container' = [container EXCEPT ![q] = r]
               /\ IsJsonp(r)
    <3>1. IsJsonp(r) /\ q # Off
      BY <1>1, <1>2, <2>1 DEF Calls
    <3>2. callbackName[r] \in Names
      <4>1. /\ callbackName[r] \in (0 .. nonce) \cup {Off} /\ nonce \in Nat
            /\ \A i \in 1 .. nonce : i \in Requests
        BY DEF NamesInv, NameTypes
      <4> QED  BY <3>1, <4>1, Undefined DEF IsJsonp
    <3>3. q \in Requests
      BY <1>2, <3>1, <3>2 DEF NamesInv, NameTypes
    <3> QED  BY <1>1, <1>2, <2>1, <3>1, <3>3 DEF Called
  <2> QED  BY <2>1
<1>4. container' \in [Requests -> Requests \cup {Off}]
  BY <1>1, <1>3 DEF AnswersInv
<1>5. response' \in [Requests -> Requests \cup {Off}]
  BY <1>1, <1>4 DEF AnswersInv
<1>6. ASSUME ~strayed', ~shared
      PROVE  \A i \in Requests : /\ container'[i] \in {Off, i}
                                 /\ response'[i] \in {Off, i}
  <2>1. ~strayed /\ (delivers => ~Settled(r))
    BY <1>1, <1>6
  <2>2. \A i \in Requests : container[i] \in {Off, i} /\ response[i] \in {Off, i}
    BY <1>6, <2>1 DEF AnswersInv
  <2>3. delivers => q = r
    BY <1>2, <1>3, <1>6, <2>1 DEF NamesInv, OwnName, Owns
  <2>4. \A i \in Requests : container'[i] \in {Off, i}
    BY <1>1, <1>3, <2>2, <2>3 DEF AnswersInv
  <2>5. \A i \in Requests : response'[i] \in {Off, i}
    BY <1>1, <2>2, <2>4 DEF AnswersInv
  <2> QED  BY <2>4, <2>5
<1> QED
  BY <1>4, <1>5, <1>6 DEF AnswersInv

(* The script of an aborted request.                                       *)
LEMMA LateKeeps ==
  ASSUME NamesInv, AnswersInv, NEW r \in Requests, LateScript(r)
  PROVE  AnswersInv'
<1>1. /\ container' = IF Calls(r) THEN Called(r) ELSE container
      /\ strayed' = (strayed \/ Calls(r)) /\ UNCHANGED <<response, shared>>
  BY DEF LateScript
<1>2. CASE Calls(r)
  <2>1. PICK q : q = window[callbackName[r]]
    OBVIOUS
  <2>2. container' = [container EXCEPT ![q] = r] /\ strayed'
    BY <1>1, <1>2, <2>1 DEF Called
  <2> QED  BY <1>1, <2>2 DEF AnswersInv
<1>3. CASE ~Calls(r)
  BY <1>1, <1>3 DEF AnswersInv
<1> QED
  BY <1>2, <1>3

(* What a request leaves behind is handed on when two have shared a name.  *)
LEMMA SettleKeepsAnswers ==
  ASSUME NamesInv, IInv, AnswersInv, SettleAndCleanUp
  PROVE  AnswersInv'
<1>1. UNCHANGED <<response, strayed, shared>>
  BY DEF SettleAndCleanUp, history
<1>2. CASE UNCHANGED container
  BY <1>1, <1>2 DEF AnswersInv
<1>3. CASE deferred[Top.r] = "no" /\ IsJsonp(Top.r)
  <2>1. PICK r : r = Top.r
    OBVIOUS
  <2>2. r \in Requests
    <3>1. calls # <<>> /\ calls \in Seq(Frame)
      BY DEF SettleAndCleanUp, Settle, IInv, Shape
    <3>2. Top \in Frame
      BY <3>1, PopFacts DEF Top
    <3> QED  BY <2>1, <3>2 DEF Frame
  <2>3. PICK before : before = overwritten[r]
    OBVIOUS
  <2>4. PICK handed :
          /\ handed = IF container[r] # Off /\ before # Off
                      THEN [container EXCEPT ![before] = container[r]]
                      ELSE container
          /\ container' = [handed EXCEPT ![r] = Off]
    BY <1>3, <2>1, <2>3 DEF SettleAndCleanUp, CleanUp
  <2>5. before \in Requests \cup {Off}
    BY <2>2, <2>3 DEF NamesInv, NameTypes
  <2>6. handed \in [Requests -> Requests \cup {Off}]
    BY <2>2, <2>4, <2>5 DEF AnswersInv
  <2>7. container' \in [Requests -> Requests \cup {Off}]
    BY <2>4, <2>6
  <2>8. ASSUME ~shared, ~strayed
        PROVE  \A i \in Requests : container'[i] \in {Off, i}
    <3>1. before = Off
      BY <1>3, <2>1, <2>2, <2>3, <2>8 DEF NamesInv, OwnName, Owns, Settled
    <3>2. container' = [container EXCEPT ![r] = Off]
      BY <2>4, <3>1
    <3> QED  BY <2>2, <2>8, <3>2 DEF AnswersInv
  <2> QED  BY <1>1, <2>7, <2>8 DEF AnswersInv
<1> QED
  BY <1>2, <1>3 DEF SettleAndCleanUp

-----------------------------------------------------------------------------
(* The names and the answers, with what they depend on of the requests.    *)
JsonpInv == AjaxInv /\ NamesInv /\ AnswersInv

(* No name was made when the page is loaded.                               *)
LEMMA InitNames == JsonpInit => NamesInv /\ AnswersInv
<1> SUFFICES ASSUME JsonpInit PROVE NamesInv /\ AnswersInv
  OBVIOUS
<1>1. NameTypes
  BY DEF JsonpInit, NameTypes, IsInjective
<1>2. ASSUME NEW r \in Requests PROVE OwnName(r)
  BY DEF JsonpInit, OwnName, Owns, IsJsonp
<1>3. ASSUME NEW n \in Names PROVE OwnFunction(n)
  <2>1. window[n] = Off /\ nonce = 0 /\ oldCallbacks = <<>> /\ n \in Nat
    BY Undefined DEF JsonpInit
  <2>2. n = 0 \/ n > nonce
    BY <2>1
  <2> QED  BY <2>1, <2>2 DEF OwnFunction
<1>4. AnswersInv
  BY DEF JsonpInit, AnswersInv
<1> QED
  BY <1>1, <1>2, <1>3, <1>4 DEF NamesInv

(* Every step keeps them.                                                  *)
LEMMA NextNames == JsonpInv /\ [Next]_all => JsonpInv'
<1> SUFFICES ASSUME JsonpInv, [Next]_all PROVE JsonpInv'
  OBVIOUS
<1>1. AjaxInv' /\ AjaxInv /\ IInv
  BY NextInv DEF JsonpInv, AjaxInv
<1>2. CASE \E r \in Requests, m \in Made : Make(r, m[1], m[2])
  <2>1. PICK r \in Requests, m \in Made : Make(r, m[1], m[2])
    BY <1>2
  <2>2. m[1] \in Options /\ m[2] \in Wants
    BY JsonpAssumption, AjaxAssumption DEF JsonpAssumption, AjaxAssumption
  <2>3. NamesInv'
    BY <1>1, <2>1, <2>2, MakeKeepsNames DEF JsonpInv
  <2>4. AnswersInv'
    <3>1. UNCHANGED <<container, response, strayed>> /\ (shared => shared')
      BY <2>1 DEF Make, Prefilter
    <3> QED  BY <3>1 DEF JsonpInv, AnswersInv
  <2> QED  BY <1>1, <2>3, <2>4 DEF JsonpInv
<1>3. CASE SettleAndCleanUp
  BY <1>1, <1>3, SettleKeepsNames, SettleKeepsAnswers DEF JsonpInv
<1>4. CASE /\ UNCHANGED naming
           /\ \/ UNCHANGED <<container, response, strayed>>
              \/ \E r \in Requests : Hears(r)
              \/ \E r \in Requests : LateScript(r)
  <2>1. NamesInv' /\ UNCHANGED shared
    BY <1>4, NamesSame DEF JsonpInv, naming
  <2>2. CASE UNCHANGED <<container, response, strayed>>
    BY <1>1, <2>1, <2>2 DEF JsonpInv, AnswersInv
  <2>3. CASE \E r \in Requests : Hears(r)
    BY <1>1, <2>1, <2>3, HearsKeeps DEF JsonpInv
  <2>4. CASE \E r \in Requests : LateScript(r)
    BY <1>1, <2>1, <2>4, LateKeeps DEF JsonpInv
  <2> QED  BY <1>4, <2>2, <2>3, <2>4
<1> QED
  BY <1>1, <1>2, <1>3, <1>4, NextAnswers

(* It implies what the runs check.                                         *)
LEMMA InvJsonp == JsonpInv => JsonpFits
<1> SUFFICES ASSUME JsonpInv PROVE JsonpFits
  OBVIOUS
<1>1. NameTypes /\ \A n \in Names : OwnFunction(n)
  BY DEF JsonpInv, NamesInv
<1>2. ASSUME NEW n \in 1 .. nonce
      PROVE  IF Contains(oldCallbacks, n) THEN window[n] = Off
             ELSE /\ window[n] # Off
                  /\ callbackName[window[n]] = n /\ ~Settled(window[n])
  <2>1. n \in Names /\ n # 0 /\ ~(n > nonce)
    BY <1>1, Undefined DEF NameTypes
  <2> QED  BY <1>1, <2>1 DEF OwnFunction
<1>3. ~shared => window[0] = Off \/ ~Settled(window[0])
  <2>1. OwnFunction(0)
    BY <1>1, Undefined
  <2> QED  BY <2>1 DEF OwnFunction
<1>4. NamesFit
  BY <1>1, <1>2, <1>3 DEF NamesFit, NameTypes
<1>5. OwnAnswers
  BY DEF OwnAnswers, JsonpInv, AnswersInv
<1> QED
  BY <1>4, <1>5 DEF JsonpFits

(* The function of a JSONP request is its own from its making to its       *)
(* clean-up, a name is used again only when it is free, and a request is   *)
(* resolved with the answer that was made for it, unless the script of     *)
(* one that is over comes late or two share the name that the page gave:   *)
(* for every number of requests (jquery-1.9.1.js:8361-8424).               *)
THEOREM JsonpAnswersAreOwn == Spec => []JsonpFits
<1>1. JsonpInit => JsonpInv
  BY InitInv, InitNames DEF JsonpInv
<1> QED
  BY <1>1, NextNames, InvJsonp, PTL DEF Spec
=============================================================================
