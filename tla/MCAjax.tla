------------------------------- MODULE MCAjax -------------------------------
EXTENDS Jsonp

MCMaxRequests == 2

(* A timeout with whatever is asynchronous, and no request that is neither *)
(* asynchronous nor counted.                                               *)
SomeKinds ==
  {s \in [{"global", "async", "timeout", "beforeSend"} -> BOOLEAN] :
     s.timeout = s.async /\ (s.async \/ s.global)}

Wanting(list, jsonp, cross, given) ==
  [types |-> list, jsonp |-> jsonp, cross |-> cross, given |-> given]

Plain == Wanting(<<"*">>, FALSE, FALSE, FALSE)
OfOthers == Wanting(<<"json">>, FALSE, TRUE, FALSE)

(* JSONP, from another server with and without a name, and from this one.  *)
OtherJsonp ==
  {Wanting(<<"jsonp">>, TRUE, TRUE, TRUE),
   Wanting(<<"jsonp">>, TRUE, TRUE, FALSE)}
OwnJsonp == Wanting(<<"jsonp">>, TRUE, FALSE, FALSE)

(* These are made with one set of options each: a request that makes       *)
(* global events may be sent after it was aborted.                         *)
Quiet == [global |-> FALSE, async |-> TRUE, timeout |-> TRUE,
          beforeSend |-> FALSE]
Loud == [Quiet EXCEPT !.global = TRUE]

SomeMade ==
  (SomeKinds \X {Plain}) \cup ({Quiet} \X (OtherJsonp \cup {OfOthers}))
    \cup {<<Loud, OwnJsonp>>}
=============================================================================
