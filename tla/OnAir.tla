------------------------------- MODULE OnAir -------------------------------
(***************************************************************************)
(* What the registry of the multicast server promises to the rest of the   *)
(* system: a media goes on air once, it leaves the air only after it has   *)
(* been stopped, and nothing else changes what is on air.                  *)
(*                                                                         *)
(* ServerRTSP keeps the promise only as long as no two updates of its      *)
(* ArrayList overlap (addMedia() holds no monitor); from the first overlap *)
(* on, the list is arbitrary, which "disrupted" records.                   *)
(***************************************************************************)

CONSTANT Media

VARIABLES
  onAir,      \* media a lookup can find
  published,  \* media that have been put on air
  stopped,    \* media that have been stopped
  disrupted   \* have two updates of the registry overlapped?

vars == <<onAir, published, stopped, disrupted>>

Init ==
  /\ onAir = {}
  /\ published = {}
  /\ stopped = {}
  /\ disrupted = FALSE

(* addMedia() puts a new media on air. *)
Publish(m) ==
  /\ m \notin published
  /\ onAir' = onAir \cup {m}
  /\ published' = published \cup {m}
  /\ UNCHANGED <<stopped, disrupted>>

(* A deletion first stops a media that is on air ... *)
Halt(m) ==
  /\ m \in onAir
  /\ stopped' = stopped \cup {m}
  /\ UNCHANGED <<onAir, published, disrupted>>

(* ... and then withdraws it. *)
Withdraw(m) ==
  /\ m \in onAir
  /\ m \in stopped
  /\ onAir' = onAir \ {m}
  /\ UNCHANGED <<published, stopped, disrupted>>

(* Two updates overlap, or have overlapped. *)
Disrupt ==
  /\ disrupted' = TRUE
  /\ onAir' \in SUBSET Media
  /\ published' \in SUBSET Media
  /\ stopped' \in SUBSET Media

Next ==
  \/ \E m \in Media : Publish(m) \/ Halt(m) \/ Withdraw(m)
  \/ Disrupt

Spec == Init /\ [][Next]_vars
=============================================================================
