------------------------------- MODULE Promise ------------------------------
(***************************************************************************)
(* What a promise promises: it is settled once, in one of two ways, and    *)
(* calls each of the functions it was given for that way once, in the      *)
(* order in which it was given them, before or after it was settled.       *)
(***************************************************************************)
EXTENDS Naturals, Sequences

CONSTANTS Promises, Functions

Ways == {"resolve", "reject"}

VARIABLES
  settled,  \* settled[p]: the way in which p was settled, or "no"
  given,    \* given[p][w]: the functions p was given for the way w
  called    \* called[p][w]: those that it has called

vars == <<settled, given, called>>

Init ==
  /\ settled = [p \in Promises |-> "no"]
  /\ given = [p \in Promises |-> [w \in Ways |-> <<>>]]
  /\ called = [p \in Promises |-> [w \in Ways |-> <<>>]]

Settle(p, w) ==
  /\ settled[p] = "no"
  /\ settled' = [settled EXCEPT ![p] = w]
  /\ UNCHANGED <<given, called>>

Give(p, ways, f) ==
  /\ given' = [given EXCEPT ![p] =
                 [w \in Ways |-> IF w \in ways THEN Append(@[w], f) ELSE @[w]]]
  /\ UNCHANGED <<settled, called>>

Call(p, w) ==
  /\ settled[p] = w
  /\ Len(called[p][w]) < Len(given[p][w])
  /\ called' = [called EXCEPT ![p][w] =
                  Append(@, given[p][w][Len(@) + 1])]
  /\ UNCHANGED <<settled, given>>

Next ==
  \/ \E p \in Promises, w \in Ways : Settle(p, w) \/ Call(p, w)
  \/ \E p \in Promises, ways \in SUBSET Ways, f \in Functions :
       Give(p, ways, f)

Spec == Init /\ [][Next]_vars
=============================================================================
