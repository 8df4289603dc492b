------------------------------ MODULE Callbacks -----------------------------
(***************************************************************************)
(* jQuery.Callbacks: a list of functions that are called when it is fired, *)
(* by what each of its methods makes of the variables of its closure, for  *)
(* the lists that jQuery itself makes, with the options "once memory" or   *)
(* "memory".                                                               *)
(*                                                                         *)
(* A list is a record of those variables; `Off' is JavaScript's undefined. *)
(* The loop of fire() calls functions that use the lists themselves, this  *)
(* one included: the loop is therefore not here but in Deferred.           *)
(***************************************************************************)
EXTENDS Naturals, Sequences

CONSTANT Off

(* jQuery.Callbacks(options).  `waiting' is the variable the code calls    *)
(* stack: the values that were fired while the list was firing.            *)
NewList(once) ==
  [list |-> <<>>, memory |-> Off, waiting |-> IF once THEN Off ELSE <<>>,
   fired |-> FALSE, firing |-> FALSE,
   firingStart |-> 0, firingIndex |-> 0, firingLength |-> 0]

(* disable() and lock().                                                   *)
Disabled(c) == [c EXCEPT !.list = Off, !.waiting = Off, !.memory = Off]
Locked(c) ==
  IF c.memory = Off THEN Disabled(c) ELSE [c EXCEPT !.waiting = Off]

(* fire(), up to its loop.                                                 *)
Started(c, v) ==
  [c EXCEPT !.memory = v, !.fired = TRUE, !.firing = TRUE,
            !.firingIndex = c.firingStart, !.firingStart = 0,
            !.firingLength = Len(c.list)]

(* add(): while the list is firing, what is added joins the batch; a list  *)
(* with a memory that is not firing calls it at once.                      *)
CallsAtOnce(c) == c.list # Off /\ ~c.firing /\ c.memory # Off

(* Mutant of Added: what is added while the list fires joins no batch.     *)
AddedLate(c, f) ==
  IF c.list = Off THEN c
  ELSE [c EXCEPT !.list = Append(@, f),
                 !.firingStart = IF CallsAtOnce(c) THEN Len(c.list) ELSE @]

Added(c, f) ==
  IF c.list = Off THEN c
  ELSE [c EXCEPT !.list = Append(@, f),
                 !.firingLength = IF c.firing THEN Len(c.list) + 1 ELSE @,
                 !.firingStart = IF CallsAtOnce(c) THEN Len(c.list) ELSE @]

(* fireWith(): what is fired while the list is firing waits for its turn.  *)
MayFire(c) == c.list # Off /\ (~c.fired \/ c.waiting # Off)

(* Mutant of Fired: it is fired at once.                                   *)
FiredAtOnce(c, v) == Started(c, v)

Fired(c, v) ==
  IF c.firing THEN [c EXCEPT !.waiting = Append(@, v)] ELSE Started(c, v)

(* The loop of fire(): whether it goes on, and its function.               *)
HasNext(c) == c.list # Off /\ c.firingIndex < c.firingLength
NextOf(c) == c.list[c.firingIndex + 1]
Advanced(c) == [c EXCEPT !.firingIndex = @ + 1]

(* After the loop: the next value that waits is fired; a list that may not *)
(* be fired again is emptied when it has a memory, and disabled otherwise. *)
FiresAgain(c) == c.list # Off /\ c.waiting \notin {Off, <<>>}
Again(c) == Started([c EXCEPT !.waiting = Tail(@)], Head(c.waiting))
Ended(c) ==
  LET quiet == [c EXCEPT !.firing = FALSE]
  IN  IF c.list = Off \/ c.waiting # Off THEN quiet
      ELSE IF c.memory # Off THEN [quiet EXCEPT !.list = <<>>]
      ELSE Disabled(quiet)
=============================================================================
