--------------------------- MODULE MCMediaServer ---------------------------
(***************************************************************************)
(* Instances of MediaServer for TLC: all media have the title t1, and the  *)
(* title t2 is known to the servlets only.                                 *)
(***************************************************************************)
EXTENDS MediaServer

CONSTANTS t1, t2

SameTitle == [m \in Media |-> t1]
=============================================================================
