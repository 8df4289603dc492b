--------------------------- MODULE MCMediaReaders ---------------------------
(***************************************************************************)
(* Instances of MediaReaders for TLC: media of two titles.                 *)
(***************************************************************************)
EXTENDS MediaReaders

CONSTANTS t1, t2

TwoTitles == [m \in Media |-> IF m = CHOOSE n \in Media : TRUE THEN t2 ELSE t1]
=============================================================================
