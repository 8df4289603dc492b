------------------------------- MODULE MCOrbit ------------------------------
EXTENDS Orbit

(* A turn of three steps instead of 181.                                   *)
ShortTurn == 4
=============================================================================
