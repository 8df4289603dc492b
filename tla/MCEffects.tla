----------------------------- MODULE MCEffects ------------------------------
EXTENDS Effects

(* One element; its animations have one interval to run or nothing to do.  *)
MCMaxAnims == 3
MCMaxLength == 1
MCMaxStops == 2
=============================================================================
