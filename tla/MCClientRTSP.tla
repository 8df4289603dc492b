---------------------------- MODULE MCClientRTSP ----------------------------
(***************************************************************************)
(* Instances of ClientRTSP for TLC: one media with sound, or none.         *)
(***************************************************************************)
EXTENDS ClientRTSP

CONSTANTS video, audio

SoundOfOne ==
  [m \in Media |-> IF m = CHOOSE n \in Media : TRUE THEN <<video, audio>>
                                                   ELSE <<video>>]

VideoOnly == [m \in Media |-> <<video>>]
=============================================================================
