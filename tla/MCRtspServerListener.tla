------------------------ MODULE MCRtspServerListener ------------------------
(***************************************************************************)
(* Instances of RtspServerListener for TLC: a media with sound and one     *)
(* without, of the same title.                                             *)
(***************************************************************************)
EXTENDS RtspServerListener

CONSTANTS t1, video, audio

SameTitle == [m \in Media |-> t1]
SoundOfOne ==
  [m \in Media |-> IF m = CHOOSE n \in Media : TRUE THEN {video, audio}
                                                   ELSE {video}]
=============================================================================
