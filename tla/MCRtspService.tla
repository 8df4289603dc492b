--------------------------- MODULE MCRtspService ---------------------------
(***************************************************************************)
(* Instances of RtspService for TLC: threads and clients are              *)
(* interchangeable.                                                       *)
(***************************************************************************)
EXTENDS RtspService, TLC

Symmetry == Permutations(Thread) \cup Permutations(Peer)
=============================================================================
