------------------------------ MODULE MCEvents ------------------------------
EXTENDS Events

(* An element and the one around it; three times something is bound or an  *)
(* event comes.                                                            *)
MCDepth == 2
MCMaxDeeds == 3
=============================================================================
