----------------------------- MODULE MCDeferred -----------------------------
EXTENDS Deferred, TLC

Symmetry == Permutations(Deferreds) \cup Permutations(Fn)
=============================================================================
