----------------------------- MODULE MCSessions -----------------------------
EXTENDS Sessions, TLC

\* Session ids are opaque: permuting them permutes behaviours.
IdSymmetry == Permutations(SessionIds)
=============================================================================
