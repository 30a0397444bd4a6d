--------------------------- MODULE MCSyncPipeline ---------------------------
(***************************************************************************)
(* Instances of SyncPipeline for TLC.                                      *)
(***************************************************************************)
EXTENDS SyncPipeline, TLC

CONSTANTS j1, j2, j3, t1, t2, t3, s1, s2, c1, c2

\* Job ids, contents and systems are interchangeable; triggers are when all or none
\* of them are manual.
SyncSymmetry == Permutations(Job) \cup Permutations(Content) \cup Permutations(System)
                    \cup Permutations(Trigger)
=============================================================================
