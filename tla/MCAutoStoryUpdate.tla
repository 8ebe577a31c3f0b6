-------------------------- MODULE MCAutoStoryUpdate --------------------------
(* Values for the constants of AutoStoryUpdate.                            *)
EXTENDS AutoStoryUpdate, TLC

CONSTANTS p1, p2, w1, w2

TwoPhotos == {p1, p2}
TwoWorkers == {w1, w2}
=============================================================================
