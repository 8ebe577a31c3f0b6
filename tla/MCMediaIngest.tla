---------------------------- MODULE MCMediaIngest ----------------------------
(* Values for the constants of MediaIngest.                                *)
EXTENDS MediaIngest

CONSTANTS photo, w1

OnePhoto == {photo}
NoneInvalid == {}
OneWorker == {w1}

\* The window between the deletion of the original and the commit.
AtCommit == {"committing"}
=============================================================================
