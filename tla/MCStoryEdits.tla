----------------------------- MODULE MCStoryEdits -----------------------------
(* Three photos of two contributors on one day. *)
EXTENDS StoryEdits

CONSTANTS p1, p2, p3

MCTaken == (p1 :> 1) @@ (p2 :> 2) @@ (p3 :> 4)
MCBy == (p1 :> "ann") @@ (p2 :> "bob") @@ (p3 :> "ann")
MCTakenAt == {(p1 :> "a") @@ (p2 :> "b") @@ (p3 :> "a"),
              (p1 :> "a") @@ (p2 :> NoGps) @@ (p3 :> "a"),
              (p1 :> "a") @@ (p2 :> NoGps) @@ (p3 :> NoGps)}
MCPositions == {"a", "b", NoGps}
MCStopIds == 11 .. 16
MCMomentIds == 21 .. 26
MCAreaIds == 31 .. 34

\* Rows refer to rows that are there, and a photo is in one moment at most.
StoryIsConsistent == TypeOK /\ OnePlacePerPhoto
=============================================================================
