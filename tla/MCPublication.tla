----------------------------- MODULE MCPublication -----------------------------
(* Values for the constants of Publication.                                *)
EXTENDS Publication, TLC

VARIABLE scenario

CONSTANTS p1, p2, t1, t2, a1, c1, c2, w1, w2

TwoPhotos == {p1, p2}
TwoStops == {t1, t2}
OnePhoto == {p2}
OneArea == {a1}
TwoClients == {c1, c2}
TwoWorkers == {w1, w2}

OwnKeys == [p \in TwoPhotos |-> p]

\* One stop in an area; both photos in one standalone stop.
TwoStories ==
  {[stopOf |-> [p \in TwoPhotos |-> IF p = p1 THEN t1 ELSE t2],
    areaOf |-> [t \in TwoStops |-> IF t = t1 THEN a1 ELSE None]],
   [stopOf |-> [p \in TwoPhotos |-> t2],
    areaOf |-> [t \in TwoStops |-> None]]}
FirstTakenOver == {1}

\* Three environments are explored apart: kills, overruns and two workers, and a photo
\* that is hidden; a photo and a story that change and readers, around one worker that
\* may fail; or crossing requests, revocation and unpublishing, around one that does not.
AtMostOne(session, idle) ==
  \A x, y \in DOMAIN session : x # y => session[x] = idle \/ session[y] = idle

MCInit ==
  /\ Init /\ story.areaOf[t1] = a1
  /\ scenario \in {"faults", "changes", "revocation"}

MCNext ==
  /\ Next
  /\ scenario' = scenario
  /\ scenario = "faults" => listed' \subseteq listed
  /\ scenario # "faults" => crashes' = crashes /\ AtMostOne(work', Idle)
  /\ scenario # "changes" => story' = story /\ reading' = reading
  /\ IF scenario = "revocation"
       THEN /\ listed' = listed
            /\ \A w \in Workers : work'[w].pc \notin {"marking", "raised"}
       ELSE /\ unpublish' = unpublish /\ AtMostOne(request', NoRequest)
            /\ \A v \in Versions : link'[v] # "revoked"

MCSpec == MCInit /\ [][MCNext]_<<vars, scenario>>

Symmetry == Permutations(TwoWorkers) \cup Permutations(TwoClients)
=============================================================================
