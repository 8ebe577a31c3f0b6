------------------------------ MODULE Projections ------------------------------
(***************************************************************************)
(* What a trip keeps ready for its pages: the draft and photo projections  *)
(* of its story, saved under the run they show and replaced by every edit, *)
(* and the points of its map, which edits and ingests delete and insert    *)
(* anew.  Requests are transactions at READ COMMITTED.  The projections of *)
(* a story are under an advisory lock of the trip, which a commit gives    *)
(* back; the points of the map are only under their unique constraint.     *)
(*                                                                         *)
(* What a page shows of a photo is its version.  Every photo has a place.  *)
(* The projections of the photos of days and of stops are saved and        *)
(* deleted together: they are one here.                                    *)
(***************************************************************************)
EXTENDS Naturals, FiniteSets

CONSTANTS
  Photos,
  Handlers,    \* threads of the API and of the worker
  Nobody,
  MaxVersions, \* bound: a photo as ingested, and after each of its edits
  MaxRuns      \* bound

VARIABLES
  media,   \* media_items: [ready, gone, version] of each photo
  placed,  \* the photos in the generated records of the latest run
  run,     \* the latest reconstruction run
  draft,   \* the draft projection
  photos,  \* the photo projections
  map,     \* trip_map_point_projections
  req      \* what each handler has locked, read and written

vars == <<media, placed, run, draft, photos, map, req>>

Contents == SUBSET (Photos \X (1 .. MaxVersions))
\* late is history: an edit was committed between the reading of some of what is
\* shown and its saving.  Run 0 stands for a projection that is not there.
Projection == [run : 0 .. MaxRuns, shows : Contents, late : BOOLEAN]
Missing == [run |-> 0, shows |-> {}, late |-> FALSE]

Free == [at |-> "idle", does |-> "read", on |-> Nobody, loaded |-> 1, locks |-> FALSE,
         saved |-> Missing, sees |-> {}, deletes |-> {}, rows |-> {}]
Places == {"idle", "edited", "deleting", "inserting", "committing",
           "asked draft", "asked photos", "copying", "answered", "ran", "built"}

TypeOK ==
  /\ media \in [Photos -> [ready : BOOLEAN, gone : BOOLEAN, version : 1 .. MaxVersions]]
  /\ placed \subseteq Photos /\ run \in 0 .. MaxRuns
  /\ draft \in Projection /\ photos \in Projection
  /\ map \in Contents
  /\ req \in [Handlers -> [at : Places, does : {"read", "edit", "remove", "ingest"},
                           on : Photos \cup {Nobody}, loaded : 1 .. MaxVersions,
                           locks : BOOLEAN, saved : Projection,
                           sees : Contents, deletes : Contents, rows : Contents]]

Init ==
  /\ media = [p \in Photos |-> [ready |-> FALSE, gone |-> FALSE, version |-> 1]]
  /\ placed = {} /\ run = 0
  /\ draft = Missing /\ photos = Missing
  /\ map = {}
  /\ req = [h \in Handlers |-> Free]

Begin(h, r) == req[h] = Free /\ req' = [req EXCEPT ![h] = r]
Abandon(h) == req' = [req EXCEPT ![h] = Free]

\* From the flush of a photo to the end of the transaction its row is locked.
Flushed(g) == req[g].at \in {"deleting", "inserting", "committing"}
RowFree(h, p) == \A g \in Handlers \ {h} : req[g].on = p => ~ Flushed(g)

LockNotAsked(h) == TRUE
LockFree(h) == \A g \in Handlers \ {h} : ~ req[g].locks

\* What the story and the map show of the rows M of media_items.
Shown(M, X) == {<<p, M[p].version>> : p \in {q \in X : M[q].ready /\ ~ M[q].gone}}
\* What an ingest and an edit write in the row of their photo.
Processed(row) == [row EXCEPT !.ready = TRUE]
Edited(row, does) == [row EXCEPT !.gone = @ \/ does = "remove", !.version = @ + 1]
\* The rows as the transaction of h sees them, with what it has flushed.
Own(h) ==
  [media EXCEPT ![req[h].on] =
     IF req[h].does = "ingest" THEN Processed(@) ELSE Edited(@, req[h].does)]
StoryOf(M) == Shown(M, placed)
MapOf(M) == Shown(M, Photos)

-----------------------------------------------------------------------------
(* Edits: apply_edit_operation, undo_latest_edit_operation, update_media.  *)

\* The photo is loaded, and not loaded again when the story is read.
Edit(h, p, does) ==
  /\ ~ media[p].gone
  /\ Begin(h, [Free EXCEPT !.at = "edited", !.does = does, !.on = p,
                          !.loaded = media[p].version])
  /\ UNCHANGED <<media, placed, run, draft, photos, map>>

\* The flush, invalidate_story_draft_projection and rebuild_story_projections;
\* the delete of the points starts.
RebuildStory(h) ==
  /\ req[h].at = "edited" /\ RowFree(h, req[h].on) /\ LockFree(h)
  /\ media[req[h].on].version < MaxVersions
  /\ req' = [req EXCEPT ![h] = [@ EXCEPT
       !.at = "deleting", !.locks = TRUE, !.sees = map,
       !.saved = IF run = 0 THEN Missing
                 ELSE [run |-> run, shows |-> StoryOf(Own(h)),
                       late |-> media[req[h].on].version # req[h].loaded]]]
  /\ UNCHANGED <<media, placed, run, draft, photos, map>>

-----------------------------------------------------------------------------
(* Ingest: ingest_media from the flush of the photo to its last commit.    *)

Ingest(h, p) ==
  /\ ~ media[p].ready
  /\ RowFree(h, p)
  /\ Begin(h, [Free EXCEPT !.at = "deleting", !.does = "ingest", !.on = p, !.sees = map])
  /\ UNCHANGED <<media, placed, run, draft, photos, map>>

-----------------------------------------------------------------------------
(* rebuild_trip_map_point_projection and the commit of its transaction.    *)

\* The delete waits for whoever deletes a row it sees, and passes over the rows
\* that are gone then; what they inserted it does not see.  The select does.
DeletePoints(h) ==
  /\ req[h].at = "deleting"
  /\ \A g \in Handlers \ {h} : req[g].deletes \cap req[h].sees = {}
  /\ req' = [req EXCEPT ![h].at = "inserting", ![h].deletes = req[h].sees,
                        ![h].sees = {}, ![h].rows = MapOf(Own(h))]
  /\ UNCHANGED <<media, placed, run, draft, photos, map>>

SamePhoto(R, S) == \E r \in R, s \in S : r[1] = s[1]
NeverRefused(h) == FALSE
Refused(h) == SamePhoto(map \ req[h].deletes, req[h].rows)

\* An insert waits for the one that inserts the same photo, and is refused if
\* that one is committed: the request is rolled back, or the ingest fails.
InsertPoints(h) ==
  /\ req[h].at = "inserting"
  /\ \A g \in Handlers \ {h} :
       req[g].at = "committing" => ~ SamePhoto(req[g].rows, req[h].rows)
  /\ IF Refused(h) THEN Abandon(h) ELSE req' = [req EXCEPT ![h].at = "committing"]
  /\ UNCHANGED <<media, placed, run, draft, photos, map>>

\* Requests that have read photos, and have neither saved them nor the lock.
Unsaved(g) == req[g].at \in {"answered", "ran", "built"}
AfterCommit(h) ==
  [g \in Handlers |->
     IF g = h THEN Free
     ELSE [req[g] EXCEPT !.sees = @ \ req[h].deletes,
                         !.saved.late = @ \/ (Unsaved(g) /\ req[h].locks)]]
Commit(h) ==
  /\ req[h].at = "committing"
  /\ media' = Own(h)
  /\ map' = (map \ req[h].deletes) \cup req[h].rows
  /\ IF req[h].locks THEN draft' = req[h].saved /\ photos' = req[h].saved
     ELSE UNCHANGED <<draft, photos>>
  /\ req' = AfterCommit(h)
  /\ UNCHANGED <<placed, run>>

-----------------------------------------------------------------------------
(* Reconstruction: by the worker, which leaves the projections alone, and  *)
(* on request: start_reconstruction.                                       *)

Located == {p \in Photos : media[p].ready /\ ~ media[p].gone}

RunStory ==
  /\ run < MaxRuns /\ Located # {}
  /\ run' = run + 1 /\ placed' = Located
  /\ UNCHANGED <<media, draft, photos, map, req>>

\* The commit at the end of reconstruct_trip gives the lock back.
RunOnRequest(h) ==
  /\ run < MaxRuns /\ Located # {} /\ LockFree(h)
  /\ Begin(h, [Free EXCEPT !.at = "ran"])
  /\ run' = run + 1 /\ placed' = Located
  /\ draft' = Missing /\ photos' = Missing
  /\ UNCHANGED <<media, map>>

Answer(h) ==
  /\ req[h].at = "ran"
  /\ req' = [req EXCEPT ![h].at = "built",
                        ![h].saved = [@ EXCEPT !.run = run, !.shows = StoryOf(media)]]
  /\ UNCHANGED <<media, placed, run, draft, photos, map>>

SaveAnswer(h) ==
  /\ req[h].at = "built" /\ LockFree(h)
  /\ draft' = req[h].saved /\ photos' = req[h].saved
  /\ Abandon(h)
  /\ UNCHANGED <<media, placed, run, map>>

-----------------------------------------------------------------------------
(* Readers, who save what is missing: story_draft_projection_response,     *)
(* get_story_day_photos and get_story_stop_photos.                         *)

OfLatestRun(x) == x.run = run

Take(h, place, shows) ==
  req' = [req EXCEPT ![h] = [@ EXCEPT !.at = place, !.locks = TRUE,
                               !.saved = [run |-> run, shows |-> shows, late |-> FALSE]]]

AskDraft(h) ==
  /\ req[h] = Free /\ run > 0 /\ LockFree(h)
  /\ ~ OfLatestRun(draft)
  /\ Take(h, "asked draft", {})
  /\ UNCHANGED <<media, placed, run, draft, photos, map>>

\* Photos are taken from the draft, if there is one.
AskPhotos(h) ==
  /\ req[h] = Free /\ run > 0 /\ LockFree(h)
  /\ ~ OfLatestRun(photos)
  /\ IF OfLatestRun(draft)
       THEN req' = [req EXCEPT ![h] = [@ EXCEPT !.at = "copying", !.locks = TRUE,
                                                !.saved = draft]]
       ELSE Take(h, "asked photos", {})
  /\ UNCHANGED <<media, placed, run, draft, photos, map>>

\* A draft that is made is committed at once, which gives the lock back while
\* the photos are still to be saved.
SaveDraft(h) ==
  /\ req[h].at \in {"asked draft", "asked photos"}
  /\ LET made == [req[h].saved EXCEPT !.shows = StoryOf(media)] IN
     /\ draft' = made
     /\ IF req[h].at = "asked draft" THEN Abandon(h)
        ELSE req' = [req EXCEPT ![h] = [@ EXCEPT !.at = "answered", !.locks = FALSE,
                                                 !.saved = made]]
  /\ UNCHANGED <<media, placed, run, photos, map>>

SavePhotos(h) ==
  /\ req[h].at \in {"copying", "answered"} /\ LockFree(h)
  /\ photos' = req[h].saved
  /\ Abandon(h)
  /\ UNCHANGED <<media, placed, run, draft, map>>

\* An error or a lost connection rolls a request back.
Abort(h) ==
  /\ req[h] # Free /\ Abandon(h)
  /\ UNCHANGED <<media, placed, run, draft, photos, map>>

Next ==
  \/ RunStory
  \/ \E h \in Handlers :
       \/ \E p \in Photos : Edit(h, p, "edit") \/ Edit(h, p, "remove") \/ Ingest(h, p)
       \/ RebuildStory(h) \/ DeletePoints(h) \/ InsertPoints(h) \/ Commit(h)
       \/ RunOnRequest(h) \/ Answer(h) \/ SaveAnswer(h)
       \/ AskDraft(h) \/ AskPhotos(h) \/ SaveDraft(h) \/ SavePhotos(h)
       \/ Abort(h)

Spec == Init /\ [][Next]_vars

-----------------------------------------------------------------------------
(* Properties.                                                             *)

\* A projection that is answered shows the story as it is, whatever edits,
\* runs and readers overlap, unless an edit was committed while a request held
\* photos that it had read without the advisory lock.
ProjectionsShowTheStory ==
  \A x \in {draft, photos} : x.run = run /\ ~ x.late => x.shows = StoryOf(media)

\* The map shows every photo once and as it is, whatever edits and ingests
\* overlap.  It may show deleted photos too: an ingest that read a photo before
\* it was deleted puts it back.
MapShowsThePhotos ==
  \A p \in Photos : media[p].ready /\ ~ media[p].gone =>
    {r \in map : r[1] = p} = {<<p, media[p].version>>}
================================================================================
