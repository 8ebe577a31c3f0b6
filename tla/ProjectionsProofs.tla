--------------------------- MODULE ProjectionsProofs ---------------------------
(***************************************************************************)
(* What Projections promises, proved for any number of photos, handlers,   *)
(* versions and runs: first the types, with what a request holds where;    *)
(* then that a projection shows the story, whose writers the advisory lock *)
(* keeps apart; then that the map shows the photos, whose writers only the *)
(* unique constraint does.                                                 *)
(***************************************************************************)
EXTENDS Projections, TLAPS

\* Bounds are natural numbers, and the name of no photo is not a photo.
Bounds == MaxVersions \in Nat \ {0} /\ MaxRuns \in Nat /\ Nobody \notin Photos

-----------------------------------------------------------------------------
(* Types.                                                                  *)

MediaRow == [ready : BOOLEAN, gone : BOOLEAN, version : 1 .. MaxVersions]
Requests ==
  [at : Places, does : {"read", "edit", "remove", "ingest"},
   on : Photos \cup {Nobody}, loaded : 1 .. MaxVersions,
   locks : BOOLEAN, saved : Projection,
   sees : Contents, deletes : Contents, rows : Contents]

\* What a request is about, and whether it has the lock of the trip, by the
\* place it has reached.
Reads(h) == req[h].at \in {"asked draft", "asked photos", "copying"}
Shape(h) ==
  /\ req[h].at = "edited" => req[h].on \in Photos /\ req[h].does \in {"edit", "remove"}
  /\ Flushed(h) => req[h].on \in Photos /\ req[h].does \in {"edit", "remove", "ingest"}
  /\ Flushed(h) => (req[h].locks <=> req[h].does # "ingest")
  /\ ~ Flushed(h) => (req[h].locks <=> Reads(h))

\* The row of a photo is locked by one request at most, and is what the request
\* has found: not yet READY for an ingest, with a version to come for an edit.
RowsApart ==
  /\ \A g, h \in Handlers : Flushed(g) /\ Flushed(h) /\ req[g].on = req[h].on => g = h
  /\ \A h \in Handlers : Flushed(h) =>
       IF req[h].does = "ingest" THEN ~ media[req[h].on].ready
       ELSE media[req[h].on].version < MaxVersions

Typed == TypeOK /\ RowsApart /\ \A h \in Handlers : Shape(h)

LEMMA ShownTypes ==
  ASSUME NEW M \in [Photos -> MediaRow], NEW X \in SUBSET Photos
  PROVE  Shown(M, X) \in Contents
BY DEF Shown, MediaRow, Contents

LEMMA FreeTypes ==
  ASSUME Bounds
  PROVE  Missing \in Projection /\ Free \in Requests /\ Free.at = "idle" /\ ~ Free.locks
BY DEF Bounds, Missing, Projection, Free, Requests, Places, Contents

\* The rows as a transaction sees them: only the photo it has flushed differs.
LEMMA OwnRows ==
  ASSUME Bounds, Typed, NEW h \in Handlers,
         \/ Flushed(h)
         \/ req[h].at = "edited" /\ media[req[h].on].version < MaxVersions
  PROVE  /\ req[h].on \in Photos
         /\ Own(h) \in [Photos -> MediaRow]
         /\ \A q \in Photos \ {req[h].on} : Own(h)[q] = media[q]
         /\ Own(h)[req[h].on].version >= media[req[h].on].version
         /\ Own(h)[req[h].on].ready <=> media[req[h].on].ready \/ req[h].does = "ingest"
         /\ req[h].does = "ingest" => Own(h)[req[h].on].version = media[req[h].on].version
         /\ req[h].does # "ingest" => Own(h)[req[h].on].version = media[req[h].on].version + 1
<1> DEFINE p == req[h].on
<1>1. p \in Photos /\ media \in [Photos -> MediaRow]
  BY DEF Typed, Shape, TypeOK, MediaRow
<1>2. media[p].version \in Nat
      /\ (req[h].does # "ingest" => media[p].version + 1 \in 1 .. MaxVersions)
  BY <1>1 DEF Typed, RowsApart, Shape, MediaRow, Bounds
<1>3. media[p] \in MediaRow
  BY <1>1
<1> DEFINE row == IF req[h].does = "ingest" THEN Processed(media[p])
                  ELSE Edited(media[p], req[h].does)
<1>4. Own(h) = [media EXCEPT ![p] = row]
  BY <1>1 DEF Own
<1>5. row \in MediaRow
  BY <1>2, <1>3 DEF MediaRow, Processed, Edited
<1>6. /\ row.ready <=> media[p].ready \/ req[h].does = "ingest"
      /\ req[h].does = "ingest" => row.version = media[p].version
      /\ req[h].does # "ingest" => row.version = media[p].version + 1
  BY <1>3 DEF MediaRow, Processed, Edited
<1> HIDE DEF row
<1>7. /\ Own(h) \in [Photos -> MediaRow]
      /\ \A q \in Photos \ {p} : Own(h)[q] = media[q]
      /\ Own(h)[p] = row
  BY <1>1, <1>4, <1>5
<1> QED BY <1>1, <1>2, <1>6, <1>7

\* A request moves alone, but for the commit of another.
MovesAlone(h) ==
  /\ req' \in [Handlers -> Requests]
  /\ \A g \in Handlers \ {h} : req'[g] = req[g]

LEMMA Moved ==
  ASSUME Typed, NEW h \in Handlers, NEW r \in Requests, req' = [req EXCEPT ![h] = r]
  PROVE  MovesAlone(h) /\ req'[h] = r
BY DEF Typed, TypeOK, Requests, MovesAlone

\* What each step writes to the request.
LEMMA AbandonWrites ==
  ASSUME Bounds, Typed, NEW h \in Handlers, Abandon(h)
  PROVE  MovesAlone(h) /\ req'[h] = Free
BY FreeTypes, Moved DEF Abandon

LEMMA EditWrites ==
  ASSUME Bounds, Typed, NEW h \in Handlers, NEW p \in Photos,
         NEW does \in {"edit", "remove"}, Edit(h, p, does)
  PROVE  /\ MovesAlone(h) /\ req[h] = Free
         /\ req'[h].at = "edited" /\ req'[h].does = does /\ req'[h].on = p
         /\ ~ req'[h].locks /\ req'[h].saved = Missing /\ req'[h].deletes = {}
<1> DEFINE r == [Free EXCEPT !.at = "edited", !.does = does, !.on = p,
                             !.loaded = media[p].version]
<1>1. req[h] = Free /\ req' = [req EXCEPT ![h] = r]
  BY DEF Edit, Begin
<1>2. media[p].version \in 1 .. MaxVersions
  BY DEF Typed, TypeOK
<1>3. r \in Requests
  BY <1>2, FreeTypes DEF Requests, Places
<1>4. r.at = "edited" /\ r.does = does /\ r.on = p /\ ~ r.locks /\ r.saved = Missing
      /\ r.deletes = {}
  BY DEF Free
<1> HIDE DEF r
<1> QED BY <1>1, <1>3, <1>4, Moved

LEMMA IngestWrites ==
  ASSUME Bounds, Typed, NEW h \in Handlers, NEW p \in Photos, Ingest(h, p)
  PROVE  /\ MovesAlone(h) /\ req[h] = Free
         /\ req'[h].at = "deleting" /\ req'[h].does = "ingest" /\ req'[h].on = p
         /\ ~ req'[h].locks /\ req'[h].saved = Missing
         /\ req'[h].sees = map /\ req'[h].deletes = {}
<1> DEFINE r == [Free EXCEPT !.at = "deleting", !.does = "ingest", !.on = p, !.sees = map]
<1>1. req[h] = Free /\ req' = [req EXCEPT ![h] = r]
  BY DEF Ingest, Begin
<1>2. map \in Contents
  BY DEF Typed, TypeOK
<1>3. r \in Requests
  BY <1>2, FreeTypes DEF Requests, Places
<1>4. r.at = "deleting" /\ r.does = "ingest" /\ r.on = p /\ ~ r.locks
      /\ r.saved = Missing /\ r.sees = map /\ r.deletes = {}
  BY DEF Free
<1> HIDE DEF r
<1> QED BY <1>1, <1>3, <1>4, Moved

LEMMA RebuildStoryWrites ==
  ASSUME Bounds, Typed, NEW h \in Handlers, RebuildStory(h)
  PROVE  /\ MovesAlone(h) /\ req[h].at = "edited"
         /\ req'[h].at = "deleting" /\ req'[h].does = req[h].does
         /\ req'[h].on = req[h].on /\ req'[h].locks
         /\ req'[h].sees = map /\ req'[h].deletes = req[h].deletes
         /\ IF run = 0 THEN req'[h].saved = Missing
            ELSE req'[h].saved.run = run /\ req'[h].saved.shows = StoryOf(Own(h))
<1> DEFINE saved == IF run = 0 THEN Missing
                    ELSE [run |-> run, shows |-> StoryOf(Own(h)),
                          late |-> media[req[h].on].version # req[h].loaded]
           r == [req[h] EXCEPT !.at = "deleting", !.locks = TRUE, !.sees = map,
                               !.saved = saved]
<1>1. req[h] \in Requests /\ map \in Contents /\ run \in 0 .. MaxRuns
      /\ placed \in SUBSET Photos
  BY DEF Typed, TypeOK, Requests
<1>2. req[h].at = "edited" /\ req' = [req EXCEPT ![h] = r]
  BY DEF RebuildStory
<1>3. Own(h) \in [Photos -> MediaRow]
  BY OwnRows DEF RebuildStory
<1>4. StoryOf(Own(h)) \in Contents
  BY <1>1, <1>3, ShownTypes DEF StoryOf
<1>5. saved \in Projection
  BY <1>1, <1>4, FreeTypes DEF Projection
<1>6. IF run = 0 THEN saved = Missing
      ELSE saved.run = run /\ saved.shows = StoryOf(Own(h))
  OBVIOUS
<1> HIDE DEF saved
<1>7. r \in Requests
  BY <1>1, <1>5 DEF Requests, Places
<1>8. /\ r.at = "deleting" /\ r.does = req[h].does /\ r.on = req[h].on /\ r.locks
      /\ r.sees = map /\ r.deletes = req[h].deletes /\ r.saved = saved
  BY <1>1 DEF Requests
<1> HIDE DEF r
<1> QED BY <1>2, <1>6, <1>7, <1>8, Moved

LEMMA DeletePointsWrites ==
  ASSUME Bounds, Typed, NEW h \in Handlers, DeletePoints(h)
  PROVE  /\ MovesAlone(h) /\ req[h].at = "deleting"
         /\ req'[h].at = "inserting" /\ req'[h].does = req[h].does
         /\ req'[h].on = req[h].on /\ req'[h].locks = req[h].locks
         /\ req'[h].saved = req[h].saved
         /\ req'[h].deletes = req[h].sees /\ req'[h].rows = MapOf(Own(h))
<1> DEFINE r == [req[h] EXCEPT !.at = "inserting", !.deletes = req[h].sees,
                               !.sees = {}, !.rows = MapOf(Own(h))]
<1>1. req[h] \in Requests /\ req \in [Handlers -> Requests]
  BY DEF Typed, TypeOK, Requests
<1>2. req[h].at = "deleting" /\ req' = [req EXCEPT ![h] = r]
  BY <1>1 DEF DeletePoints
<1>3. MapOf(Own(h)) \in Contents
  BY <1>2, OwnRows, ShownTypes DEF MapOf, Flushed
<1>4. r \in Requests
  BY <1>1, <1>3 DEF Requests, Places, Contents
<1>5. /\ r.at = "inserting" /\ r.does = req[h].does /\ r.on = req[h].on
      /\ r.locks = req[h].locks /\ r.saved = req[h].saved
      /\ r.deletes = req[h].sees /\ r.rows = MapOf(Own(h))
  BY <1>1 DEF Requests
<1> HIDE DEF r
<1> QED BY <1>2, <1>4, <1>5, Moved

LEMMA InsertPointsWrites ==
  ASSUME Bounds, Typed, NEW h \in Handlers, InsertPoints(h), ~ Refused(h)
  PROVE  /\ MovesAlone(h) /\ req[h].at = "inserting"
         /\ req'[h].at = "committing" /\ req'[h].does = req[h].does
         /\ req'[h].on = req[h].on /\ req'[h].locks = req[h].locks
         /\ req'[h].saved = req[h].saved
         /\ req'[h].deletes = req[h].deletes /\ req'[h].rows = req[h].rows
<1> DEFINE r == [req[h] EXCEPT !.at = "committing"]
<1>1. req[h] \in Requests /\ req \in [Handlers -> Requests]
  BY DEF Typed, TypeOK, Requests
<1>2. req[h].at = "inserting" /\ req' = [req EXCEPT ![h] = r]
  BY <1>1 DEF InsertPoints
<1>3. r \in Requests
  BY <1>1 DEF Requests, Places
<1>4. /\ r.at = "committing" /\ r.does = req[h].does /\ r.on = req[h].on
      /\ r.locks = req[h].locks /\ r.saved = req[h].saved
      /\ r.deletes = req[h].deletes /\ r.rows = req[h].rows
  BY <1>1 DEF Requests
<1> HIDE DEF r
<1> QED BY <1>2, <1>3, <1>4, Moved

LEMMA RunOnRequestWrites ==
  ASSUME Bounds, Typed, NEW h \in Handlers, RunOnRequest(h)
  PROVE  /\ MovesAlone(h) /\ req[h] = Free
         /\ req'[h].at = "ran" /\ ~ req'[h].locks /\ req'[h].saved = Missing
         /\ req'[h].deletes = {}
<1> DEFINE r == [Free EXCEPT !.at = "ran"]
<1>1. req[h] = Free /\ req' = [req EXCEPT ![h] = r]
  BY DEF RunOnRequest, Begin
<1>2. r \in Requests
  BY FreeTypes DEF Requests, Places
<1>3. r.at = "ran" /\ ~ r.locks /\ r.saved = Missing /\ r.deletes = {}
  BY DEF Free
<1> HIDE DEF r
<1> QED BY <1>1, <1>2, <1>3, Moved

LEMMA AnswerWrites ==
  ASSUME Bounds, Typed, NEW h \in Handlers, Answer(h)
  PROVE  /\ MovesAlone(h) /\ req[h].at = "ran"
         /\ req'[h].at = "built" /\ req'[h].locks = req[h].locks
         /\ req'[h].deletes = req[h].deletes
         /\ req'[h].saved.run = run /\ req'[h].saved.shows = StoryOf(media)
<1> DEFINE saved == [req[h].saved EXCEPT !.run = run, !.shows = StoryOf(media)]
           r == [req[h] EXCEPT !.at = "built", !.saved = saved]
<1>1. req[h] \in Requests /\ req \in [Handlers -> Requests]
      /\ req[h].saved \in Projection /\ run \in 0 .. MaxRuns
  BY DEF Typed, TypeOK, Requests
<1>2. req[h].at = "ran" /\ req' = [req EXCEPT ![h] = r]
  BY <1>1 DEF Answer
<1>3. StoryOf(media) \in Contents
  BY ShownTypes DEF StoryOf, Typed, TypeOK, MediaRow
<1>4. saved \in Projection /\ saved.run = run /\ saved.shows = StoryOf(media)
  BY <1>1, <1>3 DEF Projection
<1> HIDE DEF saved
<1>5. r \in Requests
  BY <1>1, <1>4 DEF Requests, Places
<1>6. r.at = "built" /\ r.locks = req[h].locks /\ r.deletes = req[h].deletes
      /\ r.saved = saved
  BY <1>1 DEF Requests
<1> HIDE DEF r
<1> QED BY <1>2, <1>4, <1>5, <1>6, Moved

\* What AskDraft and AskPhotos write, the copy of a draft included.
LEMMA AskWrites ==
  ASSUME Bounds, Typed, NEW h \in Handlers, req[h] = Free,
         NEW place \in {"asked draft", "asked photos", "copying"}, NEW x \in Projection,
         req' = [req EXCEPT ![h] = [@ EXCEPT !.at = place, !.locks = TRUE, !.saved = x]]
  PROVE  /\ MovesAlone(h)
         /\ req'[h].at = place /\ req'[h].locks /\ req'[h].saved = x
         /\ req'[h].deletes = {}
<1> DEFINE r == [Free EXCEPT !.at = place, !.locks = TRUE, !.saved = x]
<1>1. req' = [req EXCEPT ![h] = r]
  BY DEF Typed, TypeOK
<1>2. r \in Requests
  BY FreeTypes DEF Requests, Places
<1>3. r.at = place /\ r.locks /\ r.saved = x /\ r.deletes = {}
  BY DEF Free
<1> HIDE DEF r
<1> QED BY <1>1, <1>2, <1>3, Moved

LEMMA AskDraftWrites ==
  ASSUME Bounds, Typed, NEW h \in Handlers, AskDraft(h)
  PROVE  /\ MovesAlone(h) /\ req[h] = Free
         /\ req'[h].at = "asked draft" /\ req'[h].locks
         /\ req'[h].saved.run = run /\ ~ req'[h].saved.late
         /\ req'[h].deletes = {}
<1> DEFINE x == [run |-> run, shows |-> {}, late |-> FALSE]
<1>1. x \in Projection /\ x.run = run /\ ~ x.late
  BY DEF Typed, TypeOK, Projection, Contents
<1> HIDE DEF x
<1> QED BY <1>1, AskWrites DEF AskDraft, Take, x

LEMMA AskPhotosWrites ==
  ASSUME Bounds, Typed, NEW h \in Handlers, AskPhotos(h)
  PROVE  /\ MovesAlone(h) /\ req[h] = Free
         /\ req'[h].locks /\ req'[h].deletes = {}
         /\ \/ req'[h].at = "asked photos"
               /\ req'[h].saved.run = run /\ ~ req'[h].saved.late
            \/ req'[h].at = "copying" /\ req'[h].saved = draft
<1> DEFINE x == [run |-> run, shows |-> {}, late |-> FALSE]
<1>1. x \in Projection /\ x.run = run /\ ~ x.late
  BY DEF Typed, TypeOK, Projection, Contents
<1>2. draft \in Projection
  BY DEF Typed, TypeOK
<1> HIDE DEF x
<1>3. CASE OfLatestRun(draft)
  BY <1>2, <1>3, AskWrites DEF AskPhotos
<1>4. CASE ~ OfLatestRun(draft)
  BY <1>1, <1>4, AskWrites DEF AskPhotos, Take, x
<1> QED BY <1>3, <1>4

LEMMA SaveDraftWrites ==
  ASSUME Bounds, Typed, NEW h \in Handlers, SaveDraft(h)
  PROVE  /\ MovesAlone(h)
         /\ req[h].at \in {"asked draft", "asked photos"}
         /\ draft' \in Projection /\ draft'.run = req[h].saved.run
         /\ draft'.shows = StoryOf(media) /\ draft'.late = req[h].saved.late
         /\ \/ req'[h] = Free
            \/ /\ req'[h].at = "answered" /\ ~ req'[h].locks
               /\ req'[h].saved = draft' /\ req'[h].deletes = req[h].deletes
<1> DEFINE made == [req[h].saved EXCEPT !.shows = StoryOf(media)]
           r == [req[h] EXCEPT !.at = "answered", !.locks = FALSE, !.saved = made]
<1>1. req[h] \in Requests /\ req \in [Handlers -> Requests]
      /\ req[h].saved \in Projection
  BY DEF Typed, TypeOK, Requests
<1>2. StoryOf(media) \in Contents
  BY ShownTypes DEF StoryOf, Typed, TypeOK, MediaRow
<1>3. /\ made \in Projection /\ made.run = req[h].saved.run
      /\ made.shows = StoryOf(media) /\ made.late = req[h].saved.late
  BY <1>1, <1>2 DEF Projection
<1>4. /\ req[h].at \in {"asked draft", "asked photos"} /\ draft' = made
      /\ Abandon(h) \/ req' = [req EXCEPT ![h] = r]
  BY <1>1 DEF SaveDraft
<1> HIDE DEF made
<1>5. r \in Requests
  BY <1>1, <1>3 DEF Requests, Places
<1>6. r.at = "answered" /\ ~ r.locks /\ r.saved = made /\ r.deletes = req[h].deletes
  BY <1>1 DEF Requests
<1> HIDE DEF r
<1> QED BY <1>3, <1>4, <1>5, <1>6, Moved, AbandonWrites

\* The commit of another: nothing of a request changes but what it sees of the
\* map, and that what it holds may be late.
Keeps(g) ==
  /\ req'[g].at = req[g].at /\ req'[g].does = req[g].does /\ req'[g].on = req[g].on
  /\ req'[g].locks = req[g].locks
  /\ req'[g].deletes = req[g].deletes /\ req'[g].rows = req[g].rows
  /\ req'[g].saved.run = req[g].saved.run /\ req'[g].saved.shows = req[g].saved.shows

LEMMA CommitWrites ==
  ASSUME Bounds, Typed, NEW h \in Handlers, Commit(h)
  PROVE  /\ req[h].at = "committing" /\ req' \in [Handlers -> Requests] /\ req'[h] = Free
         /\ \A g \in Handlers \ {h} :
              /\ Keeps(g)
              /\ req'[g].sees = req[g].sees \ req[h].deletes
              /\ req'[g].saved.late <=> req[g].saved.late \/ (Unsaved(g) /\ req[h].locks)
<1>1. req \in [Handlers -> Requests] /\ \A g \in Handlers : req[g] \in Requests
  BY DEF Typed, TypeOK, Requests
<1>2. req[h].at = "committing" /\ req' = AfterCommit(h)
  BY DEF Commit
<1>3. req'[h] = Free
  BY <1>2 DEF AfterCommit
<1>4. ASSUME NEW g \in Handlers \ {h}
      PROVE  /\ req'[g] \in Requests /\ Keeps(g)
             /\ req'[g].sees = req[g].sees \ req[h].deletes
             /\ req'[g].saved.late <=> req[g].saved.late \/ (Unsaved(g) /\ req[h].locks)
  <2> DEFINE r == [req[g] EXCEPT !.sees = @ \ req[h].deletes,
                                 !.saved.late = @ \/ (Unsaved(g) /\ req[h].locks)]
  <2>1. req'[g] = r
    BY <1>2 DEF AfterCommit
  <2>2. req[g] \in Requests /\ req[g].saved \in Projection
    BY <1>1 DEF Requests
  <2>3. r \in Requests
    BY <2>2 DEF Requests, Projection, Contents
  <2>4. /\ r.at = req[g].at /\ r.does = req[g].does /\ r.on = req[g].on
        /\ r.locks = req[g].locks /\ r.deletes = req[g].deletes /\ r.rows = req[g].rows
        /\ r.sees = req[g].sees \ req[h].deletes
        /\ r.saved.run = req[g].saved.run /\ r.saved.shows = req[g].saved.shows
        /\ r.saved.late <=> req[g].saved.late \/ (Unsaved(g) /\ req[h].locks)
    BY <2>2 DEF Requests, Projection
  <2> HIDE DEF r
  <2> QED BY <2>1, <2>3, <2>4 DEF Keeps
<1>5. req' \in [Handlers -> Requests]
  <2>1. \A g \in Handlers : req'[g] \in Requests
    BY <1>3, <1>4, FreeTypes
  <2> QED BY <1>2, <2>1 DEF AfterCommit
<1> QED BY <1>2, <1>3, <1>4, <1>5

\* A step of one request, short of a commit, keeps rows apart if the row that
\* this request has then flushed is free and as it should be.
LEMMA StaysTyped ==
  ASSUME Typed, NEW h \in Handlers, MovesAlone(h), media' = media, Shape(h)',
         Flushed(h)' =>
           /\ RowFree(h, req'[h].on)
           /\ IF req'[h].does = "ingest" THEN ~ media[req'[h].on].ready
              ELSE media[req'[h].on].version < MaxVersions
  PROVE  RowsApart' /\ \A g \in Handlers : Shape(g)'
<1>1. ASSUME NEW g \in Handlers \ {h}
      PROVE  (Shape(g)' <=> Shape(g)) /\ (Flushed(g)' <=> Flushed(g))
  <2>1. req'[g] = req[g]
    BY DEF MovesAlone
  <2> QED BY <2>1 DEF Shape, Flushed, Reads
<1>2. \A g \in Handlers : Shape(g)'
  BY <1>1 DEF Typed
<1>3. RowsApart'
  BY <1>1 DEF Typed, RowsApart, RowFree, MovesAlone
<1> QED BY <1>2, <1>3

\* A request that goes on with the row it has flushed.
LEMMA GoesOn ==
  ASSUME Typed, NEW h \in Handlers, Flushed(h)
  PROVE  /\ RowFree(h, req[h].on)
         /\ IF req[h].does = "ingest" THEN ~ media[req[h].on].ready
            ELSE media[req[h].on].version < MaxVersions
BY DEF Typed, RowsApart, RowFree

\* A request that ends, or that has not flushed a row, is no concern.
LEMMA EndsTyped ==
  ASSUME Bounds, Typed, NEW h \in Handlers, MovesAlone(h), media' = media, req'[h] = Free
  PROVE  RowsApart' /\ \A g \in Handlers : Shape(g)'
<1>1. Free.at = "idle" /\ ~ Free.locks
  BY FreeTypes
<1>2. Shape(h)' /\ ~ Flushed(h)'
  BY <1>1 DEF Shape, Flushed, Reads
<1> QED BY <1>2, StaysTyped

\* The types, and what each place says of a request, are kept by every step.
LEMMA TypedStep ==
  ASSUME Bounds, Typed, [Next]_vars
  PROVE  Typed'
<1>1. /\ media \in [Photos -> MediaRow] /\ placed \subseteq Photos /\ run \in 0 .. MaxRuns
      /\ draft \in Projection /\ photos \in Projection /\ map \in Contents
      /\ req \in [Handlers -> Requests]
      /\ \A h \in Handlers : req[h] \in Requests /\ req[h].saved \in Projection
  BY DEF Typed, TypeOK, MediaRow, Requests
<1> DEFINE Tables == /\ media' \in [Photos -> MediaRow] /\ placed' \subseteq Photos
                     /\ run' \in 0 .. MaxRuns
                     /\ draft' \in Projection /\ photos' \in Projection
                     /\ map' \in Contents
<1>2. SUFFICES Tables /\ req' \in [Handlers -> Requests]
               /\ RowsApart' /\ \A g \in Handlers : Shape(g)'
  BY DEF Typed, TypeOK, MediaRow, Requests
<1>3. CASE UNCHANGED vars
  BY <1>1, <1>3 DEF vars, Typed, RowsApart, Shape, Flushed, Reads
<1>4. CASE RunStory
  <2>1. Tables /\ req' = req /\ media' = media
    BY <1>1, <1>4 DEF RunStory, Located, Bounds
  <2>2. \A g \in Handlers : (Shape(g)' <=> Shape(g)) /\ (Flushed(g)' <=> Flushed(g))
    BY <2>1 DEF Shape, Flushed, Reads
  <2> QED BY <1>1, <2>1, <2>2 DEF Typed, RowsApart
<1>5. ASSUME NEW h \in Handlers, Abort(h) PROVE Tables /\ MovesAlone(h) /\ req'[h] = Free
  BY <1>1, <1>5, AbandonWrites DEF Abort
<1>6. ASSUME NEW h \in Handlers, NEW p \in Photos, NEW does \in {"edit", "remove"},
             Edit(h, p, does)
      PROVE  Tables /\ req' \in [Handlers -> Requests]
             /\ RowsApart' /\ \A g \in Handlers : Shape(g)'
  <2>1. MovesAlone(h) /\ req'[h].at = "edited" /\ req'[h].does = does /\ req'[h].on = p
        /\ ~ req'[h].locks
    BY <1>6, EditWrites
  <2>2. Shape(h)' /\ ~ Flushed(h)'
    BY <2>1 DEF Shape, Flushed, Reads
  <2>3. Tables /\ media' = media
    BY <1>1, <1>6 DEF Edit
  <2> QED BY <2>1, <2>2, <2>3, StaysTyped DEF MovesAlone
<1>7. ASSUME NEW h \in Handlers, NEW p \in Photos, Ingest(h, p)
      PROVE  Tables /\ req' \in [Handlers -> Requests]
             /\ RowsApart' /\ \A g \in Handlers : Shape(g)'
  <2>1. MovesAlone(h) /\ req'[h].at = "deleting" /\ req'[h].does = "ingest"
        /\ req'[h].on = p /\ ~ req'[h].locks
    BY <1>7, IngestWrites
  <2>2. Shape(h)' /\ RowFree(h, p) /\ ~ media[p].ready
    BY <1>7, <2>1 DEF Shape, Flushed, Reads, Ingest
  <2>3. Tables /\ media' = media
    BY <1>1, <1>7 DEF Ingest
  <2> QED BY <2>1, <2>2, <2>3, StaysTyped DEF MovesAlone
<1>8. ASSUME NEW h \in Handlers, RebuildStory(h)
      PROVE  Tables /\ req' \in [Handlers -> Requests]
             /\ RowsApart' /\ \A g \in Handlers : Shape(g)'
  <2>1. MovesAlone(h) /\ req[h].at = "edited" /\ req'[h].at = "deleting"
        /\ req'[h].does = req[h].does /\ req'[h].on = req[h].on /\ req'[h].locks
    BY <1>8, RebuildStoryWrites
  <2>2. req[h].on \in Photos /\ req[h].does \in {"edit", "remove"}
    BY <2>1 DEF Typed, Shape
  <2>3. /\ Shape(h)' /\ RowFree(h, req[h].on)
        /\ media[req[h].on].version < MaxVersions
    BY <1>8, <2>1, <2>2 DEF Shape, Flushed, Reads, RebuildStory
  <2>4. Tables /\ media' = media
    BY <1>1, <1>8 DEF RebuildStory
  <2> QED BY <2>1, <2>2, <2>3, <2>4, StaysTyped DEF MovesAlone
<1>9. ASSUME NEW h \in Handlers, DeletePoints(h)
      PROVE  Tables /\ req' \in [Handlers -> Requests]
             /\ RowsApart' /\ \A g \in Handlers : Shape(g)'
  <2>1. MovesAlone(h) /\ req[h].at = "deleting" /\ req'[h].at = "inserting"
        /\ req'[h].does = req[h].does /\ req'[h].on = req[h].on
        /\ req'[h].locks = req[h].locks
    BY <1>9, DeletePointsWrites
  <2>2. Shape(h)' /\ Flushed(h)
    BY <2>1 DEF Typed, Shape, Flushed, Reads
  <2>3. Tables /\ media' = media
    BY <1>1, <1>9 DEF DeletePoints
  <2> QED BY <2>1, <2>2, <2>3, GoesOn, StaysTyped DEF MovesAlone
<1>10. ASSUME NEW h \in Handlers, InsertPoints(h)
       PROVE  Tables /\ req' \in [Handlers -> Requests]
              /\ RowsApart' /\ \A g \in Handlers : Shape(g)'
  <2>1. Tables /\ media' = media
    BY <1>1, <1>10 DEF InsertPoints
  <2>2. CASE Refused(h)
    BY <1>10, <2>1, <2>2, AbandonWrites, EndsTyped DEF InsertPoints, MovesAlone
  <2>3. CASE ~ Refused(h)
    <3>1. MovesAlone(h) /\ req[h].at = "inserting" /\ req'[h].at = "committing"
          /\ req'[h].does = req[h].does /\ req'[h].on = req[h].on
          /\ req'[h].locks = req[h].locks
      BY <1>10, <2>3, InsertPointsWrites
    <3>2. Shape(h)' /\ Flushed(h)
      BY <3>1 DEF Typed, Shape, Flushed, Reads
    <3> QED BY <2>1, <3>1, <3>2, GoesOn, StaysTyped DEF MovesAlone
  <2> QED BY <2>2, <2>3
<1>11. ASSUME NEW h \in Handlers, Commit(h)
       PROVE  Tables /\ req' \in [Handlers -> Requests]
              /\ RowsApart' /\ \A g \in Handlers : Shape(g)'
  <2>1. req[h].at = "committing" /\ req' \in [Handlers -> Requests] /\ req'[h] = Free
        /\ \A g \in Handlers \ {h} : Keeps(g)
    BY <1>11, CommitWrites
  <2>2. /\ req[h].on \in Photos /\ Own(h) \in [Photos -> MediaRow] /\ media' = Own(h)
        /\ \A q \in Photos \ {req[h].on} : media'[q] = media[q]
    BY <1>11, <2>1, OwnRows DEF Flushed, Commit
  <2>3. Tables
    BY <1>1, <1>11, <2>2 DEF Commit, Requests, Contents
  <2>4. Shape(h)' /\ ~ Flushed(h)'
    BY <2>1, FreeTypes DEF Shape, Flushed, Reads
  <2>5. \A g \in Handlers \ {h} : (Shape(g)' <=> Shape(g)) /\ (Flushed(g)' <=> Flushed(g))
    BY <2>1 DEF Keeps, Shape, Flushed, Reads
  <2>6. \A g \in Handlers : Shape(g)'
    BY <2>4, <2>5 DEF Typed
  <2>7. \A g \in Handlers \ {h} : Flushed(g) => req[g].on \in Photos /\ req[g].on # req[h].on
    BY <2>1 DEF Typed, RowsApart, Shape, Flushed
  <2>8. RowsApart'
    BY <2>1, <2>2, <2>4, <2>5, <2>7 DEF Typed, RowsApart, Keeps
  <2> QED BY <2>1, <2>3, <2>6, <2>8
<1>12. ASSUME NEW h \in Handlers, RunOnRequest(h)
       PROVE  Tables /\ req' \in [Handlers -> Requests]
              /\ RowsApart' /\ \A g \in Handlers : Shape(g)'
  <2>1. MovesAlone(h) /\ req'[h].at = "ran" /\ ~ req'[h].locks
    BY <1>12, RunOnRequestWrites
  <2>2. Shape(h)' /\ ~ Flushed(h)'
    BY <2>1 DEF Shape, Flushed, Reads
  <2>3. Tables /\ media' = media
    BY <1>1, <1>12, FreeTypes DEF RunOnRequest, Located, Bounds
  <2> QED BY <2>1, <2>2, <2>3, StaysTyped DEF MovesAlone
<1>13. ASSUME NEW h \in Handlers, Answer(h)
       PROVE  Tables /\ req' \in [Handlers -> Requests]
              /\ RowsApart' /\ \A g \in Handlers : Shape(g)'
  <2>1. MovesAlone(h) /\ req[h].at = "ran" /\ req'[h].at = "built"
        /\ req'[h].locks = req[h].locks
    BY <1>13, AnswerWrites
  <2>2. Shape(h)' /\ ~ Flushed(h)'
    BY <2>1 DEF Typed, Shape, Flushed, Reads
  <2>3. Tables /\ media' = media
    BY <1>1, <1>13 DEF Answer
  <2> QED BY <2>1, <2>2, <2>3, StaysTyped DEF MovesAlone
<1>14. ASSUME NEW h \in Handlers, SaveAnswer(h) PROVE Tables /\ MovesAlone(h) /\ req'[h] = Free
  BY <1>1, <1>14, AbandonWrites DEF SaveAnswer
<1>15. ASSUME NEW h \in Handlers, AskDraft(h) \/ AskPhotos(h)
       PROVE  Tables /\ req' \in [Handlers -> Requests]
              /\ RowsApart' /\ \A g \in Handlers : Shape(g)'
  <2>1. MovesAlone(h) /\ Reads(h)' /\ req'[h].locks
    BY <1>15, AskDraftWrites, AskPhotosWrites DEF Reads
  <2>2. Shape(h)' /\ ~ Flushed(h)'
    BY <2>1 DEF Shape, Flushed, Reads
  <2>3. Tables /\ media' = media
    BY <1>1, <1>15 DEF AskDraft, AskPhotos
  <2> QED BY <2>1, <2>2, <2>3, StaysTyped DEF MovesAlone
<1>16. ASSUME NEW h \in Handlers, SaveDraft(h)
       PROVE  Tables /\ req' \in [Handlers -> Requests]
              /\ RowsApart' /\ \A g \in Handlers : Shape(g)'
  <2>1. /\ MovesAlone(h) /\ draft' \in Projection
        /\ req'[h] = Free \/ (req'[h].at = "answered" /\ ~ req'[h].locks)
    BY <1>16, SaveDraftWrites
  <2>2. Shape(h)' /\ ~ Flushed(h)'
    BY <2>1, FreeTypes DEF Shape, Flushed, Reads
  <2>3. Tables /\ media' = media
    BY <1>1, <1>16, <2>1 DEF SaveDraft
  <2> QED BY <2>1, <2>2, <2>3, StaysTyped DEF MovesAlone
<1>17. ASSUME NEW h \in Handlers, SavePhotos(h) PROVE Tables /\ MovesAlone(h) /\ req'[h] = Free
  BY <1>1, <1>17, AbandonWrites DEF SavePhotos
<1>18. \A h \in Handlers : Abort(h) \/ SaveAnswer(h) \/ SavePhotos(h) => media' = media
  BY DEF Abort, SaveAnswer, SavePhotos
<1>19. ASSUME NEW h \in Handlers, Abort(h) \/ SaveAnswer(h) \/ SavePhotos(h)
       PROVE  Tables /\ req' \in [Handlers -> Requests]
              /\ RowsApart' /\ \A g \in Handlers : Shape(g)'
  BY <1>5, <1>14, <1>17, <1>18, <1>19, EndsTyped DEF MovesAlone
<1> QED BY <1>3, <1>4, <1>6, <1>7, <1>8, <1>9, <1>10, <1>11, <1>12, <1>13, <1>15, <1>16,
           <1>19 DEF Next

\* The first state is typed: every request is free.
LEMMA InitTyped ==
  ASSUME Bounds, Init
  PROVE  Typed
<1>1. \A h \in Handlers : req[h] = Free
  BY DEF Init
<1>2. Free.at = "idle" /\ ~ Free.locks /\ Free \in Requests /\ Missing \in Projection
  BY FreeTypes
<1>3. \A h \in Handlers : Shape(h) /\ ~ Flushed(h)
  BY <1>1, <1>2 DEF Shape, Flushed, Reads
<1>4. TypeOK
  BY <1>2 DEF Init, TypeOK, Bounds, Contents, Requests
<1> QED BY <1>3, <1>4 DEF Typed, RowsApart

\* Variables keep their types: in particular no version and no run passes its
\* bound, whatever requests overlap.
THEOREM TypeCorrect ==
  ASSUME Bounds
  PROVE  Spec => []TypeOK
<1>1. Init => Typed
  BY InitTyped
<1>2. Typed /\ [Next]_vars => Typed'
  BY TypedStep
<1> QED BY <1>1, <1>2, PTL DEF Spec, Typed

-----------------------------------------------------------------------------
(* The story.  Every projection is right about the rows of media_items: of *)
(* the table if it is saved, of the transaction if it is about to be.      *)

\* Only the placed photos matter to the story, and an ingest is of none of them.
PlacedReady == (\A p \in placed : media[p].ready) /\ (run = 0 => placed = {})
OneLock == \A g, h \in Handlers : req[g].locks /\ req[h].locks => g = h
RunsPast ==
  draft.run <= run /\ photos.run <= run /\ \A h \in Handlers : req[h].saved.run <= run
SavedShows(h) ==
  req[h].saved.run = run /\ ~ req[h].saved.late =>
    /\ Flushed(h) /\ req[h].locks => req[h].saved.shows = StoryOf(Own(h))
    /\ req[h].at \in {"copying", "answered", "built"} =>
         req[h].saved.shows = StoryOf(media)
Fits(x) == x.run = run /\ ~ x.late => x.shows = StoryOf(media)

StoryInv ==
  /\ PlacedReady /\ OneLock /\ RunsPast
  /\ \A h \in Handlers : SavedShows(h)
  /\ Fits(draft) /\ Fits(photos)

LEMMA ShownSame ==
  ASSUME NEW M, NEW N, NEW X, \A q \in X : M[q] = N[q]
  PROVE  Shown(M, X) = Shown(N, X)
BY DEF Shown

LEMMA MissingFits ==
  /\ Missing.run = 0 /\ Missing.shows = {} /\ Free.saved = Missing /\ ~ Free.locks
  /\ Free.at = "idle" /\ Free.deletes = {}
  /\ \A M : Shown(M, {}) = {}
BY DEF Missing, Free, Shown

LEMMA IngestSame ==
  ASSUME Bounds, Typed, PlacedReady, NEW h \in Handlers, Flushed(h), req[h].does = "ingest"
  PROVE  req[h].on \notin placed /\ StoryOf(Own(h)) = StoryOf(media)
<1>1. req[h].on \notin placed /\ placed \subseteq Photos
  BY DEF PlacedReady, Typed, RowsApart, TypeOK
<1>2. \A q \in placed : Own(h)[q] = media[q]
  BY <1>1, OwnRows
<1> QED BY <1>1, <1>2, ShownSame DEF StoryOf

\* What a transaction has flushed does not depend on other rows.
LEMMA OwnStays ==
  ASSUME Bounds, Typed, Typed', NEW g \in Handlers, Flushed(g), Flushed(g)',
         req'[g].on = req[g].on, req'[g].does = req[g].does,
         media'[req[g].on] = media[req[g].on]
  PROVE  /\ Own(g)'[req[g].on] = Own(g)[req[g].on]
         /\ \A q \in Photos \ {req[g].on} : Own(g)'[q] = media'[q] /\ Own(g)[q] = media[q]
<1>1. req[g].on \in Photos /\ media \in [Photos -> MediaRow] /\ media' \in [Photos -> MediaRow]
  BY DEF Typed, TypeOK, MediaRow, Shape
<1> QED BY <1>1 DEF Own

\* A step of one request that leaves photos, runs and placements alone.
LEMMA StoryStays ==
  ASSUME Bounds, Typed, StoryInv, NEW h \in Handlers, MovesAlone(h),
         media' = media, placed' = placed, run' = run,
         Fits(draft)' /\ draft'.run <= run, Fits(photos)' /\ photos'.run <= run,
         req'[h].saved.run <= run, req'[h].locks => req[h].locks \/ LockFree(h),
         SavedShows(h)'
  PROVE  StoryInv'
<1>1. \A g \in Handlers \ {h} : req'[g] = req[g]
  BY DEF MovesAlone
<1>2. PlacedReady'
  BY DEF StoryInv, PlacedReady
<1>3. OneLock'
  BY <1>1 DEF StoryInv, OneLock, LockFree
<1>4. RunsPast'
  BY <1>1 DEF StoryInv, RunsPast
<1>5. ASSUME NEW g \in Handlers \ {h} PROVE SavedShows(g)'
  <2>1. SavedShows(g) /\ req'[g] = req[g]
    BY <1>1 DEF StoryInv
  <2>2. StoryOf(media)' = StoryOf(media) /\ StoryOf(Own(g))' = StoryOf(Own(g))
    BY <2>1 DEF StoryOf, Own
  <2> QED BY <2>1, <2>2 DEF SavedShows, Flushed
<1> QED BY <1>2, <1>3, <1>4, <1>5 DEF StoryInv

LEMMA StoryEnds ==
  ASSUME Bounds, Typed, StoryInv, NEW h \in Handlers, MovesAlone(h), req'[h] = Free,
         media' = media, placed' = placed, run' = run,
         Fits(draft)' /\ draft'.run <= run, Fits(photos)' /\ photos'.run <= run
  PROVE  StoryInv'
<1>1. run \in Nat
  BY DEF Typed, TypeOK, Bounds
<1>2. SavedShows(h)' /\ req'[h].saved.run <= run /\ ~ req'[h].locks
  BY <1>1, MissingFits DEF SavedShows, Flushed
<1> QED BY <1>2, StoryStays

\* A run leaves all that was saved of the runs before it behind.
LEMMA RunsStory ==
  ASSUME Bounds, Typed, StoryInv, media' = media, run' = run + 1, placed' = Located,
         req' = req \/ \E h \in Handlers : RunOnRequest(h),
         draft' \in {draft, Missing}, photos' \in {photos, Missing}
  PROVE  StoryInv'
<1>1. run \in Nat /\ draft.run \in Nat /\ photos.run \in Nat
      /\ \A g \in Handlers : req[g].saved.run \in Nat
  BY DEF Typed, TypeOK, Bounds, Projection
<1>2. \A g \in Handlers :
        \/ req'[g] = req[g]
        \/ ~ req'[g].locks /\ req'[g].saved = Missing
  BY RunOnRequestWrites DEF MovesAlone
<1>3. \A g \in Handlers : req'[g].saved.run <= run
  BY <1>1, <1>2, MissingFits DEF StoryInv, RunsPast
<1>4. draft'.run <= run /\ photos'.run <= run
  BY <1>1, MissingFits DEF StoryInv, RunsPast
<1>5. \A g \in Handlers : req'[g].saved.run \in Nat
  BY <1>1, <1>2, MissingFits
<1>6. draft'.run \in Nat /\ photos'.run \in Nat
  BY <1>1, MissingFits
<1>7. RunsPast' /\ (\A g \in Handlers : SavedShows(g)') /\ Fits(draft)' /\ Fits(photos)'
  BY <1>1, <1>3, <1>4, <1>5, <1>6 DEF RunsPast, SavedShows, Fits
<1>8. PlacedReady'
  BY <1>1 DEF PlacedReady, Located
<1>9. OneLock'
  BY <1>2 DEF StoryInv, OneLock
<1> QED BY <1>7, <1>8, <1>9 DEF StoryInv

\* A commit: of an edit, which has the lock, or of an ingest, which is not of
\* the story.
LEMMA CommitStory ==
  ASSUME Bounds, Typed, Typed', StoryInv, NEW h \in Handlers, Commit(h)
  PROVE  StoryInv'
<1>1. /\ Flushed(h) /\ req'[h] = Free
      /\ \A g \in Handlers \ {h} :
           /\ Keeps(g)
           /\ req'[g].saved.late <=> req[g].saved.late \/ (Unsaved(g) /\ req[h].locks)
  BY CommitWrites DEF Flushed
<1>2. media' = Own(h) /\ placed' = placed /\ run' = run
  BY DEF Commit
<1>3. /\ req[h].on \in Photos
      /\ \A q \in Photos \ {req[h].on} : media'[q] = media[q]
      /\ media[req[h].on].ready => media'[req[h].on].ready
  BY <1>1, <1>2, OwnRows
<1>4. placed \subseteq Photos /\ run \in Nat /\ req[h].saved \in Projection
  BY DEF Typed, TypeOK, Bounds, Requests
<1>5. PlacedReady'
  BY <1>2, <1>3, <1>4 DEF StoryInv, PlacedReady
<1>6. OneLock'
  BY <1>1, MissingFits DEF StoryInv, OneLock, Keeps
<1>7. /\ IF req[h].locks THEN draft' = req[h].saved /\ photos' = req[h].saved
         ELSE draft' = draft /\ photos' = photos
      /\ ~ req[h].locks => req[h].does = "ingest"
  BY <1>1 DEF Commit, Typed, Shape
<1>8. RunsPast'
  <2>1. draft'.run <= run /\ photos'.run <= run
    BY <1>7 DEF StoryInv, RunsPast
  <2>2. \A g \in Handlers : req'[g].saved.run <= run
    BY <1>1, <1>4, MissingFits DEF StoryInv, RunsPast, Keeps
  <2> QED BY <1>2, <2>1, <2>2 DEF RunsPast
<1>9. StoryOf(media)' = StoryOf(Own(h))
  BY <1>2 DEF StoryOf
<1>10. CASE req[h].locks
  <2>1. SavedShows(h) /\ \A g \in Handlers \ {h} : ~ req[g].locks
    BY <1>10 DEF StoryInv, OneLock
  <2>2. Fits(draft)' /\ Fits(photos)'
    BY <1>1, <1>2, <1>7, <1>9, <1>10, <2>1 DEF Fits, SavedShows
  <2>3. ASSUME NEW g \in Handlers \ {h} PROVE SavedShows(g)'
    <3>1. ~ req'[g].locks /\ req'[g].at = req[g].at /\ req[g].at # "copying"
          /\ (Unsaved(g) => req'[g].saved.late)
      BY <1>1, <1>10, <2>1 DEF Keeps, Typed, Shape, Reads, Flushed
    <3> QED BY <3>1 DEF SavedShows, Unsaved
  <2>4. SavedShows(h)'
    BY <1>1, MissingFits DEF SavedShows, Flushed
  <2> QED BY <1>5, <1>6, <1>8, <2>2, <2>3, <2>4 DEF StoryInv
<1>11. CASE ~ req[h].locks
  <2>1. req[h].on \notin placed /\ StoryOf(media)' = StoryOf(media)
    BY <1>1, <1>7, <1>9, <1>11, IngestSame DEF StoryInv
  <2>2. Fits(draft)' /\ Fits(photos)'
    BY <1>2, <1>7, <1>11, <2>1 DEF StoryInv, Fits
  <2>3. ASSUME NEW g \in Handlers \ {h} PROVE SavedShows(g)'
    <3>1. Keeps(g) /\ SavedShows(g) /\ (req'[g].saved.late <=> req[g].saved.late)
          /\ (Flushed(g)' <=> Flushed(g))
      BY <1>1, <1>11 DEF StoryInv, Keeps, Flushed
    <3>2. CASE Flushed(g)
      <4>1. req[g].on # req[h].on /\ req[g].on \in Photos
        BY <1>1, <3>2 DEF Typed, RowsApart, Shape
      <4>2. media'[req[g].on] = media[req[g].on]
        BY <1>3, <4>1
      <4>3. \A q \in placed : Own(g)'[q] = Own(g)[q]
        BY <1>3, <1>4, <2>1, <3>1, <3>2, <4>2, OwnStays DEF Keeps
      <4>4. StoryOf(Own(g))' = StoryOf(Own(g))
        BY <1>2, <4>3, ShownSame DEF StoryOf
      <4> QED BY <1>2, <2>1, <3>1, <4>4 DEF SavedShows, Keeps
    <3>3. CASE ~ Flushed(g)
      BY <1>2, <2>1, <3>1, <3>3 DEF SavedShows, Keeps
    <3> QED BY <3>2, <3>3
  <2>4. SavedShows(h)'
    BY <1>1, MissingFits DEF SavedShows, Flushed
  <2> QED BY <1>5, <1>6, <1>8, <2>2, <2>3, <2>4 DEF StoryInv
<1> QED BY <1>10, <1>11

LEMMA StoryStep ==
  ASSUME Bounds, Typed, Typed', StoryInv, [Next]_vars
  PROVE  StoryInv'
<1>1. run \in Nat /\ StoryInv /\ Fits(draft) /\ Fits(photos)
      /\ draft.run <= run /\ photos.run <= run
      /\ \A h \in Handlers : SavedShows(h) /\ req[h].saved.run <= run
  BY DEF Typed, TypeOK, Bounds, StoryInv, RunsPast
<1>0. run <= run
  BY <1>1
<1> DEFINE Still == media' = media /\ placed' = placed /\ run' = run
<1>2. ASSUME Still, draft' = draft PROVE Fits(draft)' /\ draft'.run <= run
  BY <1>1, <1>2 DEF Fits, StoryOf
<1>3. ASSUME Still, photos' = photos PROVE Fits(photos)' /\ photos'.run <= run
  BY <1>1, <1>3 DEF Fits, StoryOf
<1>4. CASE UNCHANGED vars
  <2>1. \A h \in Handlers : (Flushed(h)' <=> Flushed(h))
          /\ StoryOf(Own(h))' = StoryOf(Own(h)) /\ StoryOf(media)' = StoryOf(media)
    BY <1>4 DEF vars, Flushed, StoryOf, Own
  <2>2. Still /\ draft' = draft /\ photos' = photos /\ req' = req
    BY <1>4 DEF vars
  <2>3. \A h \in Handlers : SavedShows(h)'
    BY <1>1, <2>1, <2>2 DEF SavedShows
  <2>4. PlacedReady' /\ OneLock' /\ RunsPast'
    BY <2>2 DEF StoryInv, PlacedReady, OneLock, RunsPast
  <2> QED BY <1>2, <1>3, <2>2, <2>3, <2>4 DEF StoryInv
<1>5. CASE RunStory
  BY <1>5, RunsStory DEF RunStory
<1>6. ASSUME NEW h \in Handlers, RunOnRequest(h) PROVE StoryInv'
  BY <1>6, RunsStory DEF RunOnRequest
<1>7. ASSUME NEW h \in Handlers, Abort(h) PROVE StoryInv'
  BY <1>2, <1>3, <1>7, AbandonWrites, StoryEnds DEF Abort
<1>8. ASSUME NEW h \in Handlers, NEW p \in Photos, NEW does \in {"edit", "remove"},
             Edit(h, p, does)
      PROVE  StoryInv'
  <2>1. MovesAlone(h) /\ req'[h].at = "edited" /\ ~ req'[h].locks
        /\ req'[h].saved = Missing
    BY <1>8, EditWrites
  <2>2. SavedShows(h)' /\ req'[h].saved.run <= run
    BY <1>1, <2>1, MissingFits DEF SavedShows, Flushed
  <2>3. Still /\ draft' = draft /\ photos' = photos
    BY <1>8 DEF Edit
  <2> QED BY <1>2, <1>3, <2>1, <2>2, <2>3, StoryStays
<1>9. ASSUME NEW h \in Handlers, NEW p \in Photos, Ingest(h, p) PROVE StoryInv'
  <2>1. MovesAlone(h) /\ req'[h].at = "deleting" /\ ~ req'[h].locks
        /\ req'[h].saved = Missing
    BY <1>9, IngestWrites
  <2>2. SavedShows(h)' /\ req'[h].saved.run <= run
    BY <1>1, <2>1, MissingFits DEF SavedShows, Flushed
  <2>3. Still /\ draft' = draft /\ photos' = photos
    BY <1>9 DEF Ingest
  <2> QED BY <1>2, <1>3, <2>1, <2>2, <2>3, StoryStays
<1>10. ASSUME NEW h \in Handlers, RebuildStory(h) PROVE StoryInv'
  <2>1. /\ MovesAlone(h) /\ req'[h].at = "deleting" /\ req'[h].does = req[h].does
        /\ req'[h].on = req[h].on
        /\ IF run = 0 THEN req'[h].saved = Missing
           ELSE req'[h].saved.run = run /\ req'[h].saved.shows = StoryOf(Own(h))
    BY <1>10, RebuildStoryWrites
  <2>2. Still /\ draft' = draft /\ photos' = photos /\ LockFree(h)
    BY <1>10 DEF RebuildStory
  <2>3. StoryOf(Own(h))' = StoryOf(Own(h))
    BY <2>1, <2>2 DEF StoryOf, Own
  <2>4. run = 0 => StoryOf(Own(h)) = {}
    BY MissingFits DEF StoryInv, PlacedReady, StoryOf
  <2>5. req'[h].saved.run <= run
    BY <1>1, <2>1, MissingFits
  <2>6. req'[h].saved.shows = StoryOf(Own(h))
    BY <2>1, <2>4, MissingFits
  <2>7. SavedShows(h)'
    BY <2>1, <2>3, <2>6 DEF SavedShows
  <2> QED BY <1>2, <1>3, <2>2, <2>1, <2>5, <2>7, StoryStays
<1>11. ASSUME NEW h \in Handlers, DeletePoints(h) \/ (InsertPoints(h) /\ ~ Refused(h))
       PROVE  StoryInv'
  <2>1. /\ MovesAlone(h) /\ Flushed(h) /\ req'[h].at \in {"inserting", "committing"}
        /\ req'[h].does = req[h].does /\ req'[h].on = req[h].on
        /\ req'[h].locks = req[h].locks /\ req'[h].saved = req[h].saved
    BY <1>11, DeletePointsWrites, InsertPointsWrites DEF Flushed
  <2>2. Still /\ draft' = draft /\ photos' = photos
    BY <1>11 DEF DeletePoints, InsertPoints
  <2>3. StoryOf(Own(h))' = StoryOf(Own(h))
    BY <2>1, <2>2 DEF StoryOf, Own
  <2>4. SavedShows(h)' /\ req'[h].saved.run <= run
    BY <1>1, <2>1, <2>2, <2>3 DEF SavedShows
  <2> QED BY <1>2, <1>3, <2>1, <2>2, <2>4, StoryStays
<1>12. ASSUME NEW h \in Handlers, InsertPoints(h), Refused(h) PROVE StoryInv'
  <2>1. Abandon(h) /\ Still /\ draft' = draft /\ photos' = photos
    BY <1>12 DEF InsertPoints
  <2> QED BY <1>2, <1>3, <2>1, AbandonWrites, StoryEnds
<1>13. ASSUME NEW h \in Handlers, Answer(h) PROVE StoryInv'
  <2>1. MovesAlone(h) /\ req'[h].at = "built" /\ req'[h].locks = req[h].locks
        /\ req'[h].saved.run = run /\ req'[h].saved.shows = StoryOf(media)
    BY <1>13, AnswerWrites
  <2>2. Still /\ draft' = draft /\ photos' = photos
    BY <1>13 DEF Answer
  <2>3. SavedShows(h)' /\ req'[h].saved.run <= run
    BY <1>1, <2>1, <2>2 DEF SavedShows, Flushed, StoryOf
  <2> QED BY <1>2, <1>3, <2>1, <2>2, <2>3, StoryStays
<1>14. ASSUME NEW h \in Handlers, SaveAnswer(h) \/ SavePhotos(h) PROVE StoryInv'
  <2>1. MovesAlone(h) /\ req'[h] = Free
    BY <1>14, AbandonWrites DEF SaveAnswer, SavePhotos
  <2>2. Still /\ draft' \in {draft, req[h].saved} /\ photos' = req[h].saved
        /\ req[h].at \in {"copying", "answered", "built"}
    BY <1>14 DEF SaveAnswer, SavePhotos
  <2>3. \A x \in {draft, req[h].saved} : Fits(x) /\ x.run <= run
    BY <1>1, <2>2 DEF Fits, SavedShows
  <2>4. Fits(draft)' /\ draft'.run <= run /\ Fits(photos)' /\ photos'.run <= run
    BY <2>2, <2>3 DEF Fits, StoryOf
  <2> QED BY <2>1, <2>2, <2>4, StoryEnds
<1>15. ASSUME NEW h \in Handlers, AskDraft(h) PROVE StoryInv'
  <2>1. MovesAlone(h) /\ req'[h].at = "asked draft" /\ req'[h].saved.run = run
    BY <1>15, AskDraftWrites
  <2>2. Still /\ draft' = draft /\ photos' = photos /\ LockFree(h)
    BY <1>15 DEF AskDraft
  <2>3. SavedShows(h)'
    BY <2>1 DEF SavedShows, Flushed
  <2>4. req'[h].saved.run <= run
    BY <1>0, <2>1, Zenon
  <2> QED BY <1>2, <1>3, <2>1, <2>2, <2>3, <2>4, StoryStays
<1>16. ASSUME NEW h \in Handlers, AskPhotos(h) PROVE StoryInv'
  <2>1. MovesAlone(h)
        /\ \/ req'[h].at = "asked photos" /\ req'[h].saved.run = run
           \/ req'[h].at = "copying" /\ req'[h].saved = draft
    BY <1>16, AskPhotosWrites
  <2>2. Still /\ draft' = draft /\ photos' = photos /\ LockFree(h)
    BY <1>16 DEF AskPhotos
  <2>3. SavedShows(h)'
    BY <1>1, <2>1, <2>2 DEF SavedShows, Flushed, Fits, StoryOf
  <2>4. req'[h].saved.run <= run
    <3>1. CASE req'[h].saved.run = run
      BY <1>0, <3>1, Zenon
    <3>2. CASE req'[h].saved = draft
      BY <1>1, <3>2
    <3> QED BY <2>1, <3>1, <3>2
  <2> QED BY <1>2, <1>3, <2>1, <2>2, <2>3, <2>4, StoryStays
<1>17. ASSUME NEW h \in Handlers, SaveDraft(h) PROVE StoryInv'
  <2>1. /\ MovesAlone(h)
        /\ draft'.run = req[h].saved.run /\ draft'.shows = StoryOf(media)
        /\ \/ req'[h] = Free
           \/ req'[h].at = "answered" /\ ~ req'[h].locks /\ req'[h].saved = draft'
    BY <1>17, SaveDraftWrites
  <2>2. Still /\ photos' = photos
    BY <1>17 DEF SaveDraft
  <2>3. Fits(draft)' /\ draft'.run <= run
    BY <1>1, <2>1, <2>2 DEF Fits, StoryOf
  <2>4. CASE req'[h] = Free
    BY <1>3, <2>1, <2>2, <2>3, <2>4, StoryEnds
  <2>5. CASE req'[h].at = "answered" /\ ~ req'[h].locks /\ req'[h].saved = draft'
    <3>1. SavedShows(h)' /\ req'[h].saved.run <= run
      BY <2>1, <2>2, <2>3, <2>5 DEF SavedShows, Flushed, StoryOf
    <3> QED BY <1>3, <2>1, <2>2, <2>3, <2>5, <3>1, StoryStays
  <2> QED BY <2>1, <2>4, <2>5
<1>18. ASSUME NEW h \in Handlers, Commit(h) PROVE StoryInv'
  BY <1>18, CommitStory
<1> QED BY <1>4, <1>5, <1>6, <1>7, <1>8, <1>9, <1>10, <1>11, <1>12, <1>13, <1>14, <1>15,
           <1>16, <1>17, <1>18 DEF Next

LEMMA InitStory ==
  ASSUME Bounds, Init
  PROVE  StoryInv
<1>1. \A h \in Handlers : req[h] = Free
  BY DEF Init
<1>2. \A h \in Handlers : ~ req[h].locks /\ req[h].saved.run = 0 /\ SavedShows(h)
  BY <1>1, MissingFits DEF SavedShows, Flushed
<1>3. Fits(draft) /\ Fits(photos)
  BY MissingFits DEF Init, Fits, StoryOf
<1> QED BY <1>2, <1>3, MissingFits DEF Init, StoryInv, PlacedReady, OneLock, RunsPast

\* A projection that is answered shows the story as it is, unless an edit was
\* committed while a request held what it had read without the lock: whatever
\* edits, ingests, runs and readers overlap, and wherever they fail.
THEOREM StoryIsShown ==
  ASSUME Bounds
  PROVE  Spec => []ProjectionsShowTheStory
<1>1. Init => Typed /\ StoryInv
  BY InitTyped, InitStory
<1>2. Typed /\ StoryInv /\ [Next]_vars => (Typed /\ StoryInv)'
  BY TypedStep, StoryStep
<1>3. Typed /\ StoryInv => ProjectionsShowTheStory
  BY DEF StoryInv, Fits, ProjectionsShowTheStory
<1> QED BY <1>1, <1>2, <1>3, PTL DEF Spec

-----------------------------------------------------------------------------
(* The map.  What a request will delete is its own until it commits, and   *)
(* what it has inserted clashes with nothing that stays.                   *)

OnePoint(R) == \A r, s \in R : r[1] = s[1] => r = s
NotAhead(R, M) == \A r \in R : M[r[1]].ready /\ r[2] <= M[r[1]].version

\* What a request has deleted and selected: its own photo is among the rows, and
\* of the others none that was deleted is missing.
Deleted(h) == req[h].at \in {"inserting", "committing"}
Points(h) ==
  /\ req[h].at = "deleting" => req[h].sees \subseteq map
  /\ req[h].deletes \subseteq map
  /\ ~ Deleted(h) => req[h].deletes = {}
  /\ Deleted(h) => OnePoint(req[h].rows) /\ NotAhead(req[h].rows, Own(h))
  /\ Deleted(h) => Shown(Own(h), {req[h].on}) \subseteq req[h].rows
  /\ Deleted(h) =>
       Shown(media, Photos \ {req[h].on}) \cap req[h].deletes \subseteq req[h].rows
  /\ req[h].at = "committing" => ~ SamePhoto(map \ req[h].deletes, req[h].rows)
Between(g, h) ==
  /\ req[g].deletes \cap req[h].deletes = {}
  /\ req[g].at = "committing" /\ req[h].at = "committing" =>
       ~ SamePhoto(req[g].rows, req[h].rows)

MapInv ==
  /\ OnePoint(map) /\ NotAhead(map, media) /\ MapOf(media) \subseteq map
  /\ \A h \in Handlers : Points(h)
  /\ \A g, h \in Handlers : g # h => Between(g, h)

LEMMA ShownPoints ==
  ASSUME Bounds, NEW M \in [Photos -> MediaRow], NEW X \in SUBSET Photos
  PROVE  /\ OnePoint(Shown(M, X)) /\ NotAhead(Shown(M, X), M)
         /\ \A p \in X : M[p].ready /\ ~ M[p].gone => <<p, M[p].version>> \in Shown(M, X)
         /\ \A r \in Shown(M, X) : /\ r[1] \in X /\ r = <<r[1], M[r[1]].version>>
                                   /\ M[r[1]].ready /\ ~ M[r[1]].gone
<1>1. ASSUME NEW r \in Shown(M, X)
      PROVE  /\ r[1] \in X /\ r = <<r[1], M[r[1]].version>>
             /\ M[r[1]].ready /\ ~ M[r[1]].gone
  BY DEF Shown
<1>2. \A p \in X : M[p].version \in Nat
  BY DEF MediaRow, Bounds
<1>3. NotAhead(Shown(M, X), M)
  <2> SUFFICES ASSUME NEW r \in Shown(M, X)
               PROVE  M[r[1]].ready /\ r[2] <= M[r[1]].version
    BY DEF NotAhead
  <2>1. r[2] = M[r[1]].version /\ M[r[1]].ready /\ M[r[1]].version \in Nat
    BY <1>1, <1>2
  <2> QED BY <2>1
<1>4. OnePoint(Shown(M, X))
  BY <1>1 DEF OnePoint
<1>5. \A p \in X : M[p].ready /\ ~ M[p].gone => <<p, M[p].version>> \in Shown(M, X)
  BY DEF Shown
<1> QED BY <1>1, <1>3, <1>4, <1>5

\* Rows that are not ahead of a table are not ahead of a later one.
LEMMA NotAheadGrows ==
  ASSUME Bounds, NEW M \in [Photos -> MediaRow], NEW N \in [Photos -> MediaRow],
         \A q \in Photos : (M[q].ready => N[q].ready) /\ M[q].version <= N[q].version,
         NEW R \in Contents, NotAhead(R, M)
  PROVE  NotAhead(R, N)
<1> SUFFICES ASSUME NEW r \in R PROVE N[r[1]].ready /\ r[2] <= N[r[1]].version
  BY DEF NotAhead
<1>1. r[1] \in Photos /\ r[2] \in Nat
  BY DEF Contents, Bounds
<1>2. M[r[1]].ready /\ r[2] <= M[r[1]].version
  BY DEF NotAhead
<1>3. M[r[1]].version \in Nat /\ N[r[1]].version \in Nat
  BY <1>1 DEF MediaRow, Bounds
<1> QED BY <1>1, <1>2, <1>3

\* A step of one request that leaves photos and points alone.
LEMMA MapStays ==
  ASSUME Bounds, Typed, MapInv, NEW h \in Handlers, MovesAlone(h),
         media' = media, map' = map, Points(h)',
         \A g \in Handlers \ {h} : Between(g, h)' /\ Between(h, g)'
  PROVE  MapInv'
<1>1. ASSUME NEW g \in Handlers \ {h} PROVE Points(g)' /\ req'[g] = req[g]
  <2>1. req'[g] = req[g] /\ Points(g)
    BY DEF MovesAlone, MapInv
  <2>2. Own(g)' = Own(g)
    BY <2>1 DEF Own
  <2> QED BY <2>1, <2>2 DEF Points, Deleted
<1>2. \A f, g \in Handlers : f # g => Between(f, g)'
  BY <1>1 DEF MapInv, Between
<1> QED BY <1>1, <1>2 DEF MapInv, MapOf

\* In particular one of a request that has deleted nothing.
LEMMA MapIdle ==
  ASSUME Bounds, Typed, MapInv, NEW h \in Handlers, MovesAlone(h),
         media' = media, map' = map, req'[h].deletes = {}, ~ Deleted(h)',
         req'[h].at = "deleting" => req'[h].sees = map
  PROVE  MapInv'
<1>1. Points(h)'
  BY DEF Points, Deleted
<1>2. \A g \in Handlers \ {h} : Between(g, h)' /\ Between(h, g)'
  BY DEF Between, Deleted
<1> QED BY <1>1, <1>2, MapStays

LEMMA DeletePointsMap ==
  ASSUME Bounds, Typed, Typed', MapInv, NEW h \in Handlers, DeletePoints(h)
  PROVE  MapInv'
<1>1. /\ MovesAlone(h) /\ req[h].at = "deleting"
      /\ req'[h].at = "inserting" /\ req'[h].does = req[h].does
      /\ req'[h].on = req[h].on
      /\ req'[h].deletes = req[h].sees /\ req'[h].rows = MapOf(Own(h))
  BY DeletePointsWrites
<1>2. media' = media /\ map' = map
  BY DEF DeletePoints
<1>3. /\ req[h].on \in Photos /\ Own(h) \in [Photos -> MediaRow]
      /\ \A q \in Photos \ {req[h].on} : Own(h)[q] = media[q]
  BY <1>1, OwnRows DEF Flushed
<1>4. media \in [Photos -> MediaRow]
  BY DEF Typed, TypeOK, MediaRow
<1>5. OnePoint(req'[h].rows) /\ NotAhead(req'[h].rows, Own(h))
  BY <1>1, <1>3, ShownPoints DEF MapOf
<1>6. Shown(Own(h), {req[h].on}) \subseteq req'[h].rows
  BY <1>1, <1>3 DEF MapOf, Shown
<1>7. Shown(media, Photos \ {req[h].on}) \subseteq req'[h].rows
  BY <1>1, <1>3 DEF MapOf, Shown
<1>8. Own(h)' = Own(h)
  BY <1>1, <1>2 DEF Own
<1>9. Points(h)'
  BY <1>1, <1>2, <1>5, <1>6, <1>7, <1>8 DEF MapInv, Points, Deleted
<1>10. \A g \in Handlers \ {h} : req'[g] = req[g] /\ req[g].deletes \cap req[h].sees = {}
  BY <1>1 DEF MovesAlone, DeletePoints
<1>11. \A g \in Handlers \ {h} : Between(g, h)' /\ Between(h, g)'
  BY <1>1, <1>10 DEF Between
<1> QED BY <1>1, <1>2, <1>9, <1>11, MapStays

LEMMA InsertPointsMap ==
  ASSUME Bounds, Typed, MapInv, NEW h \in Handlers, InsertPoints(h), ~ Refused(h)
  PROVE  MapInv'
<1>1. /\ MovesAlone(h) /\ req[h].at = "inserting"
      /\ req'[h].at = "committing" /\ req'[h].does = req[h].does
      /\ req'[h].on = req[h].on
      /\ req'[h].deletes = req[h].deletes /\ req'[h].rows = req[h].rows
  BY InsertPointsWrites
<1>2. media' = media /\ map' = map
  BY DEF InsertPoints
<1>3. Own(h)' = Own(h)
  BY <1>1, <1>2 DEF Own
<1>4. Points(h)'
  BY <1>1, <1>2, <1>3 DEF MapInv, Points, Deleted, Refused
<1>5. ASSUME NEW g \in Handlers \ {h} PROVE Between(g, h)' /\ Between(h, g)'
  <2>1. /\ req'[g] = req[g]
        /\ req[g].at = "committing" => ~ SamePhoto(req[g].rows, req[h].rows)
    BY <1>1 DEF MovesAlone, InsertPoints
  <2>2. req[g].deletes \cap req[h].deletes = {}
    BY DEF MapInv, Between
  <2> QED BY <1>1, <2>1, <2>2 DEF Between, SamePhoto
<1> QED BY <1>1, <1>2, <1>4, <1>5, MapStays

LEMMA CommitMap ==
  ASSUME Bounds, Typed, Typed', MapInv, NEW h \in Handlers, Commit(h)
  PROVE  MapInv'
<1> DEFINE p == req[h].on
           D == req[h].deletes
           R == req[h].rows
<1>1. /\ req[h].at = "committing" /\ Flushed(h) /\ Deleted(h) /\ req'[h] = Free
      /\ \A g \in Handlers \ {h} : Keeps(g) /\ req'[g].sees = req[g].sees \ D
  BY CommitWrites DEF Flushed, Deleted
<1>2. media' = Own(h) /\ map' = (map \ D) \cup R
  BY DEF Commit
<1>3. /\ p \in Photos /\ media' \in [Photos -> MediaRow]
      /\ \A q \in Photos \ {p} : media'[q] = media[q]
      /\ media'[p].version >= media[p].version
      /\ media[p].ready => media'[p].ready
      /\ req[h].does = "ingest" => ~ media[p].ready
      /\ req[h].does # "ingest" => media'[p].version = media[p].version + 1
  BY <1>1, <1>2, OwnRows DEF Typed, RowsApart
<1>4. /\ media \in [Photos -> MediaRow] /\ map \in Contents /\ R \in Contents
      /\ \A g \in Handlers : req[g].rows \in Contents
      /\ \A q \in Photos : media[q].version \in Nat /\ media'[q].version \in Nat
  BY <1>3 DEF Typed, TypeOK, MediaRow, Requests, Bounds
<1>5. \A q \in Photos : (media[q].ready => media'[q].ready)
                        /\ media[q].version <= media'[q].version
  BY <1>3, <1>4
<1>6. /\ OnePoint(map) /\ NotAhead(map, media) /\ MapOf(media) \subseteq map
      /\ OnePoint(R) /\ NotAhead(R, media')
      /\ Shown(media', {p}) \subseteq R
      /\ Shown(media, Photos \ {p}) \cap D \subseteq R
      /\ ~ SamePhoto(map \ D, R)
  BY <1>1, <1>2 DEF MapInv, Points
<1>7. OnePoint(map')
  BY <1>2, <1>6 DEF OnePoint, SamePhoto
<1>8. NotAhead(map', media')
  <2>1. NotAhead(map, media')
    BY <1>3, <1>4, <1>5, <1>6, NotAheadGrows
  <2> QED BY <1>2, <1>6, <2>1 DEF NotAhead
<1>9. MapOf(media') \subseteq map'
  <2> SUFFICES ASSUME NEW q \in Photos, media'[q].ready, ~ media'[q].gone
               PROVE  <<q, media'[q].version>> \in map'
    BY DEF MapOf, Shown
  <2>1. CASE q = p
    BY <1>2, <1>3, <1>6, <2>1, ShownPoints
  <2>2. CASE q # p
    <3>1. media'[q] = media[q]
      BY <1>3, <2>2
    <3>2. /\ <<q, media[q].version>> \in Shown(media, Photos \ {p})
          /\ <<q, media[q].version>> \in MapOf(media)
      BY <1>4, <2>2, <3>1, ShownPoints DEF MapOf
    <3> QED BY <1>2, <1>6, <3>1, <3>2
  <2> QED BY <2>1, <2>2
<1>10. ASSUME NEW g \in Handlers \ {h} PROVE Points(g)'
  <2>1. Points(g) /\ Between(g, h) /\ Between(h, g) /\ Keeps(g)
        /\ req'[g].sees = req[g].sees \ D
    BY <1>1 DEF MapInv
  <2>2. /\ (Deleted(g)' <=> Deleted(g)) /\ req'[g].at = req[g].at
        /\ req'[g].deletes = req[g].deletes /\ req'[g].rows = req[g].rows
        /\ req'[g].on = req[g].on /\ req'[g].does = req[g].does
    BY <2>1 DEF Keeps, Deleted
  <2>3. req'[g].at = "deleting" => req'[g].sees \subseteq map'
    BY <1>2, <2>1, <2>2 DEF Points
  <2>4. req'[g].deletes \subseteq map' /\ (~ Deleted(g)' => req'[g].deletes = {})
    BY <1>2, <2>1, <2>2 DEF Points, Between
  <2>5. req'[g].at = "committing" => ~ SamePhoto(map' \ req'[g].deletes, req'[g].rows)
    BY <1>1, <1>2, <2>1, <2>2 DEF Points, Between, SamePhoto
  <2>6. ASSUME Deleted(g)
        PROVE  /\ OnePoint(req'[g].rows) /\ NotAhead(req'[g].rows, Own(g)')
               /\ Shown(Own(g)', {req'[g].on}) \subseteq req'[g].rows
               /\ Shown(media', Photos \ {req'[g].on}) \cap req'[g].deletes
                    \subseteq req'[g].rows
    <3> DEFINE o == req[g].on
    <3>1. Flushed(g) /\ Flushed(g)' /\ o \in Photos /\ o # p
      BY <1>1, <2>2, <2>6 DEF Deleted, Flushed, Typed, RowsApart, Shape
    <3>2. /\ Own(g)'[o] = Own(g)[o]
          /\ \A q \in Photos \ {o} : Own(g)'[q] = media'[q] /\ Own(g)[q] = media[q]
      BY <1>3, <2>2, <3>1, OwnStays
    <3>3. Own(g) \in [Photos -> MediaRow] /\ Own(g)' \in [Photos -> MediaRow]
      <4>1. Own(g) \in [Photos -> MediaRow]
        BY <3>1, OwnRows
      <4>2. \A q \in Photos : Own(g)'[q] \in MediaRow
        BY <1>3, <3>1, <3>2, <4>1
      <4> QED BY <1>3, <4>1, <4>2 DEF Own
    <3>4. \A q \in Photos : (Own(g)[q].ready => Own(g)'[q].ready)
                            /\ Own(g)[q].version <= Own(g)'[q].version
      BY <1>5, <3>1, <3>2, <3>3 DEF MediaRow, Bounds
    <3>5. NotAhead(req[g].rows, Own(g)')
      BY <1>4, <2>1, <2>6, <3>3, <3>4, NotAheadGrows DEF Points
    <3>6. Shown(Own(g)', {o}) \subseteq req[g].rows
      <4>1. Shown(Own(g)', {o}) = Shown(Own(g), {o})
        BY <3>2, ShownSame
      <4> QED BY <2>1, <2>6, <4>1 DEF Points
    <3>7. ASSUME NEW r \in Shown(media', Photos \ {o}) \cap req[g].deletes
          PROVE  r \in req[g].rows
      <4>1. /\ r[1] \in Photos \ {o} /\ r = <<r[1], media'[r[1]].version>>
            /\ media'[r[1]].ready /\ ~ media'[r[1]].gone
        BY <1>3, <3>7, ShownPoints
      <4>2. r \in map /\ media[r[1]].ready /\ r[2] <= media[r[1]].version
        BY <1>6, <2>1, <3>7 DEF Points, NotAhead
      <4>3. r[1] # p
        BY <1>3, <1>4, <4>1, <4>2
      <4>4. media'[r[1]] = media[r[1]]
        BY <1>3, <4>1, <4>3
      <4>5. r \in Shown(media, Photos \ {o})
        BY <1>4, <4>1, <4>4, ShownPoints
      <4> QED BY <2>1, <2>6, <3>7, <4>5 DEF Points
    <3> QED BY <2>1, <2>2, <2>6, <3>5, <3>6, <3>7 DEF Points
  <2> QED BY <2>2, <2>3, <2>4, <2>5, <2>6 DEF Points
<1>11. Points(h)'
  BY <1>1, MissingFits DEF Points, Deleted
<1>12. \A f, g \in Handlers : f # g => Between(f, g)'
  BY <1>1, MissingFits DEF MapInv, Between, Keeps
<1> QED BY <1>7, <1>8, <1>9, <1>10, <1>11, <1>12 DEF MapInv, MapOf

LEMMA MapStep ==
  ASSUME Bounds, Typed, Typed', MapInv, [Next]_vars
  PROVE  MapInv'
<1>1. CASE UNCHANGED vars \/ RunStory
  <2>1. media' = media /\ map' = map /\ req' = req
    BY <1>1 DEF vars, RunStory
  <2>2. \A h \in Handlers : Own(h)' = Own(h)
    BY <2>1 DEF Own
  <2>3. \A h \in Handlers : Points(h)'
    BY <2>1, <2>2 DEF MapInv, Points, Deleted
  <2> QED BY <2>1, <2>3 DEF MapInv, MapOf, Between
<1>2. ASSUME NEW h \in Handlers,
             Abort(h) \/ SaveAnswer(h) \/ SavePhotos(h) \/ (InsertPoints(h) /\ Refused(h))
      PROVE  MapInv'
  <2>1. Abandon(h) /\ media' = media /\ map' = map
    BY <1>2 DEF Abort, SaveAnswer, SavePhotos, InsertPoints
  <2> QED BY <2>1, AbandonWrites, MapIdle, MissingFits DEF Deleted
<1>3. ASSUME NEW h \in Handlers, NEW p \in Photos, NEW does \in {"edit", "remove"},
             Edit(h, p, does)
      PROVE  MapInv'
  BY <1>3, EditWrites, MapIdle DEF Edit, Deleted
<1>4. ASSUME NEW h \in Handlers, NEW p \in Photos, Ingest(h, p) PROVE MapInv'
  BY <1>4, IngestWrites, MapIdle DEF Ingest, Deleted
<1>5. ASSUME NEW h \in Handlers, RebuildStory(h) PROVE MapInv'
  <2>1. req[h].deletes = {}
    BY <1>5, RebuildStoryWrites DEF MapInv, Points, Deleted
  <2> QED BY <1>5, <2>1, RebuildStoryWrites, MapIdle DEF RebuildStory, Deleted
<1>6. ASSUME NEW h \in Handlers, RunOnRequest(h) PROVE MapInv'
  BY <1>6, RunOnRequestWrites, MapIdle DEF RunOnRequest, Deleted
<1>7. ASSUME NEW h \in Handlers, Answer(h) PROVE MapInv'
  <2>1. req[h].deletes = {}
    BY <1>7, AnswerWrites DEF MapInv, Points, Deleted
  <2> QED BY <1>7, <2>1, AnswerWrites, MapIdle DEF Answer, Deleted
<1>8. ASSUME NEW h \in Handlers, AskDraft(h) \/ AskPhotos(h) PROVE MapInv'
  <2>1. MovesAlone(h) /\ req'[h].deletes = {}
        /\ req'[h].at \in {"asked draft", "asked photos", "copying"}
    BY <1>8, AskDraftWrites, AskPhotosWrites
  <2> QED BY <1>8, <2>1, MapIdle DEF AskDraft, AskPhotos, Deleted
<1>9. ASSUME NEW h \in Handlers, SaveDraft(h) PROVE MapInv'
  <2>1. req[h].deletes = {}
    BY <1>9, SaveDraftWrites DEF MapInv, Points, Deleted
  <2> QED BY <1>9, <2>1, SaveDraftWrites, MapIdle, MissingFits DEF SaveDraft, Deleted
<1>10. ASSUME NEW h \in Handlers, DeletePoints(h) PROVE MapInv'
  BY <1>10, DeletePointsMap
<1>11. ASSUME NEW h \in Handlers, InsertPoints(h), ~ Refused(h) PROVE MapInv'
  BY <1>11, InsertPointsMap
<1>12. ASSUME NEW h \in Handlers, Commit(h) PROVE MapInv'
  BY <1>12, CommitMap
<1> QED BY <1>1, <1>2, <1>3, <1>4, <1>5, <1>6, <1>7, <1>8, <1>9, <1>10, <1>11, <1>12
        DEF Next

LEMMA InitMap ==
  ASSUME Bounds, Init
  PROVE  MapInv
<1>1. \A h \in Handlers : req[h] = Free
  BY DEF Init
<1>2. \A h \in Handlers : ~ Deleted(h) /\ req[h].deletes = {} /\ req[h].at # "deleting"
                          /\ req[h].at # "committing"
  BY <1>1, MissingFits DEF Deleted
<1>3. MapOf(media) = {}
  BY DEF Init, MapOf, Shown
<1>4. map = {}
  BY DEF Init
<1> QED BY <1>2, <1>3, <1>4 DEF MapInv, OnePoint, NotAhead, Points, Between

\* The map shows every photo once and as it is, whatever edits and ingests
\* overlap, though nothing but a unique constraint keeps them apart.
THEOREM MapIsShown ==
  ASSUME Bounds
  PROVE  Spec => []MapShowsThePhotos
<1>1. Init => Typed /\ MapInv
  BY InitTyped, InitMap
<1>2. Typed /\ MapInv /\ [Next]_vars => (Typed /\ MapInv)'
  BY TypedStep, MapStep
<1>3. Typed /\ MapInv => MapShowsThePhotos
  <2> SUFFICES ASSUME Typed, MapInv, NEW p \in Photos, media[p].ready, ~ media[p].gone
               PROVE  {r \in map : r[1] = p} = {<<p, media[p].version>>}
    BY DEF MapShowsThePhotos
  <2>1. <<p, media[p].version>> \in map
    BY DEF MapInv, MapOf, Shown
  <2> QED BY <2>1 DEF MapInv, OnePoint
<1> QED BY <1>1, <1>2, <1>3, PTL DEF Spec
================================================================================
