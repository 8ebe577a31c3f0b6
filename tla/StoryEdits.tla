------------------------------ MODULE StoryEdits ------------------------------
(***************************************************************************)
(* The edits people make to a story (apply_edit_operation, update_media    *)
(* and undo_latest_edit_operation of the API) between the reruns of the    *)
(* worker.  Each is one transaction; one that raises changes nothing, so   *)
(* what makes it raise is in its guard.                                    *)
(*                                                                         *)
(* The log holds the edits that undo can take back and has not.  Its ids   *)
(* are never given to another row.  A photo is shown when it is in the     *)
(* story and not private; its position is sure when it came with the file. *)
(* Renames, notes and LOCK_RECORD of a day, stop, moment or area differ    *)
(* only in wording; who may edit, and stale expected_updated_at, are left  *)
(* out.                                                                    *)
(***************************************************************************)
EXTENDS Reconstruction

CONSTANTS
  Positions,        \* where photos are taken
  TakenAt,          \* where the photos of a trip may be, in each scenario
  MaxEdits, MaxRuns \* bounds

VARIABLES
  media,  \* MediaItem: [ready, gone, shift, at, sure, shown] of each photo
  story,  \* the generated records
  open,   \* photos under an open review, and whether it is locked
  run,    \* the number of runs; the latest one
  log,    \* applied edits that undo can reach
  edits   \* how many edits there were (bound)

vars == <<media, story, open, run, log, edits>>

Init ==
  /\ \E where \in TakenAt :
       media = [p \in Photos |-> [ready |-> FALSE, gone |-> FALSE, shift |-> 0,
                                  at |-> where[p], sure |-> where[p] # NoGps, shown |-> TRUE]]
  /\ story = NoStory /\ open = NoRows
  /\ run = 0 /\ log = <<>> /\ edits = 0

Ids(e) == CASE e.op \in {"mark", "move_stop"} -> {e.target}
            [] e.op = "place" -> e.before
            [] e.op \in {"mode", "lock_leg"} -> {e.target[1], e.target[2]}
            [] OTHER -> {}
Spent == UNION {Ids(log[i]) : i \in DOMAIN log}

-----------------------------------------------------------------------------
(* The worker.                                                             *)

Ingested(p) ==
  /\ ~ media[p].ready /\ ~ media[p].gone
  /\ media' = [media EXCEPT ![p].ready = TRUE]
  /\ UNCHANGED <<story, open, run, log, edits>>

\* What grouping may find: some stops of a day that follow each other.
AreaGroups(S, d) ==
  {g \in SUBSET StopsOf(S, d) :
     /\ Cardinality(g) >= MinAreaStops
     /\ \A t, u \in g, v \in StopsOf(S, d) : Earlier(S, t, v) /\ Earlier(S, v, u) => v \in g}
\* None or one group for each day (a bound).
AreaChoices(S) ==
  LET choices(d) == {{}} \cup {{g} : g \in AreaGroups(S, d)}
  IN  {areasOf \in [DOMAIN S.days -> UNION {choices(d) : d \in DOMAIN S.days}] :
         \A d \in DOMAIN S.days : areasOf[d] \in choices(d)}

RunStory ==
  /\ run < MaxRuns /\ \E p \in Photos : media[p].ready
  /\ \E rerun \in {Rerun(story, media, open, log, run + 1, Spent)} :
       \E areasOf \in AreaChoices(rerun) : story' = WithAreas(rerun, run + 1, areasOf, Spent)
  /\ open' = Asked(story, media, open, run + 1)
  /\ run' = run + 1
  /\ UNCHANGED <<media, log, edits>>

-----------------------------------------------------------------------------
(* Edits in general.                                                       *)

Counted == edits < MaxEdits /\ edits' = edits + 1 /\ UNCHANGED run
Editing == run > 0 /\ Counted
Safe(op, target, before) ==
  log' = Append(log, [op |-> op, target |-> target, before |-> before])

\* Areas that lost every stop.  A day is cleaned before this is written.
Retired(S) ==
  LET empty == {a \in DOMAIN S.areas : MembersOf(S, a) = {}}
  IN  [S EXCEPT !.areas = [a \in empty |-> [@[a] EXCEPT !.deleted = TRUE]] @@ @]
Relegged(S, d) == EditLegs(Renumbered(S, d), d, run)

-----------------------------------------------------------------------------
(* Photos.                                                                 *)

MoveMedia(p, m) ==  \* MOVE_MEDIA
  LET now == {n \in DOMAIN story.moments : p \in InMoment(story, n)}
      moved == [story EXCEPT !.links = (<<p, m>> :> TRUE) @@
                               Restrict(@, {l \in DOMAIN @ : l[1] # p}),
                             !.stops[story.moments[m].stop].locked = TRUE]
  IN  /\ Editing
      /\ Cardinality(now) <= 1  \* scalar_one_or_none
      /\ story' = LockMoments(moved, {m})
      /\ Safe("place", p, now)
      /\ UNCHANGED <<media, open>>

MoveAfterMidnight(p, by) ==  \* MOVE_AFTER_MIDNIGHT_MEDIA
  /\ Editing
  /\ media' = [media EXCEPT ![p].shift = @ + by]
  /\ Safe("shift", p, media[p].shift)
  /\ UNCHANGED <<story, open>>

MoveMediaOnMap(p, at) ==  \* MOVE_MEDIA_ON_MAP
  LET moved == [media EXCEPT ![p].at = at]
      stops == {t \in DOMAIN story.stops : p \in InStop(story, t) /\ ~ Pinned(log, t)}
      days == {story.stops[t].day : t \in stops}
  IN  /\ Editing
      /\ \A d \in days : ~ EditLegsRaise(story, d)
      /\ media' = moved
      /\ story' = ForDays(LAMBDA S, d : EditLegs(S, d, run), Placed(story, moved, stops), days)
      /\ UNCHANGED <<open, log>>

\* prune_media_from_story, once the photo is hidden in M.
Prunable(S, t) ==
  /\ ~ S.stops[t].locked
  /\ \A m \in MomentsOf(S, t) : ~ S.moments[m].locked
  /\ \A l \in DOMAIN S.legs : S.legs[l].locked => t \notin {l[1], l[2]}
  /\ \A n \in DOMAIN S.members : n[2] = t => ~ S.members[n].locked /\ ~ S.areas[n[1]].locked
Unlinked(S, p) == [S EXCEPT !.links = Restrict(@, {l \in DOMAIN @ : l[1] # p})]
Shows(S, M, m) == \E q \in InMoment(S, m) : StoryVisible(M, q)
WithoutMoments(S, M, X) ==
  DropMoments(S, {m \in X : ~ Shows(S, M, m) /\ ~ S.moments[m].locked})
WithoutStops(S, M, X) ==
  DropStops(S, {t \in X : Prunable(S, t) /\ \A m \in MomentsOf(S, t) : ~ Shows(S, M, m)})
WithoutAreas(S, X) ==
  DropAreas(S, {a \in X : /\ ~ S.areas[a].deleted /\ ~ S.areas[a].locked
                          /\ Cardinality(MembersOf(S, a)) < MinAreaStops
                          /\ \A t \in MembersOf(S, a) : ~ S.members[<<a, t>>].locked})
WithoutPhoto(S, M, p) ==
  LET moments == {m \in DOMAIN S.moments : p \in InMoment(S, m)}
      stops == {S.moments[m].stop : m \in moments}
  IN  WithoutAreas(WithoutStops(WithoutMoments(Unlinked(S, p), M, moments), M, stops),
                   UNION {AreasOf(S, t) : t \in stops})
DaysOf(S, p) == {S.stops[t].day : t \in {u \in DOMAIN S.stops : p \in InStop(S, u)}}
Pruned(S, M, p) ==
  ForDays(LAMBDA T, d : CleanDay(RunLegs(Renumbered(T, d), M, d, run), d),
          WithoutPhoto(S, M, p), DaysOf(S, p))
PruneRaises(S, M, p) ==
  \E d \in DaysOf(S, p) : RunLegsRaise(Renumbered(WithoutPhoto(S, M, p), d), M, d, run)

ExcludeMedia(p) ==  \* EXCLUDE_MEDIA_FROM_STORY
  LET hidden == [media EXCEPT ![p].shown = FALSE]
  IN  /\ Editing
      /\ ~ PruneRaises(story, hidden, p)
      /\ media' = hidden
      /\ story' = Pruned(story, hidden, p)
      /\ Safe("hide", p, media[p].shown)
      /\ UNCHANGED open

\* update_media: what the contributor chooses, or the end of the photo.
ChooseVisibility(p, shown) ==
  LET chosen == [media EXCEPT ![p].shown = shown]
      prune == media[p].shown /\ ~ StoryVisible(chosen, p)
  IN  /\ Counted /\ ~ media[p].gone
      /\ prune => ~ PruneRaises(story, chosen, p)
      /\ media' = chosen
      /\ story' = IF prune THEN Pruned(story, chosen, p) ELSE story
      /\ UNCHANGED <<open, log>>

DeleteMedia(p) ==
  LET T == Unlinked(story, p)
      bare == {m \in DOMAIN T.moments : InMoment(T, m) = {}}
      U == DropMoments(T, bare)
      empty == {t \in DOMAIN U.stops : MomentsOf(U, t) = {}}
      V == DropStops(U, empty)
      days == DaysOf(story, p) \cup {story.stops[story.moments[m].stop].day : m \in bare}
                \cup {story.stops[t].day : t \in empty}
  IN  /\ Counted /\ ~ media[p].gone
      /\ \A d \in days : ~ EditLegsRaise(V, d)
      /\ media' = [media EXCEPT ![p].gone = TRUE, ![p].ready = FALSE, ![p].shown = FALSE]
      /\ story' = Retired(ForDays(CleanDay, ForDays(Relegged, V, days), days))
      /\ UNCHANGED <<open, log>>

-----------------------------------------------------------------------------
(* Stops and moments.                                                      *)

DeleteStop(t) ==  \* DELETE_STOP
  LET d == story.stops[t].day
      T == DropStops(story, {t})
  IN  /\ Editing /\ ~ EditLegsRaise(T, d)
      /\ story' = Retired(CleanDay(Relegged(T, d), d))
      /\ UNCHANGED <<media, open, log>>

MergeStops(t, u) ==  \* MERGE_STOPS: t goes to u
  LET x == story.stops[t]
      moved == [story EXCEPT
        !.moments = [m \in MomentsOf(story, t) |-> [@[m] EXCEPT !.stop = u]] @@ @,
        !.stops[u] = [@ EXCEPT !.from = Min({@, x.from}), !.to = Max({@, x.to})]]
      merged == DropStops(LockStops(LockMoments(Placed(moved, media, {u}), MomentsOf(moved, u)), {u}), {t})
      d == story.stops[u].day
  IN  /\ Editing /\ ~ EditLegsRaise(merged, d)
      /\ story' = Relegged(merged, d)
      /\ UNCHANGED <<media, open, log>>

\* replace_stop_moments
Regrouped(S, t, X) ==
  AddMoments(DropMoments(S, MomentsOf(S, t)), media, t, MomentGroups(media, X), TRUE, Spent)

SplitStop(t, p) ==  \* SPLIT_STOP after photo p
  LET x == story.stops[t]
      start(q) == story.moments[CHOOSE m \in MomentsOf(story, t) : q \in InMoment(story, m)].from
      moved == {q \in InStop(story, t) :
                  \/ start(p) < start(q)
                  \/ start(p) = start(q) /\ Time(media, p) < Time(media, q)}
      kept == InStop(story, t) \ moved
      u == NewStop(story, Spent)
      following == {v \in StopsOf(story, x.day) : story.stops[v].pos > x.pos}
      opened == [story EXCEPT !.stops =
        (t :> [x EXCEPT !.to = Max(Times(media, kept))])
        @@ (u :> [x EXCEPT !.pos = @ + 1, !.from = Min(Times(media, moved)), !.locked = TRUE])
        @@ [v \in following |-> [@[v] EXCEPT !.pos = @ + 1, !.locked = TRUE]] @@ @]
      split == Regrouped(Regrouped(opened, t, kept), u, moved)
      located == LockStops(Placed(split, media, {t, u}), {t})
  IN  /\ Editing
      /\ p \in InStop(story, t) /\ moved # {}
      /\ ~ EditLegsRaise(located, x.day)
      /\ story' = Relegged(located, x.day)
      /\ UNCHANGED <<media, open, log>>

MergeMoments(m, n) ==  \* MERGE_MOMENTS: m goes to n
  LET x == story.moments[m]
      moved == [story EXCEPT
        !.links = [l \in InMoment(story, m) \X {n} |-> TRUE] @@ @,
        !.moments[n] = [@ EXCEPT !.from = Min({@, x.from}), !.to = Max({@, x.to})]]
      locked == LockStops(LockMoments(moved, {n}), {story.moments[n].stop})
  IN  /\ Editing
      /\ m = n \/ InMoment(story, m) \cap InMoment(story, n) = {}
      /\ story' = DropMoments(locked, {m})
      /\ UNCHANGED <<media, open, log>>

MoveStopOnMap(t, at) ==  \* MOVE_STOP_ON_MAP
  /\ Editing
  /\ story' = LockStops([story EXCEPT !.stops[t].at = {at}], {t})
  /\ Safe("move_stop", t, story.stops[t].at)
  /\ UNCHANGED <<media, open>>

-----------------------------------------------------------------------------
(* Areas.                                                                  *)

Active(S, a) == ~ S.areas[a].deleted
Current(row) == row.run = run \/ row.locked
Position(t) == story.stops[t].pos

CreateArea(g) ==  \* CREATE_AREA_VISIT
  LET d == story.stops[CHOOSE t \in g : TRUE].day
      positions == {Position(t) : t \in g}
      T == [story EXCEPT !.members = Restrict(@, {n \in DOMAIN @ :
              ~ (n[2] \in g /\ @[n].run = run /\ ~ Active(story, n[1]))})]
      made == AddArea(T, d, g, run, TRUE, Spent)
      a == NewArea(T, Spent)
  IN  /\ Editing
      /\ Cardinality(g) >= MinAreaStops /\ g \subseteq StopsOf(story, d)
      /\ Cardinality(positions) = Cardinality(g)
      /\ positions = Min(positions) .. Max(positions)
      /\ \A n \in DOMAIN story.members :
           n[2] \in g /\ Active(story, n[1]) => ~ Current(story.members[n])
      \* the order of a deleted area of this run may be in the way
      /\ \A b \in DOMAIN T.areas : T.areas[b].day = d /\ T.areas[b].run = run =>
                                     T.areas[b].order # made.areas[a].order
      /\ story' = LockStops(made, g)
      /\ UNCHANGED <<media, open, log>>

DeleteArea(a) ==  \* DELETE_AREA_VISIT
  /\ Editing /\ Active(story, a)
  /\ LET T == LockStops(LockArea(story, a), MembersOf(story, a))
     IN  story' = [T EXCEPT !.areas[a].deleted = TRUE,
                            !.members = Restrict(@, {n \in DOMAIN @ : n[1] # a})]
  /\ UNCHANGED <<media, open, log>>

AddAreaStop(a, t) ==  \* ADD_AREA_VISIT_STOP
  LET x == story.areas[a]
      positions == {Position(u) : u \in MembersOf(story, a)}
      T == [story EXCEPT !.members = (<<a, t>> :> [locked |-> TRUE, run |-> x.run]) @@ @]
  IN  /\ Editing /\ Active(story, a) /\ story.stops[t].day = x.day
      /\ \A n \in DOMAIN story.members : n[2] = t =>
           ~ story.members[n].locked /\ story.members[n].run # x.run
      /\ positions # {} /\ Position(t) \in {Min(positions) - 1, Max(positions) + 1}
      /\ story' = LockArea(LockStops(T, {t}), a)
      /\ UNCHANGED <<media, open, log>>

RemoveAreaStop(a, t) ==  \* REMOVE_AREA_VISIT_STOP
  LET others == MembersOf(story, a) \ {t}
  IN  /\ Editing /\ Active(story, a) /\ t \in MembersOf(story, a)
      /\ Cardinality(others) >= MinAreaStops
      /\ \/ \A u \in others : Position(t) <= Position(u)
         \/ \A u \in others : Position(t) >= Position(u)
      /\ story' = LockArea(LockStops([story EXCEPT !.members =
                    Restrict(@, DOMAIN @ \ {<<a, t>>})], {t}), a)
      /\ UNCHANGED <<media, open, log>>

-----------------------------------------------------------------------------
(* Marks, routes and reviews.                                              *)

\* RENAME_*, SET_*_NOTE and LOCK_RECORD.
Markable == DOMAIN story.days \cup DOMAIN story.stops \cup DOMAIN story.moments
              \cup {a \in DOMAIN story.areas : Active(story, a)}
Marked(S, x) ==
  CASE x \in DOMAIN S.days -> LockDay(S, x)
    [] x \in DOMAIN S.stops -> LockStops(S, {x})
    [] x \in DOMAIN S.moments -> LockStops(LockMoments(S, {x}), {S.moments[x].stop})
    [] x \in DOMAIN S.areas -> LockArea(S, x)
Mark(x) ==
  /\ Editing
  /\ story' = Marked(story, x)
  /\ Safe("mark", x, {})
  /\ UNCHANGED <<media, open>>

ChangeRouteMode(l) ==  \* CHANGE_ROUTE_MODE
  /\ Editing
  /\ story' = LockDay([story EXCEPT !.legs[l].manual = TRUE, !.legs[l].locked = TRUE],
                      story.legs[l].day)
  /\ Safe("mode", l, story.legs[l].manual)
  /\ UNCHANGED <<media, open>>

LockLeg(l) ==  \* LOCK_RECORD of a trip_leg
  /\ Editing
  /\ story' = LockDay([story EXCEPT !.legs[l].locked = TRUE], story.legs[l].day)
  /\ Safe("lock_leg", l, {})
  /\ UNCHANGED <<media, open>>

LockReview(p) ==  \* LOCK_RECORD of a review_item
  /\ Editing
  /\ open' = [open EXCEPT ![p] = TRUE]
  /\ Safe("lock_review", p, {})
  /\ UNCHANGED <<media, story>>

Answer(p) ==  \* RESOLVE_REVIEW_ITEM, DISMISS_REVIEW_ITEM
  /\ Editing
  /\ open' = Restrict(open, DOMAIN open \ {p})
  /\ Safe("answer", p, {})
  /\ UNCHANGED <<media, story>>

\* RESOLVE_REVIEW_ITEM of a POSSIBLE_AREA_VISIT, which any grouped area may have:
\* the area is locked, not its stops or its day.
ConfirmArea(a) ==
  /\ Editing /\ ~ story.areas[a].locked
  /\ story' = [story EXCEPT !.areas[a].locked = TRUE]
  /\ Safe("confirm", a, {})
  /\ UNCHANGED <<media, open>>

-----------------------------------------------------------------------------
(* undo_latest_edit_operation: only the latest edit, and only if the       *)
(* record it changed is still there.  What was locked stays locked.        *)

UndoPlace(e) ==
  LET p == e.target
      now == {l \in DOMAIN story.links : l[1] = p}
  IN  /\ Cardinality(now) = 1 /\ e.before # {} /\ e.before \subseteq DOMAIN story.moments
      /\ story' = [story EXCEPT !.links = [l \in {p} \X e.before |-> TRUE] @@
                                            Restrict(@, DOMAIN @ \ now)]
      /\ UNCHANGED <<media, open>>
UndoPhoto(e) ==
  /\ media' = IF e.op = "shift" THEN [media EXCEPT ![e.target].shift = e.before]
              ELSE [media EXCEPT ![e.target].shown = e.before]
  /\ UNCHANGED <<story, open>>
UndoRecord(e) ==
  /\ CASE e.op = "move_stop" ->
            /\ e.target \in DOMAIN story.stops
            /\ story' = [story EXCEPT !.stops[e.target].at = e.before]
       [] e.op = "mode" ->
            /\ e.target \in DOMAIN story.legs
            /\ story' = [story EXCEPT !.legs[e.target].manual = e.before]
       [] e.op = "mark" ->
            /\ e.target \in DOMAIN story.days \cup DOMAIN story.stops
                              \cup DOMAIN story.moments \cup DOMAIN story.areas
            /\ UNCHANGED story
       [] e.op = "lock_leg" -> e.target \in DOMAIN story.legs /\ UNCHANGED story
       [] e.op \in {"lock_review", "confirm"} -> UNCHANGED story
  /\ UNCHANGED <<media, open>>
UndoAnswer(e) ==
  /\ open' = (e.target :> TRUE) @@ open
  /\ UNCHANGED <<media, story>>

Undo ==
  /\ Editing /\ log # <<>>
  /\ LET e == Last(log)
     IN  CASE e.op = "place" -> UndoPlace(e)
           [] e.op \in {"shift", "hide"} -> UndoPhoto(e)
           [] e.op = "answer" -> UndoAnswer(e)
           [] OTHER -> UndoRecord(e)
  /\ log' = Front(log)

-----------------------------------------------------------------------------
EditPhoto ==
  \E p \in Photos :
    \/ \E m \in DOMAIN story.moments : MoveMedia(p, m)
    \/ \E by \in {-1, 1} : MoveAfterMidnight(p, by)
    \/ \E at \in Positions \ {NoGps} : MoveMediaOnMap(p, at)
    \/ ExcludeMedia(p)
    \/ \E shown \in BOOLEAN : ChooseVisibility(p, shown)
    \/ DeleteMedia(p)
EditStops ==
  \/ \E t \in DOMAIN story.stops :
       \/ DeleteStop(t)
       \/ \E u \in DOMAIN story.stops : MergeStops(t, u)
       \/ \E p \in Photos : SplitStop(t, p)
       \/ \E at \in Positions \ {NoGps} : MoveStopOnMap(t, at)
  \/ \E m, n \in DOMAIN story.moments : MergeMoments(m, n)
EditAreas ==
  \/ \E g \in SUBSET DOMAIN story.stops \ {{}} : CreateArea(g)
  \/ \E a \in DOMAIN story.areas :
       \/ DeleteArea(a)
       \/ \E t \in DOMAIN story.stops : AddAreaStop(a, t) \/ RemoveAreaStop(a, t)
EditOther ==
  \/ \E x \in Markable : Mark(x)
  \/ \E l \in DOMAIN story.legs : ChangeRouteMode(l) \/ LockLeg(l)
  \/ \E p \in DOMAIN open : Answer(p) \/ LockReview(p)
  \/ \E a \in DOMAIN story.areas : ConfirmArea(a)

Next ==
  \/ \E p \in Photos : Ingested(p)
  \/ RunStory
  \/ EditPhoto \/ EditStops \/ EditAreas \/ EditOther
  \/ Undo

Spec == Init /\ [][Next]_vars

-----------------------------------------------------------------------------
(* Properties.                                                             *)

\* Rows are well formed and refer to rows that are there.
TypeOK ==
  LET S == story
  IN  /\ run \in 0 .. MaxRuns /\ edits \in 0 .. MaxEdits
      /\ DOMAIN open \subseteq Photos
      /\ media \in [Photos -> [ready : BOOLEAN, gone : BOOLEAN, shift : Int,
                               at : Positions, sure : BOOLEAN, shown : BOOLEAN]]
      /\ \A t \in DOMAIN S.stops :
           /\ t \in StopIds /\ S.stops[t].day \in DOMAIN S.days
           /\ S.stops[t].pos > 0
      /\ \A m \in DOMAIN S.moments :
           m \in MomentIds /\ S.moments[m].stop \in DOMAIN S.stops
      /\ DOMAIN S.links \subseteq Photos \X (DOMAIN S.moments)
      /\ \A a \in DOMAIN S.areas : a \in AreaIds /\ S.areas[a].day \in DOMAIN S.days
      /\ DOMAIN S.members \subseteq (DOMAIN S.areas) \X (DOMAIN S.stops)
      /\ DOMAIN S.legs \subseteq (DOMAIN S.stops) \X (DOMAIN S.stops) \X (1 .. run)

\* A photo is in one moment of the story at most, whatever people move,
\* merge, split and undo and whichever photos a rerun takes for new: a
\* rebuild must not cluster the photos that locked stops keep.
OnePlacePerPhoto == \A l, k \in DOMAIN story.links : l[1] = k[1] => l = k

\* No ready photo is forgotten by a run: it is in a moment or a person is
\* asked about it.
ReadyPhotosPlaced ==
  [][run' # run => Points(media) \subseteq Linked(story') \cup DOMAIN open']_vars

\* A rerun leaves the stops that people worked on: they are there, locked,
\* with every photo they had that is still part of the trip.
HumanWorkSurvives ==
  [][run' # run =>
       \A t \in DOMAIN story.stops : story.stops[t].locked =>
         /\ t \in DOMAIN story'.stops /\ story'.stops[t].locked
         /\ InStop(story, t) \cap Points(media) \subseteq InStop(story', t)]_vars

\* A moment that a person moved photos to, merged or named outlives reruns.
LockedMomentsSurvive ==
  [][run' # run => \A m \in DOMAIN story.moments :
       story.moments[m].locked => m \in DOMAIN story'.moments]_vars

\* Once a person made, changed or deleted an area of a day, runs group no
\* stops of that day again and keep the area as it was left, also deleted.
EditedAreasSurvive ==
  [][run' # run => \A a \in DOMAIN story.areas : story.areas[a].locked =>
       /\ a \in DOMAIN story'.areas
       /\ story'.areas[a].deleted = story.areas[a].deleted
       /\ \A b \in DOMAIN story'.areas \ DOMAIN story.areas :
            story'.areas[b].day # story.areas[a].day]_vars

\* A contributor can always take a photo out of the story: "Contributors
\* retain authorship and control over their own media."
\* (docs/PRIVACY_MODEL.md:13).
PhotosCanBeHidden ==
  \A p \in Linked(story) : StoryVisible(media, p) =>
    ~ PruneRaises(story, [media EXCEPT ![p].shown = FALSE], p)
=============================================================================
