---------------------------- MODULE Reconstruction ----------------------------
(***************************************************************************)
(* reconstruct_trip as a function of the records and photos it finds: the  *)
(* story it leaves and the photos it asks a person about.  Run r is the    *)
(* new run; the log holds the edits in force, which pin stops to the map.  *)
(* The grouping of stops into areas is the argument areasOf, a set of      *)
(* groups for each date.                                                   *)
(*                                                                         *)
(* As no two rows of trip_days have one date here, merging days by date    *)
(* only numbers them.  Every photo has a time.  Names and geocoding are    *)
(* left out.                                                               *)
(***************************************************************************)
EXTENDS StoryRecords

CONSTANT BracketGap  \* MISSING_GPS_BRACKET_MINUTES

\* Whatever their visibility.
Points(M) == {p \in Photos : M[p].ready}
Located(M, X) == {p \in X : M[p].at # NoGps}
Unassigned(S, M, open) == Points(M) \ (Linked(S) \cup DOMAIN open)

InTimeOrder(M, X) == SetToSortSeq(X, LAMBDA p, q : Time(M, p) < Time(M, q))
Pinned(log, t) == \E i \in DOMAIN log : log[i].op = "move_stop" /\ log[i].target = t

NewStop(S, spent) == Min(StopIds \ (DOMAIN S.stops \cup spent))
NewArea(S, spent) == Min(AreaIds \ (DOMAIN S.areas \cup spent))
FoundDay(S, d) == [S EXCEPT !.days = @ @@ (d :> FALSE)]

-----------------------------------------------------------------------------
(* Both ways of rerunning end like this.                                   *)

\* Generated stops are joined to locked ones that lost their photos.
Touch(x, y) == x.from <= y.to + MomentGap /\ x.to >= y.from - MomentGap
JoinStop(S, t, u) ==  \* the photos of t come to u
  DropStops([S EXCEPT
      !.stops[u] = [@ EXCEPT !.from = Min({@, S.stops[t].from}), !.to = Max({@, S.stops[t].to})],
      !.moments = [m \in MomentsOf(S, t) |-> [@[m] EXCEPT !.stop = u]] @@ @],
    {t})
JoinDay(S, M, d, r) ==
  LET emptied == {u \in StopsOf(S, d) : S.stops[u].locked /\ InStop(S, u) = {}}
      given == {t \in StopsOf(S, d) : ~ S.stops[t].locked /\ InStop(S, t) # {}}
      join(T, t) ==
        LET fit == {u \in emptied : Touch(T.stops[t], T.stops[u]) /\ T.stops[u].at = T.stops[t].at}
        IN  IF fit = {} THEN T
            ELSE JoinStop(T, t, CHOOSE u \in fit : \A v \in fit : ~ Earlier(S, v, u))
      joined == FoldLeft(join, S, SetToSortSeq(given, LAMBDA t, u : Earlier(S, t, u)))
  IN  IF joined = S THEN S ELSE RunLegs(Renumbered(joined, d), M, d, r)

\* Generated areas of a day give way to new ones, unless a person locked one.
AreasLockedByMember(S, d, r) ==  \* mutant: only members are looked at
  \E n \in DOMAIN S.members :
    n[2] \in StopsOf(S, d) /\ S.members[n].locked /\ S.members[n].run = r
AreasLocked(S, d, r) ==
  \/ \E a \in DOMAIN S.areas : S.areas[a].day = d /\ S.areas[a].locked
  \/ \E n \in DOMAIN S.members :
       n[2] \in StopsOf(S, d) /\ S.members[n].locked /\ S.members[n].run = r
AddArea(S, d, stops, r, lock, spent) ==
  LET a == NewArea(S, spent)
      orders == {S.areas[b].order : b \in {c \in DOMAIN S.areas :
                   /\ S.areas[c].day = d /\ ~ S.areas[c].deleted
                   /\ (S.areas[c].run = r \/ S.areas[c].locked)}}
  IN  [S EXCEPT !.areas = @ @@ (a :> [day |-> d, deleted |-> FALSE, locked |-> lock, run |-> r,
                                      order |-> 1 + Max({0} \cup orders)]),
                !.members = @ @@ [n \in {a} \X stops |-> [locked |-> lock, run |-> r]]]
GroupAreas(S, d, groups, r, spent) ==
  IF AreasLocked(S, d, r) THEN S
  ELSE LET cleared == DropAreas(
             [S EXCEPT !.members = Restrict(@, {n \in DOMAIN @ :
                ~ (n[2] \in StopsOf(S, d) /\ ~ @[n].locked /\ @[n].run = r)})],
             {a \in DOMAIN S.areas : /\ S.areas[a].day = d /\ S.areas[a].run = r
                                     /\ ~ S.areas[a].locked /\ ~ S.areas[a].deleted})
       IN  FoldSet(LAMBDA g, T : AddArea(T, d, g, r, FALSE, spent), cleared, groups)

Finished(S, M, r) == ForDays(LAMBDA T, d : JoinDay(T, M, d, r), S, DOMAIN S.days)
WithAreas(S, r, areasOf, spent) ==
  ForDays(LAMBDA T, d : GroupAreas(T, d, areasOf[d], r, spent), S, DOMAIN S.days)

-----------------------------------------------------------------------------
(* New photos join a story that is there: carry_forward_story restamps the *)
(* generated records, increment_story places the photos one by one.        *)

Carried(S, r) ==
  LET latest(l) == ~ S.legs[l].locked /\ l[3] = r - 1
      now(l) == IF latest(l) THEN <<l[1], l[2], r>> ELSE l
  IN  [S EXCEPT !.legs = [k \in {now(l) : l \in DOMAIN S.legs} |->
                            S.legs[CHOOSE l \in DOMAIN S.legs : now(l) = k]]]

Distance(x, time) == IF time < x.from THEN x.from - time ELSE Max({0, time - x.to})
FittingStops(S, M, p) ==
  {t \in StopsOf(S, Date(M, p)) :
     /\ Distance(S.stops[t], Time(M, p)) <= StopGap
     /\ S.stops[t].at = {M[p].at}
     /\ \A q \in InStop(S, t) : M[q].at \in {M[p].at, NoGps}}

Widen(row, time) == [row EXCEPT !.from = Min({@, time}), !.to = Max({@, time})]
OpenStop(S, M, p, spent) ==
  LET d == Date(M, p)
  IN  [FoundDay(S, d) EXCEPT !.stops = @ @@ (NewStop(S, spent) :>
         [day |-> d, pos |-> 1 + Max({0} \cup {S.stops[t].pos : t \in StopsOf(S, d)}),
          from |-> Time(M, p), to |-> Time(M, p), at |-> {M[p].at},
          locked |-> FALSE])]

\* The photo joins the nearest moment of the stop, or gets one of its own.
Nearest(S, M, t, p) ==
  LET gap(m) == Distance(S.moments[m], Time(M, p))
      fit == {m \in MomentsOf(S, t) : gap(m) <= MomentGap}
  IN  {m \in fit : \A n \in fit :
         \/ gap(m) < gap(n)
         \/ gap(m) = gap(n) /\ S.moments[m].from <= S.moments[n].from}
JoinMoments(S, M, nearest, t, p, spent) ==
  IF nearest = {} THEN AddMoment(S, M, t, {p}, FALSE, NewMoment(S, spent))
  ELSE LET m == CHOOSE x \in nearest : TRUE
       IN  [S EXCEPT !.moments[m] = Widen(@, Time(M, p)), !.links = @ @@ (<<p, m>> :> FALSE)]
PlaceIn(S, M, t, p, spent) ==
  Placed(JoinMoments([S EXCEPT !.stops[t] = Widen(@, Time(M, p))], M, Nearest(S, M, t, p),
                     t, p, spent), M, {t})

PlacePhoto(S, M, p, spent) ==
  LET fit == FittingStops(S, M, p)
      t == CHOOSE x \in fit : \A u \in fit : ~ Earlier(S, u, x)
  IN  IF fit # {} THEN PlaceIn(S, M, t, p, spent)
      ELSE PlaceIn(OpenStop(S, M, p, spent), M, NewStop(S, spent), p, spent)

IncrementedDays(S, M, located, r) ==
  LET changed == {S.stops[S.moments[l[2]].stop].day : l \in {k \in DOMAIN S.links : k[1] \in located}}
  IN  ForDays(LAMBDA T, d : RunLegs(Renumbered(T, d), M, d, r), S, changed)
PlaceAll(S, M, located, r, spent) ==
  IncrementedDays(FoldLeft(LAMBDA T, p : PlacePhoto(T, M, p, spent), Carried(S, r),
                           InTimeOrder(M, located)), M, located, r)
Increment(S, M, open, r, spent) ==
  Finished(PlaceAll(S, M, Located(M, Unassigned(S, M, open)), r, spent), M, r)

IncrementAsks(S, M, open) == {p \in Unassigned(S, M, open) : M[p].at = NoGps}

-----------------------------------------------------------------------------
(* Otherwise the story is built anew around the locked records.            *)

LockHeld(S, held, areas) ==
  [LockStops(FoldSet(LAMBDA a, T : LockArea(T, a), S, areas), {n[2] : n \in held}) EXCEPT
     !.members = Locked(@, held)]
LockedAreaParts(S) ==
  LET held == {n \in DOMAIN S.members : S.members[n].locked \/ S.areas[n[1]].locked}
  IN  LockHeld(S, held, {a \in DOMAIN S.areas : S.areas[a].locked} \cup {n[1] : n \in held})

OnlyLockedStops(S) ==  \* mutant: moments go unless photos were moved there
  DropMoments([S EXCEPT !.legs = Restrict(@, {l \in DOMAIN @ : @[l].locked}),
                        !.members = Restrict(@, {n \in DOMAIN @ : @[n].locked}),
                        !.links = Restrict(@, {l \in DOMAIN @ : @[l]})],
              {m \in DOMAIN S.moments : \A p \in Photos : <<p, m>> \notin DOMAIN S.links
                                                            \/ ~ S.links[<<p, m>>]})
OnlyLocked(S) ==
  DropMoments([S EXCEPT !.legs = Restrict(@, {l \in DOMAIN @ : @[l].locked}),
                        !.members = Restrict(@, {n \in DOMAIN @ : @[n].locked}),
                        !.links = Restrict(@, {l \in DOMAIN @ : @[l]})],
              {m \in DOMAIN S.moments : ~ S.moments[m].locked})
WithoutEmptyAreas(S) ==
  DropAreas(S, {a \in DOMAIN S.areas : ~ S.areas[a].locked /\ MembersOf(S, a) = {}})
WithoutFreeStops(S) ==
  DropStops(S, {t \in DOMAIN S.stops : ~ S.stops[t].locked /\ AreasOf(S, t) = {}})
WithoutBareDays(S) ==
  ForDays(DropDay, S, {d \in DOMAIN S.days :
                         /\ ~ S.days[d] /\ StopsOf(S, d) = {}
                         /\ \A l \in DOMAIN S.legs : S.legs[l].day # d
                         /\ \A a \in DOMAIN S.areas : S.areas[a].day # d})
WithoutUnlocked(S) == WithoutBareDays(WithoutFreeStops(WithoutEmptyAreas(OnlyLocked(S))))

\* The moments of locked stops, to be restored if their photos lose them.
Snapshots(S) ==
  {[stop |-> S.moments[m].stop, from |-> S.moments[m].from, to |-> S.moments[m].to,
    photos |-> InMoment(S, m), moment |-> m] :
      m \in {k \in DOMAIN S.moments : S.stops[S.moments[k].stop].locked /\ InMoment(S, k) # {}}}
KeptPhotos(S) == UNION {x.photos : x \in Snapshots(S)}

RestoreEmptied(S, M, x, spent) ==  \* mutant: only stops left without photos
  LET m == NewMoment(S, spent)
      lost == {p \in x.photos : M[p].ready}
  IN  IF x.stop \notin DOMAIN S.stops \/ lost = {} \/ InStop(S, x.stop) # {} THEN S
      ELSE [S EXCEPT !.moments = @ @@ (m :> [stop |-> x.stop, from |-> x.from, to |-> x.to,
                                             locked |-> FALSE]),
                     !.links = @ @@ [l \in lost \X {m} |-> FALSE]]
Restore(S, M, x, spent) ==
  LET lost == {p \in x.photos : M[p].ready /\ p \notin InStop(S, x.stop)}
      m == NewMoment(S, spent)
  IN  IF x.stop \notin DOMAIN S.stops \/ lost = {} THEN S
      ELSE [S EXCEPT !.moments = @ @@ (m :> [stop |-> x.stop, from |-> x.from, to |-> x.to,
                                             locked |-> FALSE]),
                     !.links = @ @@ [l \in lost \X {m} |-> FALSE]]
RestoredDays(S, before) == {S.stops[S.moments[m].stop].day : m \in DOMAIN S.moments \ before}
RenumberRestored(S, before) ==
  [story |-> ForDays(Renumbered, S, RestoredDays(S, before)), days |-> RestoredDays(S, before)]
Restored(S, M, snapshots, spent) ==
  RenumberRestored(FoldSet(LAMBDA x, T : Restore(T, M, x, spent), S, snapshots), DOMAIN S.moments)

\* cluster_stops: photos of a date part where they are late or elsewhere.
Clusters(M, X) ==
  LET elsewhere == {pq \in X \X X : M[pq[1]].at # M[pq[2]].at}
  IN  UNION {Groups(M, {p \in X : Date(M, p) = d}, StopGap, elsewhere) :
               d \in {Date(M, p) : p \in X}}
Start(M, c) == Min(Times(M, c))
\* A photo without position between two of one stop belongs to it, if both came
\* with their position: one that a person put on the map has no confidence.
Bracketed(M, X, p, cluster) ==
  LET before == {q \in X : Time(M, q) < Time(M, p)}
      after == {q \in X : Time(M, q) > Time(M, p)}
  IN  /\ before # {} /\ after # {}
      /\ \E b \in before \cap cluster, a \in after \cap cluster :
           /\ Time(M, b) = Max(Times(M, before)) /\ Time(M, a) = Min(Times(M, after))
           /\ M[b].sure /\ M[a].sure
           /\ Time(M, p) - Time(M, b) <= BracketGap /\ Time(M, a) - Time(M, p) <= BracketGap

\* persist_clusters, without the moments
AddCluster(S, M, clusters, c, spent) ==
  LET date(b) == Start(M, b) \div DayLength
      earlier == {b \in clusters : date(b) = date(c) /\ Start(M, b) < Start(M, c)}
  IN  [FoundDay(S, date(c)) EXCEPT !.stops = @ @@ (NewStop(S, spent) :>
         [day |-> date(c), pos |-> 1 + Cardinality(earlier),
          from |-> Start(M, c), to |-> Max(Times(M, c)), at |-> {M[p].at : p \in c},
          locked |-> FALSE])]
AddClusters(S, M, clusters, spent) ==
  FoldLeft(LAMBDA T, c : AddCluster(T, M, clusters, c, spent), S,
           SetToSortSeq(clusters, LAMBDA b, c : Start(M, b) < Start(M, c)))
AddClusterMoments(S, M, usable, clusters, created, spent) ==
  LET of(t) == CHOOSE c \in clusters : Start(M, c) = S.stops[t].from
      near(c) == {p \in usable \ Located(M, usable) : Bracketed(M, Located(M, usable), p, c)}
  IN  FoldSet(LAMBDA t, T : AddMoments(T, M, t, MomentGroups(M, of(t) \cup near(of(t))), FALSE, spent),
              S, created)
\* persist_legs looks at the new stops only.
NewLegs(S, only, M, created, r) ==
  [S EXCEPT !.legs = @ @@
     [l \in UNION {{<<c[1], c[2], r>> : c \in Continuity(only, M, d)} :
                     d \in {S.stops[t].day : t \in created}} |-> Leg(S.stops[l[1]].day, FALSE)]]
AddLegs(S, M, created, r) == NewLegs(S, DropStops(S, DOMAIN S.stops \ created), M, created, r)

RebuildStops(restored, old, usable, clusters, M, log, r, spent) ==
  LET S == restored.story
      created == DOMAIN S.stops \ old
      free == {t \in DOMAIN S.stops : S.stops[t].locked /\ ~ Pinned(log, t)}
      filled == AddClusterMoments(Placed(S, M, free), M, usable, clusters, created, spent)
  IN  ForDays(LAMBDA T, d : RunLegs(T, M, d, r), Finished(AddLegs(filled, M, created, r), M, r),
              restored.days \cup {S.stops[t].day : t \in free})
RebuildAround(S, snapshots, usable, clusters, M, log, r, spent) ==
  RebuildStops(Restored(AddClusters(S, M, clusters, spent), M, snapshots, spent), DOMAIN S.stops,
               usable, clusters, M, log, r, spent)
UsableAll(S, M) == Points(M)  \* mutant: kept photos are clustered again
Usable(S, M) == Points(M) \ KeptPhotos(S)
Rebuild(S, M, log, r, spent) ==
  RebuildAround(WithoutUnlocked(LockedAreaParts(S)), Snapshots(S), Usable(S, M),
                Clusters(M, Located(M, Usable(S, M))), M, log, r, spent)

RebuildAsksNobody(S, M) == {}  \* mutant: an unplaced photo is passed over
RebuildAsks(S, M) ==
  {p \in Usable(S, M) \ Located(M, Usable(S, M)) :
     \A c \in Clusters(M, Located(M, Usable(S, M))) : ~ Bracketed(M, Located(M, Usable(S, M)), p, c)}

-----------------------------------------------------------------------------
Incremental(S, M, open, r) ==
  r > 1 /\ DOMAIN S.stops # {} /\ Unassigned(S, M, open) # {}

\* reconstruct_trip, up to its areas.
Rerun(S, M, open, log, r, spent) ==
  IF Incremental(S, M, open, r) THEN Increment(S, M, open, r, spent)
  ELSE Rebuild(S, M, log, r, spent)
\* The reviews it leaves open; its own are not locked.
Asked(S, M, open, r) ==
  LET mine(X) == [p \in X |-> FALSE]
  IN  IF Incremental(S, M, open, r) THEN open @@ mine(IncrementAsks(S, M, open))
      ELSE Restrict(open, {p \in DOMAIN open : open[p]}) @@ mine(RebuildAsks(S, M))
=============================================================================
