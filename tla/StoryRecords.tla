----------------------------- MODULE StoryRecords -----------------------------
(***************************************************************************)
(* The generated records of a trip's story and what both the edits of the  *)
(* API and the reruns of the worker do with them: foreign keys that        *)
(* cascade, locks, numbering, grouping by time and the legs of a day.      *)
(*                                                                         *)
(* A table is a function from the keys of its rows.  A key of links is a   *)
(* photo and a moment, of members an area and a stop, of legs two stops    *)
(* and the run the leg is stamped with: their unique constraints.  Other   *)
(* unlocked rows are always stamped with the latest run, because every run *)
(* deletes or restamps them, and a day is identified with its date.  A     *)
(* centroid is the set of positions it averages; two photos are within     *)
(* the radius of a stop when they are taken at one place.  Participants,   *)
(* places and wording are left out.                                        *)
(***************************************************************************)
EXTENDS Integers, SequencesExt

CONSTANTS
  Photos,       \* the photos of the trip
  Taken,        \* when each was taken
  By,           \* who took it
  DayLength,    \* the time units of a day
  MomentGap,    \* MOMENT_GAP_MINUTES
  StopGap,      \* STOP_GAP_MINUTES
  MinAreaStops, \* MIN_AREA_STOPS
  StopIds, MomentIds, AreaIds  \* bounds: the primary keys there may be

NoGps == "no gps"

NoRows == [x \in {} |-> x]
NoStory == [days |-> NoRows, stops |-> NoRows, moments |-> NoRows, links |-> NoRows,
            areas |-> NoRows, members |-> NoRows, legs |-> NoRows]

-----------------------------------------------------------------------------
(* Photos and the groups their times make.                                 *)

\* effective_captured_at_utc, which a correction shifts by whole days.
Time(M, p) == Taken[p] + DayLength * M[p].shift
Date(M, p) == Time(M, p) \div DayLength
Times(M, X) == {Time(M, p) : p \in X}
StoryVisible(M, p) == M[p].ready /\ M[p].shown

\* Photos in order of time, apart where the gap is longer than gap and where
\* two that follow each other are a pair of apart.
Groups(M, X, gap, apart) ==
  LET follows(p, q) == /\ Time(M, p) < Time(M, q)
                       /\ \A r \in X : ~ (Time(M, p) < Time(M, r) /\ Time(M, r) < Time(M, q))
      starts == {q \in X : \A p \in X : follows(p, q) =>
                   Time(M, q) - Time(M, p) > gap \/ <<p, q>> \in apart}
  IN  {{q \in X : /\ Time(M, q) >= Time(M, s)
                  /\ \A t \in starts : Time(M, t) > Time(M, s) => Time(M, q) < Time(M, t)}
        : s \in starts}
MomentGroups(M, X) == Groups(M, X, MomentGap, {})

-----------------------------------------------------------------------------
(* Rows and the foreign keys that cascade.                                 *)

MomentsOf(S, t) == {m \in DOMAIN S.moments : S.moments[m].stop = t}
InMoment(S, m) == {p \in Photos : <<p, m>> \in DOMAIN S.links}
InStop(S, t) == UNION {InMoment(S, m) : m \in MomentsOf(S, t)}
Linked(S) == {l[1] : l \in DOMAIN S.links}
StopsOf(S, d) == {t \in DOMAIN S.stops : S.stops[t].day = d}
MembersOf(S, a) == {n[2] : n \in {k \in DOMAIN S.members : k[1] = a}}
AreasOf(S, t) == {n[1] : n \in {k \in DOMAIN S.members : k[2] = t}}

\* The position of a stop is that of its photos, if any has one.
Centroid(S, M, t) ==
  LET at == {M[p].at : p \in InStop(S, t)} \ {NoGps}
  IN  IF at = {} THEN S.stops[t].at ELSE at
\* The stops in X follow their photos.
Placed(S, M, X) ==
  [S EXCEPT !.stops = [t \in X |-> [@[t] EXCEPT !.at = Centroid(S, M, t)]] @@ @]

DropMoments(S, X) ==
  [S EXCEPT !.moments = Restrict(@, DOMAIN @ \ X),
            !.links = Restrict(@, {l \in DOMAIN @ : l[2] \notin X})]
DropAreas(S, X) ==
  [S EXCEPT !.areas = Restrict(@, DOMAIN @ \ X),
            !.members = Restrict(@, {n \in DOMAIN @ : n[1] \notin X})]
DropStopsOnly(S, X) ==  \* mutant: the rows that refer to the stops stay
  [DropMoments(S, {m \in DOMAIN S.moments : S.moments[m].stop \in X}) EXCEPT
     !.stops = Restrict(@, DOMAIN @ \ X)]
DropStops(S, X) ==
  [DropMoments(S, {m \in DOMAIN S.moments : S.moments[m].stop \in X}) EXCEPT
     !.stops = Restrict(@, DOMAIN @ \ X),
     !.members = Restrict(@, {n \in DOMAIN @ : n[2] \notin X}),
     !.legs = Restrict(@, {l \in DOMAIN @ : l[1] \notin X /\ l[2] \notin X})]
DropDay(S, d) ==
  [DropAreas(S, {a \in DOMAIN S.areas : S.areas[a].day = d}) EXCEPT
     !.days = Restrict(@, DOMAIN @ \ {d})]

\* A new moment of a stop, with its photos.
AddMoment(S, M, t, X, lock, m) ==
  [S EXCEPT !.moments = @ @@ (m :> [stop |-> t, from |-> Min(Times(M, X)),
                                    to |-> Max(Times(M, X)), locked |-> lock]),
            !.links = @ @@ [l \in X \X {m} |-> lock]]
NewMoment(S, spent) == Min(MomentIds \ (DOMAIN S.moments \cup spent))
AddMoments(S, M, t, groups, lock, spent) ==
  FoldSet(LAMBDA X, T : AddMoment(T, M, t, X, lock, NewMoment(T, spent)), S, groups)

-----------------------------------------------------------------------------
(* Locks: lock_record, followed by lock_reconstruction_parents.            *)

Locked(table, X) == [x \in X |-> [table[x] EXCEPT !.locked = TRUE]] @@ table
LockStops(S, X) ==
  [S EXCEPT !.stops = Locked(@, X),
            !.days = [d \in {S.stops[t].day : t \in X} |-> TRUE] @@ @]
LockMoments(S, X) == [S EXCEPT !.moments = Locked(@, X)]
LockArea(S, a) ==
  [S EXCEPT !.areas[a].locked = TRUE, !.days[S.areas[a].day] = TRUE]
LockDay(S, d) == [S EXCEPT !.days[d] = TRUE]

-----------------------------------------------------------------------------
(* Order, numbering and legs.                                              *)

Earlier(S, t, u) ==
  LET x == S.stops[t]  y == S.stops[u]
  IN  \/ x.from < y.from
      \/ x.from = y.from /\ x.to < y.to
      \/ x.from = y.from /\ x.to = y.to /\ x.pos < y.pos
      \/ x.from = y.from /\ x.to = y.to /\ x.pos = y.pos /\ t < u

Renumbered(S, d) ==
  [S EXCEPT !.stops = [t \in StopsOf(S, d) |->
     [@[t] EXCEPT !.pos = 1 + Cardinality({u \in StopsOf(S, d) : Earlier(S, u, t)})]] @@ @]

\* Neighbours of a day.
Chain(S, d) ==
  {c \in StopsOf(S, d) \X StopsOf(S, d) :
     /\ Earlier(S, c[1], c[2])
     /\ ~ \E u \in StopsOf(S, d) : Earlier(S, c[1], u) /\ Earlier(S, u, c[2])}

Leg(d, lock) == [day |-> d, manual |-> FALSE, locked |-> lock]
Between(legs, c) == {l \in DOMAIN legs : l[1] = c[1] /\ l[2] = c[2]}

\* What an edit does with the legs of a day: inferred ones go, locked or not.
ManualLegs(S, d) ==
  Restrict(S.legs, {l \in DOMAIN S.legs : S.legs[l].day # d \/ S.legs[l].manual})
EditLegs(S, d, r) ==
  LET kept == ManualLegs(S, d)
      new == {c \in Chain(S, d) : Between(kept, c) = {}}
  IN  [S EXCEPT !.legs = kept @@ [l \in {<<c[1], c[2], r>> : c \in new} |-> Leg(d, TRUE)]]
\* scalar_one_or_none finds two legs of one pair.
EditLegsRaise(S, d) ==
  \E c \in Chain(S, d) : Cardinality(Between(ManualLegs(S, d), c)) > 1

\* From each contributor's photo to the next, where it is in another stop.
Observed(S, M, d) ==
  LET seen == {x \in Photos \X StopsOf(S, d) : x[1] \in InStop(S, x[2])}
      next(x, y) == /\ By[x[1]] = By[y[1]] /\ Time(M, x[1]) < Time(M, y[1])
                    /\ ~ \E z \in seen : /\ By[z[1]] = By[x[1]]
                                         /\ Time(M, x[1]) < Time(M, z[1])
                                         /\ Time(M, z[1]) < Time(M, y[1])
  IN  {<<e[1][2], e[2][2]>> :
        e \in {f \in seen \X seen : next(f[1], f[2]) /\ f[1][2] # f[2][2]}}

\* The length of the longest observed way to each stop; its position on a cycle.
Ranks(S, D, E) ==
  LET before(t) == {e[1] : e \in {f \in E : f[2] = t}}
      level(known, k) == [t \in {u \in D : before(u) \subseteq DOMAIN known} |-> k]
      ranked == FoldLeft(LAMBDA known, k : known @@ level(known, k), NoRows,
                         [k \in 1 .. Cardinality(D) |-> k])
  IN  IF E = {} THEN NoRows @@ [t \in D |-> 1 + Cardinality({u \in D : Earlier(S, u, t)})]
      ELSE ranked @@ [t \in D |-> S.stops[t].pos]

\* Observed ways, through the ranks they skip, and one way on from every stop.
FirstOf(S, D, rank, k) ==
  CHOOSE t \in D : rank[t] = k /\ \A u \in D : rank[u] = k => ~ Earlier(S, u, t)
Way(S, D, rank, e) ==
  LET j == rank[e[1]]  k == rank[e[2]]
      ranks == {i \in j .. k : i \in {j, k} \/ \E t \in D : rank[t] = i}
      at(i) == IF i = j THEN e[1] ELSE IF i = k THEN e[2] ELSE FirstOf(S, D, rank, i)
  IN  IF k <= j + 1 THEN {e}
      ELSE {<<at(x[1]), at(x[2])>> : x \in {y \in ranks \X ranks :
              y[1] < y[2] /\ ~ \E i \in ranks : y[1] < i /\ i < y[2]}}
WithWaysOn(S, D, rank, ways) ==
  LET later(t) == {rank[u] : u \in {v \in D : rank[v] > rank[t]}}
  IN  ways \cup {<<t, FirstOf(S, D, rank, Min(later(t)))>> :
                   t \in {u \in D : later(u) # {} /\ \A w \in ways : w[1] # u}}
Ways(S, D, E, rank) == WithWaysOn(S, D, rank, UNION {Way(S, D, rank, e) : e \in E})
RankedWays(S, D, E) == Ways(S, D, E, Ranks(S, D, E))
Continuity(S, M, d) == RankedWays(S, StopsOf(S, d), Observed(S, M, d))

\* What a run, or the removal of a photo, does with the legs of a day.
LockedLegs(S, d) ==
  Restrict(S.legs, {l \in DOMAIN S.legs : S.legs[l].day # d \/ S.legs[l].locked})
RunLegs(S, M, d, r) ==
  IF d \notin DOMAIN S.days THEN [S EXCEPT !.legs = LockedLegs(S, d)]
  ELSE [S EXCEPT !.legs =
          LockedLegs(S, d) @@ [l \in {<<c[1], c[2], r>> : c \in Continuity(S, M, d)} |->
                                 Leg(d, FALSE)]]
\* The unique constraint of the legs of one run refuses the new ones.
RunLegsRaise(S, M, d, r) ==
  d \in DOMAIN S.days /\
  \E c \in Continuity(S, M, d) : <<c[1], c[2], r>> \in DOMAIN LockedLegs(S, d)

\* A day that nobody locked goes with its last record.
CleanDay(S, d) ==
  IF /\ d \in DOMAIN S.days /\ ~ S.days[d] /\ StopsOf(S, d) = {}
     /\ \A l \in DOMAIN S.legs : S.legs[l].day # d
     /\ \A a \in DOMAIN S.areas : S.areas[a].day = d => S.areas[a].deleted
    THEN DropDay(S, d) ELSE S

ForDays(Op(_, _), S, X) == FoldSet(LAMBDA d, T : Op(T, d), S, X)
=============================================================================
