----------------------------- MODULE AreaGrouping -----------------------------
(* group_area_visits: the greedy walk over the stops of a trip in order that *)
(* proposes areas, runs of consecutive stops close to one another, one seed  *)
(* of MinStops stops first and then one stop more at a time.  Stops lie on a *)
(* line, distances and times are integers, and confidences are in percent.   *)
EXTENDS Integers, Sequences, FiniteSetsExt, Functions

CONSTANTS
  Inputs,        \* the stop sequences to group, in the order of the sort key
  MinStops, MaxPrevious, MaxCenter, MaxDiameter, MaxGap

VARIABLES
  stops,         \* [day, position, starts, ends, place, trust] by index
  index,         \* the first stop not yet decided
  area,          \* <<first, last>> of the candidate that is growing, or << >>
  areas,         \* the areas proposed so far, as <<first, last>>
  standalone     \* the indices left outside of areas

vars == <<stops, index, area, areas, standalone>>

Nowhere == -999
Located(i) == stops[i].place # Nowhere
Distance(i, j) == IF stops[i].place < stops[j].place
                  THEN stops[j].place - stops[i].place ELSE stops[i].place - stops[j].place
Members(a) == a[1] .. a[2]

TypeOK ==
  /\ index \in 1 .. Len(stops) + 1
  /\ area \in Seq(1 .. Len(stops)) /\ Len(area) \in {0, 2}
  /\ \A a \in areas : a[1] \in 1 .. Len(stops) /\ a[2] \in a[1] .. Len(stops)
  /\ standalone \subseteq 1 .. Len(stops)

Init ==
  /\ stops \in Inputs
  /\ index = 1 /\ area = << >> /\ areas = {} /\ standalone = {}

(***************************************************************************)
(* The measures of a candidate.                                            *)
(***************************************************************************)
\* The member closest to the others, the earliest of those.
Medoid(S) ==
  LET located == {i \in S : Located(i)}
      total == [i \in located |-> SumFunction([j \in located |-> Distance(i, j)])]
  IN CHOOSE i \in located : \A j \in located :
       total[i] < total[j] \/ (total[i] = total[j] /\ i <= j)

Diameter(S) == Max({0} \cup {Distance(p[1], p[2]) : p \in {i \in S : Located(i)} \X {i \in S : Located(i)}})

\* Whether stop c may follow the members S, which end at stop c - 1.
Follows(c) == stops[c].day = stops[c - 1].day /\ stops[c].position = stops[c - 1].position + 1
Gap(c) == stops[c].starts - stops[c - 1].ends
AcceptedByNeighbour(S, c) ==
  /\ Follows(c) /\ Gap(c) <= MaxGap /\ Located(c - 1) /\ Located(c)
  /\ Distance(c - 1, c) <= MaxPrevious
Accepted(S, c) ==
  /\ Follows(c) /\ Gap(c) <= MaxGap /\ Located(c - 1) /\ Located(c)
  /\ Distance(c - 1, c) <= MaxPrevious
  /\ Distance(Medoid(S), c) <= MaxCenter
  /\ Diameter(S \cup {c}) <= MaxDiameter

\* Each stop of the run is accepted by the ones before it.
Chained(first, last) == \A c \in first + 1 .. last : Accepted(first .. c - 1, c)

\* The seed is complete and each of its stops accepted.
SeedHolds(i) == i + MinStops - 1 <= Len(stops) /\ Chained(i, i + MinStops - 1)

(***************************************************************************)
(* The walk.                                                               *)
(***************************************************************************)
LeaveAlone ==
  /\ area = << >> /\ index <= Len(stops) /\ ~SeedHolds(index)
  /\ standalone' = standalone \cup {index}
  /\ index' = index + 1
  /\ UNCHANGED <<stops, area, areas>>

StartArea ==
  /\ area = << >> /\ index <= Len(stops) /\ SeedHolds(index)
  /\ area' = <<index, index + MinStops - 1>>
  /\ index' = index + MinStops
  /\ UNCHANGED <<stops, areas, standalone>>

GrowsUnlessLast == index < Len(stops) /\ Accepted(area[1] .. area[2], index)
GrowsByItsEnd == index <= Len(stops) /\ Accepted(area[2] - 1 .. area[2], index)
Grows == index <= Len(stops) /\ Accepted(area[1] .. area[2], index)

Extend ==
  /\ area # << >> /\ Grows
  /\ area' = <<area[1], index>>
  /\ index' = index + 1
  /\ UNCHANGED <<stops, areas, standalone>>

AfterSkipping == IF index <= Len(stops) THEN index + 1 ELSE index
AfterArea == index

\* The stop that ended the area is looked at again, as the start of a seed.
FinishArea ==
  /\ area # << >> /\ ~Grows
  /\ areas' = areas \cup {area}
  /\ area' = << >>
  /\ index' = AfterArea
  /\ UNCHANGED <<stops, standalone>>

Done == area = << >> /\ index > Len(stops)

Next == LeaveAlone \/ StartArea \/ Extend \/ FinishArea

Spec == Init /\ [][Next]_vars

(***************************************************************************)
(* The confidence of an area: the decisions are taken again over its       *)
(* members, and the tightest of each measure takes something off.          *)
(***************************************************************************)
Replayed(a) == Chained(a[1], a[2])

Penalty(value, limit) ==
  CASE 100 * value >= 95 * limit -> 12
    [] 100 * value >= 85 * limit /\ 100 * value < 95 * limit -> 8
    [] 100 * value >= 75 * limit /\ 100 * value < 85 * limit -> 4
    [] OTHER -> 0

Confidence(a) ==
  LET later == a[1] + 1 .. a[2]
      trust == CHOOSE t \in {stops[i].trust : i \in Members(a)} :
                 \A i \in Members(a) : t <= stops[i].trust
  IN 95 - (IF Cardinality(Members(a)) = MinStops THEN 5 ELSE 0)
        - Penalty(Max({Distance(c - 1, c) : c \in later}), MaxPrevious)
        - Penalty(Max({Distance(Medoid(a[1] .. c - 1), c) : c \in later}), MaxCenter)
        - Penalty(Max({Diameter(a[1] .. c) : c \in later}), MaxDiameter)
        - Penalty(Max({Gap(c) : c \in later}), MaxGap)
        - (IF trust < 70 THEN 15 ELSE IF trust < 85 THEN 5 ELSE 0)

\* Below this confidence a review item is added for the area.
Reviewed(a) == Confidence(a) < 70

(***************************************************************************)
(* Properties.                                                             *)
(***************************************************************************)
\* An area is a run of three or more stops of one day, without a skipped stop,
\* a long pause or a stop without location, and no wider than its limit,
\* however the walk chained one stop to the next.
AreasAreCompact ==
  \A a \in areas :
    /\ Cardinality(Members(a)) >= MinStops /\ Diameter(Members(a)) <= MaxDiameter
    /\ \A i \in Members(a) : Located(i)
    /\ \A i \in a[1] + 1 .. a[2] : Follows(i) /\ Gap(i) <= MaxGap

\* The walk decides each stop exactly once.
EachStopOnce ==
  Done => \A i \in 1 .. Len(stops) :
    LET holding == {a \in areas : i \in Members(a)} IN
    IF i \in standalone THEN holding = {} ELSE Cardinality(holding) = 1

\* The walk misses nothing: no stops left alone would make a seed, and the
\* stop after an area would not have been accepted into it.
NoAreaIsMissed ==
  Done =>
    /\ \A i \in standalone : (i .. i + MinStops - 1) \subseteq standalone => ~SeedHolds(i)
    /\ \A a \in areas : a[2] < Len(stops) => ~Accepted(Members(a), a[2] + 1)

\* The decisions that confidence_for_area takes again accept every member, so
\* that its confidence takes each of them into account, and an area with a
\* doubtful location at the edge of two of its limits is never shown without
\* a review.
ConfidenceSeesEveryStop ==
  \A a \in areas :
    /\ Replayed(a)
    /\ (/\ \E i \in Members(a) : stops[i].trust < 70
        /\ 100 * Diameter(Members(a)) >= 95 * MaxDiameter
        /\ \E i \in a[1] + 1 .. a[2] : Distance(i - 1, i) = MaxPrevious) => Reviewed(a)
===============================================================================
