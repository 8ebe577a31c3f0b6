---------------------------- MODULE Collaboration ----------------------------
(* Collaboration intelligence of one trip: the similarity groups and clock  *)
(* suggestions that every reconstruction deletes and makes again, and the   *)
(* choices of the organizers that lock them.  An analysis deletes the rows  *)
(* it replaces first and holds their locks until the run commits, so that a *)
(* choice either comes before it or fails: it is one step here.             *)
EXTENDS Integers, FiniteSets, Sequences

CONSTANTS
  Photos, Order,      \* the photos, in the order of their rows and their ingests
  Removable,          \* the photos a contributor may delete
  Picked,             \* the photos an organizer may choose to represent a group
  Devices, DeviceOf,  \* capture_devices; Nobody for a photo without hints
  Nobody,
  CapturedAt,         \* original_captured_at_utc, in minutes
  Checksum,           \* sha256 of the original
  Score,              \* technical_score of the photo
  Alike, StrongAlike, \* pairs of photos whose hashes differ in <= 10, <= 8 bits
  Far,                \* pairs taken more than 150 m apart
  TimeWindow, MaxOffset, MaxDispersion, MinSupport,
  MaxRuns             \* bound on the analyses of a behaviour

VARIABLES
  ready,        \* processing_state of each photo is READY
  deleted,
  effective,    \* effective_captured_at_utc
  accepted,     \* accepted_clock_offset_seconds of each device, as a set
  groups, suggestions, run

vars == <<ready, deleted, effective, accepted, groups, suggestions, run>>

Offsets == -MaxOffset .. MaxOffset

TypeOK ==
  /\ ready \subseteq Photos /\ deleted \subseteq Photos
  /\ effective \in [Photos -> Int]
  /\ \A d \in Devices : accepted[d] \subseteq Offsets /\ Cardinality(accepted[d]) <= 1
  /\ \A g \in groups : g.members \subseteq Photos /\ g.representative \in g.members
  /\ \A s \in suggestions : s.device \in Devices /\ s.offset \in Offsets /\ s.run <= run
  /\ run \in 0 .. MaxRuns

Init ==
  /\ ready = {} /\ deleted = {}
  /\ effective = CapturedAt
  /\ accepted = [d \in Devices |-> {}]
  /\ groups = {} /\ suggestions = {} /\ run = 0

Absolute(n) == IF n < 0 THEN -n ELSE n

\* apply_processed_media: the effective time of a new photo is the time of its
\* metadata, whatever offset its device has.
Ingest(p) ==
  /\ Cardinality(ready) < Len(Order) /\ p = Order[Cardinality(ready) + 1]
  /\ ready' = ready \cup {p}
  /\ UNCHANGED <<deleted, effective, accepted, groups, suggestions, run>>

DeleteMedia(p) ==
  /\ p \in (ready \cap Removable) \ deleted
  /\ deleted' = deleted \cup {p}
  /\ UNCHANGED <<ready, effective, accepted, groups, suggestions, run>>

(***************************************************************************)
(* Similarity.                                                             *)
(***************************************************************************)
Media == ready \ deleted

Duplicates(M) ==
  {S \in {{q \in M : Checksum[q] = Checksum[p]} : p \in M} : Cardinality(S) > 1}
SimilarCandidatesAll(M) == M
SimilarCandidates(M) == M \ UNION Duplicates(M)

Matches(p, q) ==
  /\ Absolute(effective[p] - effective[q]) <= TimeWindow
  /\ {p, q} \notin Far /\ {p, q} \in Alike

\* find: the root of a photo in the forest of parents.
Root(parent, p) ==
  LET up[n \in 0 .. Cardinality(Photos)] == IF n = 0 THEN p ELSE parent[up[n - 1]]
  IN up[Cardinality(Photos)]
UnionOfLeaf(parent, p, q) == [parent EXCEPT ![q] = Root(parent, p)]
Union(parent, p, q) == [parent EXCEPT ![Root(parent, q)] = Root(parent, p)]

\* load_media: the photos by time, and by creation those of one time.
Before(p, q) ==
  \/ effective[p] < effective[q]
  \/ effective[p] = effective[q] /\ \E i, j \in DOMAIN Order : i < j /\ Order[i] = p /\ Order[j] = q
ByTime(M) ==
  [k \in 1 .. Cardinality(M) |-> CHOOSE p \in M : Cardinality({q \in M : Before(q, p)}) = k - 1]

\* The forest once a photo has been compared with each of the later ones, and
\* once all photos have.
Compared(ordered, i, forest) ==
  LET joined[j \in i .. Len(ordered)] ==
        IF j = i THEN forest
        ELSE IF Matches(ordered[i], ordered[j])
          THEN Union(joined[j - 1], ordered[i], ordered[j]) ELSE joined[j - 1]
  IN joined[Len(ordered)]
Forest(M) ==
  LET ordered == ByTime(M)
      after[i \in 0 .. Len(ordered)] ==
        IF i = 0 THEN [p \in M |-> p] ELSE Compared(ordered, i, after[i - 1])
  IN after[Len(ordered)]
Similar(M) ==
  LET forest == Forest(M)
      roots == [p \in M |-> Root(forest, p)]
  IN {S \in {{q \in M : roots[q] = roots[p]} : p \in M} : Cardinality(S) > 1}

\* persist_similarity_group: the representative has the best technical score.
Best(S) == CHOOSE p \in S : \A q \in S : Score[q] <= Score[p]
Grouped(M) ==
  {[members |-> S, representative |-> Best(S), locked |-> FALSE, run |-> run + 1]
     : S \in Duplicates(M) \cup Similar(SimilarCandidates(M))}

(***************************************************************************)
(* Clocks.                                                                 *)
(***************************************************************************)
\* The matches that speak for an offset of a device: its photo first.
Delta(e) == effective[e[2]] - effective[e[1]]
Evidence(M, d) ==
  {e \in M \X M :
    /\ DeviceOf[e[1]] = d /\ DeviceOf[e[2]] \notin {d, Nobody}
    /\ {e[1], e[2]} \in StrongAlike /\ {e[1], e[2]} \notin Far
    /\ Absolute(Delta(e)) <= MaxOffset}

\* round(median(...)) of the values f gives to the elements of E: the mean of
\* the middle two of an even number, rounded half to even.
Ranked(E, f, k) ==
  CHOOSE v \in {f[e] : e \in E} :
    /\ Cardinality({e \in E : f[e] < v}) < k
    /\ Cardinality({e \in E : f[e] <= v}) >= k
Halved(n) == IF n % 2 = 0 THEN n \div 2 ELSE ((n \div 2 + 1) \div 2) * 2
Median(E, f) ==
  LET n == Cardinality(E) IN
  Halved(Ranked(E, f, (n + 1) \div 2) + Ranked(E, f, n \div 2 + 1))

Offset(E) == Median(E, [e \in E |-> Delta(e)])
Dispersion(E) == Median(E, [e \in E |-> Absolute(Delta(e) - Offset(E))])

Suggested(M) ==
  {[device |-> d, offset |-> Offset(Evidence(M, d)), status |-> "open", run |-> run + 1]
     : d \in {d \in Devices :
                /\ Cardinality(Evidence(M, d)) >= MinSupport
                /\ Dispersion(Evidence(M, d)) <= MaxDispersion}}

(***************************************************************************)
(* The analysis and the choices.                                           *)
(***************************************************************************)
KeptNothing == [groups |-> {}, suggestions |-> {}]
Kept == [groups |-> {g \in groups : g.locked},
         suggestions |-> {s \in suggestions : s.status # "open"}]

\* analyze_collaboration, at the end of every reconstruction.
Analyze ==
  /\ run < MaxRuns
  /\ run' = run + 1
  /\ groups' = Kept.groups \cup Grouped(Media)
  /\ suggestions' = Kept.suggestions \cup Suggested(Media)
  /\ UNCHANGED <<ready, deleted, effective, accepted>>

CorrectedAgain(p, offset) == effective[p] + offset
Corrected(p, offset) == CapturedAt[p] + offset

\* A suggestion may be decided again: its status is not asked for.  A
\* photo that is waiting for its ingest has no device yet.
Accept(s) ==
  /\ suggestions' = (suggestions \ {s}) \cup {[s EXCEPT !.status = "accepted"]}
  /\ accepted' = [accepted EXCEPT ![s.device] = {s.offset}]
  /\ effective' = [p \in Photos |->
       IF p \in Media /\ DeviceOf[p] = s.device THEN Corrected(p, s.offset) ELSE effective[p]]
  /\ UNCHANGED <<ready, deleted, groups, run>>

Reject(s) ==
  /\ suggestions' = (suggestions \ {s}) \cup {[s EXCEPT !.status = "rejected"]}
  /\ UNCHANGED <<ready, deleted, effective, accepted, groups, run>>

SelectRepresentative(g, p) ==
  /\ p \in g.members \cap Picked
  /\ groups' = (groups \ {g}) \cup {[g EXCEPT !.representative = p, !.locked = TRUE]}
  /\ UNCHANGED <<ready, deleted, effective, accepted, suggestions, run>>

Next ==
  \/ \E p \in Photos : Ingest(p) \/ DeleteMedia(p)
  \/ Analyze
  \/ \E s \in suggestions : Accept(s) \/ Reject(s)
  \/ \E g \in groups : \E p \in Photos : SelectRepresentative(g, p)

Spec == Init /\ [][Next]_vars

(***************************************************************************)
(* Properties.                                                             *)
(***************************************************************************)
Latest == {g \in groups : g.run = run}

\* An analysis puts a photo in at most one group: the similar photos are looked
\* for among those that have no exact duplicate.
GroupsAreApart ==
  \A g, h \in Latest : g # h => g.members \cap h.members = {}

\* The forest of visually_similar_sets has a tree for each component of the
\* matching photos, whatever the order of the unions: no match is left between
\* two of its sets, and none of its sets falls apart.
ForestIsComponents ==
  LET M == SimilarCandidates(Media)
      sets == Similar(M)
      setOf(p) == UNION {S \in sets : p \in S}
  IN /\ \A p, q \in M : p # q /\ Matches(p, q) => q \in setOf(p)
     /\ \A S \in sets : \A half \in (SUBSET S) \ {{}, S} :
          \E p \in half, q \in S \ half : Matches(p, q)

\* However often offsets are suggested and accepted, a photo's time is that of
\* its metadata or one accepted offset away from it: corrections do not add up.
CorrectionsDoNotAddUp ==
  \A p \in Photos : effective[p] = CapturedAt[p] \/
    (\E s \in suggestions : s.device = DeviceOf[p] /\ s.status # "open"
                            /\ effective[p] = CapturedAt[p] + s.offset)

\* A reconstruction never deletes nor changes a group or a suggestion that a
\* person has decided.
ChoicesStay ==
  run' # run =>
    /\ {g \in groups : g.locked} \subseteq groups'
    /\ {s \in suggestions : s.status # "open"} \subseteq suggestions'
ChoicesSurviveAnalysis == [][ChoicesStay]_vars
===============================================================================
