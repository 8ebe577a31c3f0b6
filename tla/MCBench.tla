-------------------------------- MODULE MCBench --------------------------------
(* Small components checked side by side.  A behaviour belongs to one of      *)
(* them, its mode; the variables of the others do not move.  Uploads runs     *)
(* once with each blob store, with clients that wait for their answers, and   *)
(* once with a client that repeats its requests.                              *)
EXTENDS Membership, Integers, TLC

CONSTANTS ann, bob, t1, t2, i1, i2, h1, h2, h3, f1, f2, f3, s1, s2, p1, p2, p3, p4, p5, canon, nikon,
          NoDevice

VARIABLES
  mode,
  file, session, photo, blob, unlabelled, upload,
  stops, index, area, areas, standalone,
  ready, gone, effective, accepted, groups, suggestions, run,
  job, waiting, placed, pc, task, attempt, seen, points,
  item, shown, latest, draft, pages, atlas, request,
  ingest, media, original, derived, worker, claim, loaded, held, stored, retry

uploadVars == <<file, session, photo, blob, unlabelled, upload>>
areaVars == <<stops, index, area, areas, standalone>>
sharingVars == <<ready, gone, effective, accepted, groups, suggestions, run>>
updateVars == <<job, waiting, placed, pc, task, attempt, seen, points>>
pageVars == <<item, shown, latest, draft, pages, atlas, request>>
ingestVars == <<ingest, media, original, derived, worker, claim, loaded, held, stored, retry>>

(* Membership: two trips with an invitation each. *)
OneInvitationEach == i1 :> t1 @@ i2 :> t2

(* Uploads. *)
Threads == {h1, h2}
Album == f1 :> s1 @@ f2 :> s1 @@ f3 :> s2
AnySize == f1 :> {"photo", "other"} @@ f2 :> {"photo", "short", "long"} @@ f3 :> {"photo"}
Pair == f1 :> s1 @@ f2 :> s1
Either == f1 :> {"photo", "other"} @@ f2 :> {"photo"}
Calm(store) ==
  INSTANCE Uploads WITH
    Files <- {f1, f2, f3}, Sessions <- {s1, s2}, SessionOf <- Album,
    Handlers <- Threads, Store <- store, MaxFiles <- 2, MaxBytes <- 4, Repeats <- {}, Sends <- AnySize,
    req <- upload
Repeating ==
  INSTANCE Uploads WITH
    Files <- {f1, f2}, Sessions <- {s1}, SessionOf <- Pair,
    Handlers <- Threads, Store <- "local", MaxFiles <- 2, MaxBytes <- 4, Repeats <- {f1}, Sends <- Either,
    req <- upload
Kinds == {"local", "oci_proxy", "oci_direct"}

(* Areas: five stops, each a step away from the one before it. *)
Links ==
  [move : {-3, 3, 4, 5}, kind : {"near"}]
    \cup [move : {2}, kind : {"late", "elsewhere", "lost"}]
Build(links, trust) ==
  LET place[i \in 1..5] == IF i = 1 THEN 0 ELSE place[i - 1] + links[i - 1].move
      starts[i \in 1..5] ==
        IF i = 1 THEN 0 ELSE starts[i - 1] + (IF links[i - 1].kind = "late" THEN 6 ELSE 4)
      position[i \in 1..5] ==
        IF i = 1 THEN 1 ELSE position[i - 1] + (IF links[i - 1].kind = "elsewhere" THEN 2 ELSE 1)
  IN [i \in 1..5 |->
       [day |-> 1, position |-> position[i], starts |-> starts[i], ends |-> starts[i] + 1,
        place |-> IF i > 1 /\ links[i - 1].kind = "lost" THEN -999 ELSE place[i],
        trust |-> trust]]
Routes == {Build(links, trust) : links \in [1..4 -> Links], trust \in {60, 90}}
Grouping ==
  INSTANCE AreaGrouping WITH
    Inputs <- Routes, MinStops <- 3, MaxPrevious <- 4, MaxCenter <- 7, MaxDiameter <- 12, MaxGap <- 4

(* Collaboration: two devices with two photos each, and a copy of one. *)
Pictures == <<p1, p2, p3, p4, p5>>
Pairs == {{p, q} : p, q \in {p1, p2, p3, p4}} \ {{p1}, {p1, p2}}
Cameras == p1 :> canon @@ p2 :> canon @@ p3 :> nikon @@ p4 :> nikon @@ p5 :> NoDevice
Clock == p1 :> 0 @@ p2 :> 10 @@ p3 :> 20 @@ p4 :> 45 @@ p5 :> 45
Bytes == p1 :> p1 @@ p2 :> p2 @@ p3 :> p3 @@ p4 :> p4 @@ p5 :> p4
Quality == p1 :> 2 @@ p2 :> 1 @@ p3 :> 3 @@ p4 :> 2 @@ p5 :> 4
Sharing ==
  INSTANCE Collaboration WITH
    Photos <- {p1, p2, p3, p4, p5}, Order <- Pictures, Removable <- {p4}, Picked <- {p1},
    Devices <- {canon, nikon}, Nobody <- NoDevice,
    DeviceOf <- Cameras, CapturedAt <- Clock, Checksum <- Bytes, Score <- Quality,
    Alike <- Pairs, StrongAlike <- Pairs, Far <- {},
    TimeWindow <- 30, MaxOffset <- 720, MaxDispersion <- 13, MinSupport <- 3, MaxRuns <- 2,
    deleted <- gone

(* The automatic story update with three worker threads. *)
Updating ==
  INSTANCE AutoStoryUpdate WITH
    Photos <- {p1, p2, p3}, Workers <- {h1, h2, h3}, MaxAttempts <- 2,
    LockOutlivesHandlers <- TRUE, DelayOutlivesRun <- TRUE, photo <- waiting

(* The projections of a trip, with two photos and two threads. *)
Paging ==
  INSTANCE Projections WITH
    Photos <- {p1, p2}, Handlers <- Threads, MaxVersions <- 3, MaxRuns <- 2,
    media <- item, placed <- shown, run <- latest, photos <- pages, map <- atlas, req <- request

(* The ingest of a photo by two threads, with handlers of any length and      *)
(* faults at any point.  Users retry it at any time when its job has one      *)
(* attempt, when it has failed if its job has two.                            *)
Names ==
  INSTANCE MediaIngest WITH
    Media <- {p1}, Invalid <- {}, Workers <- Threads, MaxAttempts <- 1,
    LockOutlivesHandlers <- FALSE, UserRetries <- TRUE, FaultPoints <- {},
    job <- ingest, pc <- worker, seen <- loaded, item <- held
Ingest(attempts) ==
  INSTANCE MediaIngest WITH
    Media <- {p1}, Invalid <- {}, Workers <- Threads, MaxAttempts <- attempts,
    LockOutlivesHandlers <- FALSE, UserRetries <- TRUE, FaultPoints <- Names!PCs \ {"down"},
    job <- ingest, pc <- worker, seen <- loaded, item <- held
Attempts == [once |-> 1, again |-> 2]

NoUploads ==
  file = {} /\ session = {} /\ photo = {} /\ blob = {} /\ unlabelled = {} /\ upload = {}
NoAreas == stops = {} /\ index = {} /\ area = {} /\ areas = {} /\ standalone = {}
NoSharing ==
  /\ ready = {} /\ gone = {} /\ effective = {} /\ accepted = {}
  /\ groups = {} /\ suggestions = {} /\ run = {}

NoUpdates ==
  /\ job = {} /\ waiting = {} /\ placed = {} /\ pc = {}
  /\ task = {} /\ attempt = {} /\ seen = {} /\ points = {}
NoPages ==
  /\ item = {} /\ shown = {} /\ latest = {} /\ draft = {}
  /\ pages = {} /\ atlas = {} /\ request = {}

NoIngest ==
  /\ ingest = {} /\ media = {} /\ original = {} /\ derived = {} /\ worker = {}
  /\ claim = {} /\ loaded = {} /\ held = {} /\ stored = {} /\ retry = {}

BenchInit ==
  /\ Init
  /\ \/ mode = "membership" /\ NoUploads /\ NoAreas /\ NoSharing /\ NoUpdates /\ NoPages
     \/ /\ mode \in Kinds /\ \E s \in Kinds : s = mode /\ Calm(s)!Init
        /\ NoAreas /\ NoSharing /\ NoUpdates /\ NoPages
     \/ mode = "repeats" /\ Repeating!Init /\ NoAreas /\ NoSharing /\ NoUpdates /\ NoPages
     \/ mode = "areas" /\ Grouping!Init /\ NoUploads /\ NoSharing /\ NoUpdates /\ NoPages
     \/ mode = "sharing" /\ Sharing!Init /\ NoUploads /\ NoAreas /\ NoUpdates /\ NoPages
     \/ mode = "updates" /\ Updating!Init /\ NoUploads /\ NoAreas /\ NoSharing /\ NoPages
     \/ mode = "pages" /\ Paging!Init /\ NoUploads /\ NoAreas /\ NoSharing /\ NoUpdates
     \/ /\ mode \in DOMAIN Attempts /\ Names!Init
        /\ NoUploads /\ NoAreas /\ NoSharing /\ NoUpdates /\ NoPages
  /\ mode \notin DOMAIN Attempts => NoIngest

MembershipStep ==
  /\ mode = "membership" /\ Next
  /\ UNCHANGED <<mode, uploadVars, areaVars, sharingVars, updateVars, pageVars, ingestVars>>
UploadStep ==
  /\ \/ \E s \in Kinds : s = mode /\ Calm(s)!Next
     \/ mode = "repeats" /\ Repeating!Next
  /\ UNCHANGED <<mode, vars, areaVars, sharingVars, updateVars, pageVars, ingestVars>>
AreaStep ==
  /\ mode = "areas" /\ Grouping!Next
  /\ UNCHANGED <<mode, vars, uploadVars, sharingVars, updateVars, pageVars, ingestVars>>
SharingStep ==
  /\ mode = "sharing" /\ Sharing!Next
  /\ UNCHANGED <<mode, vars, uploadVars, areaVars, updateVars, pageVars, ingestVars>>
UpdateStep ==
  /\ mode = "updates" /\ Updating!Next
  /\ UNCHANGED <<mode, vars, uploadVars, areaVars, sharingVars, pageVars, ingestVars>>
PageStep ==
  /\ mode = "pages" /\ Paging!Next
  /\ UNCHANGED <<mode, vars, uploadVars, areaVars, sharingVars, updateVars, ingestVars>>
IngestStep ==
  /\ \/ mode = "once" /\ Ingest(1)!Next
     \/ /\ mode = "again" /\ Ingest(2)!Next
        /\ retry[p1] = Names!NoRetry /\ retry'[p1] # Names!NoRetry => ingest[p1].state = "failed"
  /\ UNCHANGED <<mode, vars, uploadVars, areaVars, sharingVars, updateVars, pageVars>>

BenchNext ==
  \/ MembershipStep \/ UploadStep \/ AreaStep \/ SharingStep
  \/ UpdateStep \/ PageStep \/ IngestStep

BenchSpec ==
  /\ BenchInit
  /\ [][BenchNext]_<<mode, vars, uploadVars, areaVars, sharingVars, updateVars, pageVars,
                   ingestVars>>

Symmetry == Permutations(Threads)

(***************************************************************************)
(* Properties.  Those of Membership are checked under their own names.     *)
(***************************************************************************)

\* One photo per file however often its completion is repeated, and photos and
\* pending uploads within the limit of the trip.  A completed session has a photo
\* for each of its files, and every photo whose ingest is to come an original of
\* the declared size, unless the client overlaps the requests about the file.
UploadsHold ==
  /\ mode = "repeats" =>
       /\ Repeating!TypeOK /\ Repeating!OnePhotoPerFile
       /\ Repeating!CompletedSessionIsTrue /\ Repeating!WaitingPhotosHaveTheirOriginal
  /\ \A s \in Kinds : mode = s =>
       /\ Calm(s)!TypeOK /\ Calm(s)!OnePhotoPerFile /\ Calm(s)!PhotoLimit
       /\ Calm(s)!CompletedSessionIsTrue /\ Calm(s)!WaitingPhotosHaveTheirOriginal

\* The walk over the stops proposes compact areas, decides each stop once,
\* misses no area and takes every stop into account in its confidence.
AreasHold ==
  mode = "areas" =>
    /\ Grouping!TypeOK /\ Grouping!AreasAreCompact /\ Grouping!EachStopOnce
    /\ Grouping!NoAreaIsMissed /\ Grouping!ConfidenceSeesEveryStop

\* Groups of one analysis are the components of the matching photos and do not
\* overlap, and the clock corrections of a photo do not add up.
GroupsAndClocksHold ==
  mode = "sharing" =>
    /\ Sharing!TypeOK /\ Sharing!GroupsAreApart
    /\ Sharing!ForestIsComponents /\ Sharing!CorrectionsDoNotAddUp

\* A reconstruction keeps every group and suggestion a person has decided.
ChoicesSurviveAnalysis == [][mode = "sharing" => Sharing!ChoicesStay]_<<mode, sharingVars>>

\* Requests for an update that arrive at any time never start a second one
\* beside one that runs.
OneUpdateRuns ==
  mode = "updates" => Updating!TypeOK /\ Updating!OneUpdateAtATime

\* What a trip keeps ready shows its story and its map as they are, whatever
\* edits, ingests, runs and readers overlap; photos read without the lock before
\* an edit was committed are excepted, and so are deleted photos on the map.
PagesHold ==
  mode = "pages" =>
    Paging!TypeOK /\ Paging!ProjectionsShowTheStory /\ Paging!MapShowsThePhotos

\* Whatever is killed, overrun or retried, a READY photo has its derivatives, a
\* photo recorded as without original has none, and an original leaves only
\* after both derivatives are stored.
ReadyHasDerivatives ==
  \A m \in DOMAIN Attempts :
    mode = m => Ingest(Attempts[m])!TypeOK /\ Ingest(Attempts[m])!ReadyHasDerivatives
DeletedOriginalIsGone == mode \in DOMAIN Attempts => Names!DeletedOriginalIsGone
OriginalLeavesAfterDerivatives ==
  mode \in DOMAIN Attempts => Names!OriginalLeavesAfterDerivatives
================================================================================
