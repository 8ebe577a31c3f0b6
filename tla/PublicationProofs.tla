--------------------------- MODULE PublicationProofs ---------------------------
(***************************************************************************)
(* What a publication promises to its readers, proved for any number of    *)
(* photos, versions, requests and workers: types and gapless numbers, that *)
(* a private trip is not read, and that a published version and what its   *)
(* readers get stay what they were, wherever workers fail or are killed.   *)
(***************************************************************************)
EXTENDS Publication, FiniteSetTheorems, WellFoundedInduction, TLAPS

-----------------------------------------------------------------------------
(* Types.                                                                  *)

Works == [pc : WorkerPCs, version : 0 .. MaxVersions, attempt : Nat,
          seen : VersionStates, visible : BOOLEAN, photos : SUBSET Photos,
          manifest : Manifests, row : JobRows]

\* The rows that a report and the passing of time leave.
LEMMA ReportWrites ==
  ASSUME NEW row \in JobRows, NEW seen \in JobRows
  PROVE  /\ CompletedRow(row, seen, FALSE) \in JobRows
         /\ \A final \in BOOLEAN : FailedRow(row, seen, final) \in JobRows
BY DEF CompletedRow, FailedRow, FinallyFailedRow, BackedOffRow, Flush, Written, JobRows, JobStates, Locks

LEMMA TimeWrites ==
  ASSUME NEW row \in JobRows
  PROVE  [row EXCEPT !.due = TRUE] \in JobRows /\ [row EXCEPT !.lock = "expired"] \in JobRows
BY DEF JobRows, Locks

LEMMA ManifestTypes ==
  /\ NoManifest \in Manifests
  /\ \A P \in SUBSET Photos : \A s : Outline(P, s) \in Manifests
  /\ \A m \in Manifests : \A s : WithAreas(m, s) \in Manifests
BY DEF NoManifest, Manifests, Outline, WithAreas, Shown, AreaStops

LEMMA IdleTypes ==
  /\ Idle \in Works
  /\ \A row \in Works, step \in WorkerPCs :
       [Idle EXCEPT !.pc = step, !.version = row.version, !.attempt = row.attempt] \in Works
<1>1. Idle \in Works
  BY ManifestTypes, PublicationBounds DEF Idle, Works, WorkerPCs, InTry, VersionStates,
       AbsentRow, JobRows, JobStates, Locks
<1>2. ASSUME NEW row \in Works, NEW step \in WorkerPCs
      PROVE  [Idle EXCEPT !.pc = step, !.version = row.version, !.attempt = row.attempt] \in Works
  <2>1. row.version \in 0 .. MaxVersions /\ row.attempt \in Nat
    BY DEF Works
  <2>2. \A idle \in Works :
          [idle EXCEPT !.pc = step, !.version = row.version, !.attempt = row.attempt] \in Works
    BY <2>1 DEF Works
  <2> QED BY <1>1, <2>2
<1> QED BY <1>1, <1>2

\* A worker keeps its version and attempt from the claim to the report.
LEMMA FinishTypes ==
  ASSUME TypeOK, NEW w \in Workers, NEW step \in WorkerPCs, Finish(w, step)
  PROVE  work' \in [Workers -> Works]
BY IdleTypes DEF TypeOK, Finish, Works

LEMMA GotoTypes ==
  ASSUME TypeOK, NEW w \in Workers, NEW step \in WorkerPCs, Goto(w, step)
  PROVE  work' \in [Workers -> Works]
<1>1. work[w] \in Works /\ work \in [Workers -> Works]
  BY DEF TypeOK, Works
<1>2. [work[w] EXCEPT !.pc = step] \in Works
  BY <1>1 DEF Works
<1> QED BY <1>1, <1>2 DEF Goto

\* A request has chosen the number that follows those of the versions there are.
Given(v) == state[v] # "absent"
NumbersFollow ==
  \A c \in Clients : request[c].pc = "numbered" =>
    request[c].number \in Versions /\ \A u \in Versions : u < request[c].number => Given(u)

LEMMA NextNumberFollows ==
  ASSUME TypeOK, NextNumber \in Versions, NEW u \in Versions, u < NextNumber
  PROVE  Given(u)
<1> DEFINE S == {v \in Versions : state[v] # "absent"}
<1>1. SUFFICES ASSUME u \notin S PROVE FALSE
  BY DEF Given
<1>2. MaxVersions \in Nat /\ u \in Nat \ {0}
  BY PublicationBounds DEF Versions
<1>3. S \subseteq 1 .. u - 1
  <2> SUFFICES ASSUME NEW v \in S, u <= v PROVE FALSE
    BY <1>2 DEF Versions
  <2>1. u < v
    BY <1>1, <1>2 DEF Versions
  <2> QED BY <1>1, <2>1 DEF TypeOK
<1>4. IsFiniteSet(1 .. u - 1) /\ Cardinality(1 .. u - 1) = u - 1
  <2>1. 1 \in Int /\ u - 1 \in Int /\ (1 > u - 1 => u - 1 = 0) /\ (u - 1) - 1 + 1 = u - 1
    BY <1>2
  <2> QED BY <2>1, FS_Interval
<1>5. IsFiniteSet(S) /\ Cardinality(S) <= u - 1
  BY <1>3, <1>4, FS_Subset
<1>6. Cardinality(S) \in Nat /\ NextNumber = Cardinality(S) + 1
  BY <1>5, FS_CardinalityType DEF NextNumber
<1> QED BY <1>2, <1>5, <1>6

\* Where the state of a version is written.
LEMMA StateSteps ==
  ASSUME [Next]_vars
  PROVE  \/ UNCHANGED state
         \/ \E c \in Clients : CommitCreate(c)
         \/ \E w \in Workers : StartPublishing(w) \/ CommitPublished(w) \/ MarkFailed(w)
BY DEF Next, vars, trip, rows, store, unpublishing, SetListed, EditStory, LoadCreate, NumberVersion,
       AbortCreate, RevokeLink, LockExpires, BecomeDue, ReadVersion, UnpublishScan, UnpublishLoad,
       UnpublishCommit, PublishStep, LoadVersion, SelectPhotos, OutlineManifest, AssembleManifest,
       CopyAssets, StoreManifest, CompleteLoad, CompleteCommit, LoadRow, FailLoad, FailCommit, Fault, Crash,
       Claim, ReadManifest

LEMMA GivenStays ==
  ASSUME TypeOK, [Next]_vars, NEW v \in Versions, Given(v)
  PROVE  Given(v)'
<1> USE DEF TypeOK, Given
<1>1. ASSUME NEW c \in Clients, CommitCreate(c) PROVE Given(v)'
  BY <1>1 DEF CommitCreate
<1>2. ASSUME NEW w \in Workers, StartPublishing(w) PROVE Given(v)'
  BY <1>2 DEF StartPublishing, Written
<1>3. ASSUME NEW w \in Workers, CommitPublished(w) \/ MarkFailed(w) PROVE Given(v)'
  BY <1>3 DEF CommitPublished, MarkFailed
<1> QED BY <1>1, <1>2, <1>3, StateSteps

LEMMA RequestTypes ==
  ASSUME TypeOK, NumbersFollow, [Next]_vars
  PROVE  /\ request' \in [Clients -> [pc : {"idle", "loaded", "numbered"}, slug : 0 .. MaxVersions,
                                      number : 0 .. MaxVersions]]
         /\ NumbersFollow'
<1> USE DEF TypeOK
<1> DEFINE Requests == [pc : {"idle", "loaded", "numbered"}, slug : 0 .. MaxVersions,
                        number : 0 .. MaxVersions]
<1>0. NoRequest \in Requests
  BY PublicationBounds DEF NoRequest
<1>g. \A v \in Versions : Given(v) => Given(v)'
  BY GivenStays
<1>1. ASSUME NEW c \in Clients, LoadCreate(c)
      PROVE  request' \in [Clients -> Requests] /\ NumbersFollow'
  BY <1>1, <1>g, PublicationBounds DEF LoadCreate, NumbersFollow, rows, Given
<1>2. ASSUME NEW c \in Clients, NumberVersion(c)
      PROVE  request' \in [Clients -> Requests] /\ NumbersFollow'
  <2>1. NextNumber \in Versions /\ Versions \subseteq 0 .. MaxVersions
    BY <1>2, PublicationBounds DEF NumberVersion, Versions
  <2>2. request[c] \in Requests
    OBVIOUS
  <2> DEFINE r == [request[c] EXCEPT !.pc = "numbered", !.number = NextNumber]
  <2>3. r \in Requests /\ r.number = NextNumber
    BY <2>1, <2>2
  <2>4. request' = [request EXCEPT ![c] = r]
    BY <1>2 DEF NumberVersion
  <2>5. \A u \in Versions : u < NextNumber => Given(u)'
    BY <2>1, <1>g, NextNumberFollows
  <2> QED BY <2>1, <2>3, <2>4, <2>5, <1>g DEF NumbersFollow
<1>3. ASSUME NEW c \in Clients, CommitCreate(c) \/ AbortCreate(c)
      PROVE  request' \in [Clients -> Requests] /\ NumbersFollow'
  <2>1. request' = [request EXCEPT ![c] = NoRequest]
    BY <1>3 DEF CommitCreate, AbortCreate
  <2> QED BY <2>1, <1>0, <1>g DEF NumbersFollow, NoRequest
<1>4. CASE UNCHANGED request
  BY <1>4, <1>g DEF NumbersFollow
<1> QED BY <1>1, <1>2, <1>3, <1>4 DEF Next, vars, trip, rows, store, unpublishing, SetListed, EditStory,
         RevokeLink, LockExpires, BecomeDue, ReadVersion, UnpublishScan, UnpublishLoad,
         UnpublishCommit, PublishStep, LoadVersion, StartPublishing, SelectPhotos, OutlineManifest,
         AssembleManifest,
         CopyAssets, StoreManifest, CommitPublished, CompleteLoad, CompleteCommit, LoadRow, MarkFailed,
         FailLoad, FailCommit, Fault, Crash,
         Claim, ReadManifest

\* Jobs and workers are about versions that were requested.
Busy ==
  /\ \A w \in Workers : work[w].pc # "idle" => work[w].version \in Versions /\ Given(work[w].version)
  /\ \A v \in Versions : job[v].state # "absent" => Given(v)

LEMMA TypeInit == Init => TypeOK /\ NumbersFollow /\ Busy
<1> SUFFICES ASSUME Init PROVE TypeOK /\ NumbersFollow /\ Busy
  OBVIOUS
<1>1. NoManifest \in Manifests /\ Idle \in Works
  BY ManifestTypes, IdleTypes
<1>2. AbsentRow \in JobRows /\ NoRequest.pc = "idle" /\ 0 \in 0 .. MaxVersions /\ 0 \in 0 .. MaxCrashes
  BY PublicationBounds DEF AbsentRow, JobRows, JobStates, Locks, NoRequest
<1>3. work \in [Workers -> Works]
  BY <1>1 DEF Init
<1>4. request \in [Clients -> [pc : {"idle", "loaded", "numbered"}, slug : 0 .. MaxVersions,
                               number : 0 .. MaxVersions]]
  BY <1>2 DEF Init, NoRequest
<1>5. reading \in [version : 0 .. MaxVersions, manifest : Manifests]
  BY <1>1, <1>2 DEF Init, NoRead
<1>6. job \in [Versions -> JobRows] /\ stored \in [Versions -> Manifests] /\ manifest \in [Versions -> Manifests]
  BY <1>1, <1>2 DEF Init
<1>7. /\ state \in [Versions -> VersionStates] /\ link \in [Versions -> LinkStates]
      /\ url \in [Versions -> 0 .. MaxVersions]
      /\ \A u, v \in Versions : u < v /\ state[v] # "absent" => state[u] # "absent"
  BY <1>2 DEF Init, VersionStates, LinkStates
<1>8. NumbersFollow
  BY <1>2 DEF Init, NumbersFollow
<1>9. Busy
  BY DEF Init, Busy, Idle, AbsentRow
<1>10. listed \subseteq Photos /\ story \in Stories \cup {NoStory} /\ slug \in 0 .. MaxVersions
       /\ visible \in BOOLEAN /\ crashes \in 0 .. MaxCrashes
  BY <1>2 DEF Init
<1>11. public \subseteq {KeyOf[p] : p \in Photos} 
       /\ unpublish \in [pc : {"idle", "scanned", "loaded"}, links : SUBSET Versions, visible : BOOLEAN]
       /\ unseen \subseteq Versions
  BY DEF Init, NoUnpublish
<1> QED BY <1>3, <1>4, <1>5, <1>6, <1>7, <1>8, <1>9, <1>10, <1>11 DEF TypeOK, Works

\* Types are kept.  An action that leaves most of the state alone has its few
\* primed variables checked; RequestTypes has checked the requests.
LEMMA TypeStep ==
  ASSUME TypeOK, NumbersFollow, Busy, [Next]_vars
  PROVE  TypeOK'
<1> USE DEF TypeOK
<1>r. request' \in [Clients -> [pc : {"idle", "loaded", "numbered"}, slug : 0 .. MaxVersions,
                                number : 0 .. MaxVersions]]
  BY RequestTypes
<1>w. ASSUME work' \in [Workers -> Works]
      PROVE  (work \in [Workers -> [pc : WorkerPCs, version : 0 .. MaxVersions, attempt : Nat,
                        seen : VersionStates, visible : BOOLEAN, photos : SUBSET Photos,
                        manifest : Manifests, row : JobRows]])'
  BY <1>w DEF Works
<1>t. work \in [Workers -> Works]
  BY DEF Works
<1>n. Versions \subseteq 0 .. MaxVersions
  BY PublicationBounds DEF Versions
<1> USE DEF trip, rows, store, unpublishing
<1>1. ASSUME NEW p \in Photos, SetListed(p) PROVE TypeOK'
  BY <1>1 DEF SetListed
<1>2. ASSUME NEW s \in Stories, EditStory(s) PROVE TypeOK'
  BY <1>2 DEF EditStory
<1>3. ASSUME NEW c \in Clients, LoadCreate(c) \/ NumberVersion(c) \/ AbortCreate(c) PROVE TypeOK'
  BY <1>3, <1>r DEF LoadCreate, NumberVersion, AbortCreate
<1>4. ASSUME NEW c \in Clients, CommitCreate(c) PROVE TypeOK'
  <2> DEFINE v == request[c].number
  <2>1. v \in Versions /\ \A u \in Versions : u < v => Given(u)
    BY <1>4 DEF CommitCreate, NumbersFollow
  <2>2. slug' \in 0 .. MaxVersions /\ url' \in [Versions -> 0 .. MaxVersions]
    <3>1. OwnSlug(c) \in 0 .. MaxVersions
      BY <2>1, <1>n DEF OwnSlug
    <3>2. Written(OwnSlug(c), request[c].slug, slug) \in 0 .. MaxVersions
      BY <3>1 DEF Written
    <3> QED BY <1>4, <3>1, <3>2 DEF CommitCreate
  <2>3. state' = [state EXCEPT ![v] = "pending"]
    BY <1>4 DEF CommitCreate
  <2>4. \A u, x \in Versions : u < x /\ state'[x] # "absent" => state'[u] # "absent"
    BY <2>1, <2>3 DEF Given
  <2>5. state' \in [Versions -> VersionStates]
    BY <2>3 DEF VersionStates
  <2>6. link' \in [Versions -> LinkStates]
    BY <1>4 DEF CommitCreate, LinkStates
  <2>7. NewRow \in JobRows
    BY DEF NewRow, JobRows, JobStates, Locks
  <2>8. job' \in [Versions -> JobRows]
    BY <1>4, <2>7 DEF CommitCreate
  <2>9. unseen' \subseteq Versions
    BY <1>4, <2>1 DEF CommitCreate
  <2> QED BY <1>4, <1>r, <2>2, <2>4, <2>5, <2>6, <2>8, <2>9 DEF CommitCreate
<1>5. ASSUME NEW v \in Versions, RevokeLink(v) PROVE TypeOK'
  BY <1>5 DEF RevokeLink, LinkStates
<1>6. ASSUME NEW v \in Versions, LockExpires(v) \/ BecomeDue(v) PROVE TypeOK'
  <2>1. job[v] \in JobRows
    OBVIOUS
  <2>2. job' \in [Versions -> JobRows]
    BY <1>6, <2>1, TimeWrites DEF LockExpires, BecomeDue
  <2> QED BY <1>6, <2>2 DEF LockExpires, BecomeDue
<1>7. ASSUME NEW v \in Versions, ReadVersion(v) PROVE TypeOK'
  BY <1>7, <1>n DEF ReadVersion
<1>8. CASE UnpublishScan \/ UnpublishLoad
  <2>1. Active \subseteq Versions /\ visible \in BOOLEAN
    BY DEF Active
  <2>2. unpublish' \in [pc : {"idle", "scanned", "loaded"}, links : SUBSET Versions, visible : BOOLEAN]
    BY <1>8, <2>1 DEF UnpublishScan, UnpublishLoad, NoUnpublish
  <2> QED BY <1>8, <2>2 DEF UnpublishScan, UnpublishLoad
<1>9. CASE UnpublishCommit
  <2>1. link' \in [Versions -> LinkStates]
    BY <1>9 DEF UnpublishCommit, LinkStates
  <2>2. unpublish' \in [pc : {"idle", "scanned", "loaded"}, links : SUBSET Versions, visible : BOOLEAN]
    BY <1>9 DEF UnpublishCommit, NoUnpublish
  <2>3. visible' \in BOOLEAN
    BY <1>9 DEF UnpublishCommit, Written
  <2> QED BY <1>9, <2>1, <2>2, <2>3 DEF UnpublishCommit
<1>10. CASE ReadManifest
  BY <1>10, ManifestTypes, PublicationBounds DEF ReadManifest, NoRead
<1>11. ASSUME NEW w \in Workers, NEW v \in Versions, Claim(w, v) PROVE TypeOK'
  <2>1. ClaimedRow(job[v]) \in JobRows /\ job[v].attempts + 1 \in Nat
    <3>1. job[v].attempts + 1 \in Nat /\ job[v] \in JobRows
      BY <1>11 DEF Claim, JobRows
    <3> QED BY <3>1 DEF ClaimedRow, JobRows, JobStates, Locks
  <2> DEFINE r == [Idle EXCEPT !.pc = "loading", !.version = v, !.attempt = job[v].attempts + 1]
  <2>2. \A idle \in Works :
          [idle EXCEPT !.pc = "loading", !.version = v, !.attempt = job[v].attempts + 1] \in Works
    BY <1>n, <2>1 DEF Works, WorkerPCs
  <2>3. r \in Works
    BY <2>2, IdleTypes
  <2>4. work' \in [Workers -> Works] /\ job' \in [Versions -> JobRows]
    BY <1>11, <1>t, <2>1, <2>3 DEF Claim
  <2> QED BY <1>11, <1>w, <2>4 DEF Claim
<1>12. ASSUME NEW w \in Workers, LoadVersion(w) PROVE TypeOK'
  <2> DEFINE now == state[work[w].version]
  <2>1. now \in VersionStates /\ work[w] \in Works
    BY <1>12, <1>t DEF LoadVersion, Busy
  <2>2. [work[w] EXCEPT !.seen = now, !.visible = visible, !.pc = "starting"] \in Works
    BY <2>1 DEF Works, WorkerPCs
  <2>3. work' \in [Workers -> Works]
    BY <1>12, <1>t, <2>2, GotoTypes DEF LoadVersion, WorkerPCs
  <2> QED BY <1>12, <1>w, <2>3 DEF LoadVersion
<1>13. ASSUME NEW w \in Workers, StartPublishing(w) PROVE TypeOK'
  <2> DEFINE v == work[w].version
  <2>1. v \in Versions /\ work[w] \in Works /\ Given(v)
    BY <1>13, <1>t DEF StartPublishing, Busy
  <2>2. state' = [state EXCEPT ![v] = Written("publishing", work[w].seen, state[v])]
    BY <1>13 DEF StartPublishing
  <2>3. Written("publishing", work[w].seen, state[v]) \in {"publishing", state[v]}
    BY DEF Written
  <2>4. state' \in [Versions -> VersionStates]
    BY <2>1, <2>2, <2>3 DEF VersionStates
  <2>5. \A u \in Versions : Given(u) => Given(u)'
    BY GivenStays
  <2>6. \A u, x \in Versions : u < x /\ state'[x] # "absent" => state'[u] # "absent"
    <3>1. \A x \in Versions : state'[x] # "absent" => Given(x)
      BY <2>1, <2>2 DEF Given
    <3> QED BY <2>5, <3>1 DEF Given
  <2>7. work[w] \in Works => [work[w] EXCEPT !.pc = "selecting", !.seen = "absent"] \in Works
    BY DEF Works, WorkerPCs, InTry, VersionStates
  <2>8. work' \in [Workers -> Works]
    BY <1>13, <1>t, <2>1, <2>7 DEF StartPublishing
  <2> QED BY <1>13, <1>w, <2>4, <2>6, <2>8 DEF StartPublishing
<1>14. ASSUME NEW w \in Workers, SelectPhotos(w) PROVE TypeOK'
  <2>1. work[w] \in Works => [work[w] EXCEPT !.photos = listed,
          !.pc = IF listed = {} THEN "marking" ELSE "outlining"] \in Works
    BY DEF Works, WorkerPCs, InTry
  <2>2. work' \in [Workers -> Works]
    BY <1>14, <1>t, <2>1 DEF SelectPhotos
  <2> QED BY <1>14, <1>w, <2>2 DEF SelectPhotos
<1>23. ASSUME NEW w \in Workers, OutlineManifest(w) PROVE TypeOK'
  <2> DEFINE m == Outline(work[w].photos, story)
  <2>1. work[w] \in Works /\ m \in Manifests
    BY <1>t, ManifestTypes DEF Works
  <2>2. [work[w] EXCEPT !.manifest = m, !.photos = {}, !.pc = "assembling"] \in Works
    BY <2>1 DEF Works, WorkerPCs, InTry
  <2>3. work' \in [Workers -> Works]
    BY <1>23, <1>t, <2>2 DEF OutlineManifest
  <2> QED BY <1>23, <1>w, <2>3 DEF OutlineManifest
<1>15. ASSUME NEW w \in Workers, AssembleManifest(w) PROVE TypeOK'
  <2> DEFINE m == WithAreas(work[w].manifest, story)
  <2>1. work[w] \in Works /\ m \in Manifests
    BY <1>t, ManifestTypes DEF Works
  <2>2. [work[w] EXCEPT !.manifest = m, !.pc = "copying"] \in Works
    BY <2>1 DEF Works, WorkerPCs, InTry
  <2>3. CASE PageStops(work[w].manifest) = {}
    <3>1. work' \in [Workers -> Works]
      BY <1>15, <2>3, FinishTypes DEF AssembleManifest, WorkerPCs
    <3> QED BY <1>15, <1>w, <3>1 DEF AssembleManifest
  <2>4. CASE PageStops(work[w].manifest) # {}
    <3>1. work' = [work EXCEPT ![w] = [work[w] EXCEPT !.manifest = m, !.pc = "copying"]]
      BY <1>15, <1>t, <2>4 DEF AssembleManifest
    <3>2. work' \in [Workers -> Works]
      BY <1>t, <2>2, <3>1
    <3> QED BY <1>15, <1>w, <3>2 DEF AssembleManifest
  <2> QED BY <2>3, <2>4
<1>16. ASSUME NEW w \in Workers, CopyAssets(w) PROVE TypeOK'
  <2>1. work' \in [Workers -> Works]
    BY <1>16, FinishTypes, GotoTypes DEF CopyAssets, WorkerPCs, InTry
  <2>2. ToCopy(work[w].version, work[w].manifest) \subseteq {KeyOf[p] : p \in Photos}
    BY <1>t DEF ToCopy, Keys, Works, Manifests
  <2>3. public' \subseteq {KeyOf[p] : p \in Photos}
    BY <1>16, <2>2 DEF CopyAssets
  <2> QED BY <1>16, <1>w, <2>1, <2>3 DEF CopyAssets
<1>17. ASSUME NEW w \in Workers, StoreManifest(w) PROVE TypeOK'
  <2>1. work' \in [Workers -> Works]
    BY <1>17, GotoTypes DEF StoreManifest, WorkerPCs
  <2>2. stored' \in [Versions -> Manifests]
    BY <1>17, <1>t DEF StoreManifest, Works
  <2> QED BY <1>17, <1>w, <2>1, <2>2 DEF StoreManifest
<1>18. ASSUME NEW w \in Workers, CommitPublished(w) \/ MarkFailed(w) PROVE TypeOK'
  <2> DEFINE v == work[w].version
  <2>1. v \in Versions /\ Given(v)
    BY <1>18 DEF CommitPublished, MarkFailed, Busy
  <2>2. work' \in [Workers -> Works]
    BY <1>18, FinishTypes, GotoTypes DEF CommitPublished, MarkFailed, WorkerPCs
  <2>3. state' = [state EXCEPT ![v] = "published"] \/ state' = [state EXCEPT ![v] = "failed"]
    BY <1>18 DEF CommitPublished, MarkFailed
  <2>4. /\ state' \in [Versions -> VersionStates]
        /\ \A x \in Versions : state'[x] # "absent" <=> state[x] # "absent"
    BY <2>1, <2>3 DEF VersionStates, Given
  <2>5. \A u, x \in Versions : u < x /\ state'[x] # "absent" => state'[u] # "absent"
    BY <2>4
  <2>6. manifest' \in [Versions -> Manifests] /\ visible' \in BOOLEAN
    BY <1>18, <1>t DEF CommitPublished, MarkFailed, Works, Written
  <2>7. UNCHANGED <<listed, story, slug, request, url, link, job, crashes, store, reading, unpublishing>>
    BY <1>18 DEF CommitPublished, MarkFailed
  <2> QED BY <1>w, <2>2, <2>4, <2>5, <2>6, <2>7
<1>24. ASSUME NEW w \in Workers, CompleteLoad(w) \/ FailLoad(w) PROVE TypeOK'
  <2>1. job[work[w].version] \in JobRows /\ work[w] \in Works
    BY <1>24, <1>t DEF CompleteLoad, FailLoad, LoadRow, Busy
  <2>2. \A after \in {"completing", "failing"} :
          [work[w] EXCEPT !.row = job[work[w].version], !.pc = after] \in Works
    BY <2>1 DEF Works, WorkerPCs
  <2>3. work' \in [Workers -> Works]
    BY <1>24, <1>t, <2>2 DEF CompleteLoad, FailLoad, LoadRow
  <2> QED BY <1>24, <1>w, <2>3 DEF CompleteLoad, FailLoad, LoadRow
<1>19. ASSUME NEW w \in Workers, CompleteCommit(w) \/ FailCommit(w) PROVE TypeOK'
  <2> DEFINE v == work[w].version
             row == work[w].row
  <2>1. v \in Versions /\ row \in JobRows
    BY <1>19, <1>t DEF CompleteCommit, FailCommit, Busy, Works
  <2>2. CompletedRow(job[v], row, FALSE) \in JobRows
        /\ \A final \in BOOLEAN : FailedRow(job[v], row, final) \in JobRows
    BY <2>1, ReportWrites
  <2> DEFINE final == IsFinalFailure(work[w].attempt, MaxAttempts, TRUE)
             done == CompletedRow(job[v], row, FALSE)
             failed == FailedRow(job[v], row, final)
  <2>3. done \in JobRows /\ failed \in JobRows
    BY <2>2 DEF IsFinalFailure
  <2>4. job' = [job EXCEPT ![v] = done] \/ job' = [job EXCEPT ![v] = failed]
    BY <1>19 DEF CompleteCommit, FailCommit
  <2>6. job' \in [Versions -> JobRows]
    <3> HIDE DEF v, done, failed
    <3> QED BY <1>t, <2>1, <2>3, <2>4
  <2>5. work' \in [Workers -> Works]
    BY <1>19, <1>t, IdleTypes DEF CompleteCommit, FailCommit
  <2> QED BY <1>19, <1>w, <2>5, <2>6 DEF CompleteCommit, FailCommit
<1>20. ASSUME NEW w \in Workers, Fault(w) PROVE TypeOK'
  <2>1. work' \in [Workers -> Works]
    BY <1>20, FinishTypes DEF Fault, WorkerPCs
  <2> QED BY <1>20, <1>w, <2>1 DEF Fault
<1>21. ASSUME NEW w \in Workers, Crash(w) PROVE TypeOK'
  <2>1. work' \in [Workers -> Works]
    BY <1>21, <1>t, IdleTypes DEF Crash
  <2>2. crashes' \in 0 .. MaxCrashes
    BY <1>21, PublicationBounds DEF Crash
  <2> QED BY <1>21, <1>w, <2>1, <2>2 DEF Crash
<1>22. CASE UNCHANGED vars
  BY <1>22 DEF vars
<1> QED BY <1>1, <1>2, <1>3, <1>4, <1>5, <1>6, <1>7, <1>8, <1>9, <1>10, <1>11, <1>12, <1>13, <1>14, <1>15,
           <1>16, <1>17, <1>18, <1>19, <1>20, <1>21, <1>22, <1>23, <1>24, PublicationBounds DEF Next, PublishStep

\* A step of a worker keeps its version or makes it idle.
LEMMA WorkSteps ==
  ASSUME TypeOK, [Next]_vars, NEW w \in Workers
  PROVE  \/ work'[w] = Idle
         \/ work'[w].version = work[w].version /\ work[w].pc # "idle"
         \/ work'[w] = work[w]
         \/ \E v \in Versions : Claim(w, v) /\ work'[w].version = v
<1> DEFINE Held(u) == \/ work'[w].version = work[w].version /\ work[w].pc # "idle"
                      \/ work'[w] = work[w]
<1>t. work \in [Workers -> Works]
  BY DEF TypeOK, Works
<1> USE DEF trip, rows, store, unpublishing
<1>1. ASSUME NEW u \in Workers, NEW step, Goto(u, step), work[u].pc # "idle" PROVE Held(u)
  BY <1>1, <1>t DEF Goto, Works
<1>2. ASSUME NEW u \in Workers, NEW step, Finish(u, step), work[u].pc # "idle" PROVE Held(u)
  BY <1>2, <1>t DEF Finish, Works, Idle
<1>3. ASSUME NEW u \in Workers, PublishStep(u) PROVE Held(u) \/ work'[w] = Idle
  <2>1. CASE LoadVersion(u)
    BY <2>1, <1>1, <1>t DEF LoadVersion, Works
  <2>2. CASE StartPublishing(u) \/ SelectPhotos(u) \/ OutlineManifest(u)
    BY <2>2, <1>t DEF StartPublishing, SelectPhotos, OutlineManifest, Works
  <2>3. CASE AssembleManifest(u)
    BY <2>3, <1>2, <1>t DEF AssembleManifest, Works
  <2>4. CASE CopyAssets(u) \/ StoreManifest(u) \/ CommitPublished(u) \/ MarkFailed(u)
    BY <2>4, <1>1, <1>2 DEF CopyAssets, StoreManifest, CommitPublished, MarkFailed
  <2>5. CASE CompleteCommit(u) \/ FailCommit(u)
    BY <2>5, <1>t DEF CompleteCommit, FailCommit
  <2>6. CASE CompleteLoad(u) \/ FailLoad(u)
    BY <2>6, <1>t DEF CompleteLoad, FailLoad, LoadRow, Works
  <2> QED BY <1>3, <2>1, <2>2, <2>3, <2>4, <2>5, <2>6 DEF PublishStep
<1>4. ASSUME NEW u \in Workers, Fault(u) PROVE Held(u)
  BY <1>4, <1>2 DEF Fault
<1>5. ASSUME NEW u \in Workers, Crash(u) PROVE Held(u) \/ work'[w] = Idle
  BY <1>5, <1>t DEF Crash
<1>6. ASSUME NEW u \in Workers, NEW v \in Versions, Claim(u, v)
      PROVE  Held(u) \/ (Claim(w, v) /\ work'[w].version = v)
  <2>1. CASE u = w
    BY <1>6, <1>t, <2>1 DEF Claim, Idle
  <2>2. CASE u # w
    BY <1>6, <1>t, <2>2 DEF Claim
  <2> QED BY <2>1, <2>2
<1>7. CASE UNCHANGED work
  BY <1>7
<1> QED BY <1>3, <1>4, <1>5, <1>6, <1>7 DEF Next, vars, SetListed, EditStory, LoadCreate, NumberVersion,
       CommitCreate, AbortCreate, RevokeLink, LockExpires, BecomeDue, ReadVersion, UnpublishScan, UnpublishLoad,
       UnpublishCommit, ReadManifest

LEMMA BusyStep ==
  ASSUME TypeOK, NumbersFollow, Busy, [Next]_vars
  PROVE  Busy'
<1> USE DEF TypeOK
<1>1. ASSUME NEW w \in Workers, work'[w].pc # "idle"
      PROVE  work'[w].version \in Versions /\ Given(work[w].version)'
  <2>1. ASSUME NEW v \in Versions, Claim(w, v) PROVE Given(v)
    BY <2>1 DEF Claim, Eligible, Busy
  <2>2. work'[w].version \in Versions /\ Given(work'[w].version)
    <3>1. CASE work'[w] = Idle
      BY <1>1, <3>1 DEF Idle
    <3>2. CASE work[w].pc # "idle" /\ work'[w].version = work[w].version
      BY <3>2 DEF Busy
    <3>3. CASE work'[w] = work[w]
      BY <1>1, <3>3 DEF Busy
    <3>4. ASSUME NEW v \in Versions, Claim(w, v), work'[w].version = v
          PROVE  work'[w].version \in Versions /\ Given(work'[w].version)
      BY <2>1, <3>4
    <3> QED BY <3>1, <3>2, <3>3, <3>4, WorkSteps
  <2>3. PICK v \in Versions : v = work'[w].version
    BY <2>2
  <2> QED BY <2>2, <2>3, GivenStays DEF Given
<1>2. ASSUME NEW v \in Versions, job'[v].state # "absent" PROVE Given(v)'
  <2>1. Given(v) => Given(v)'
    BY GivenStays
  <2>2. ASSUME job[v].state = "absent" PROVE Given(v) \/ Given(v)'
    <3>1. ASSUME NEW c \in Clients, CommitCreate(c) PROVE Given(v) \/ Given(v)'
      BY <1>2, <2>2, <3>1 DEF CommitCreate, Given
    <3>2. ASSUME NEW w \in Workers, NEW u \in Versions, Claim(w, u) PROVE Given(v) \/ Given(v)'
      <4>1. u # v
        BY <2>2, <3>2 DEF Claim, Eligible
      <4> QED BY <1>2, <2>2, <3>2, <4>1 DEF Claim
    <3>3. ASSUME NEW w \in Workers, CompleteCommit(w) \/ FailCommit(w) PROVE Given(v) \/ Given(v)'
      <4>1. work[w].version # v => job'[v] = job[v]
        BY <3>3 DEF CompleteCommit, FailCommit
      <4>2. Given(work[w].version)
        BY <3>3 DEF CompleteCommit, FailCommit, Busy
      <4> QED BY <1>2, <2>2, <4>1, <4>2
    <3>4. ASSUME NEW u \in Versions, LockExpires(u) \/ BecomeDue(u) PROVE Given(v) \/ Given(v)'
      <4>1. u # v
        BY <2>2, <3>4 DEF LockExpires, BecomeDue
      <4> QED BY <1>2, <2>2, <3>4, <4>1 DEF LockExpires, BecomeDue
    <3>5. ~UNCHANGED job
      BY <1>2, <2>2
    <3> QED BY <3>1, <3>2, <3>3, <3>4, <3>5 DEF Next, vars, trip, rows, store, unpublishing, SetListed,
             EditStory, LoadCreate, NumberVersion, AbortCreate, RevokeLink, ReadVersion, UnpublishScan,
             UnpublishLoad,
             UnpublishCommit, PublishStep, LoadVersion, StartPublishing, SelectPhotos, OutlineManifest,
             AssembleManifest,
             CopyAssets, StoreManifest, CommitPublished, CompleteLoad, FailLoad, LoadRow, MarkFailed, Fault,
             Crash, ReadManifest
  <2> QED BY <2>1, <2>2 DEF Busy
<1> QED BY <1>1, <1>2 DEF Busy

LEMMA TypedHolds == Spec => [](TypeOK /\ NumbersFollow /\ Busy)
<1>1. TypeOK /\ NumbersFollow /\ Busy /\ [Next]_vars => (TypeOK /\ NumbersFollow /\ Busy)'
  BY TypeStep, RequestTypes, BusyStep
<1> QED BY <1>1, TypeInit, PTL DEF Spec

\* Every row, session and object has its type, and versions are numbered
\* without gaps however requests cross.
THEOREM TypeCorrect == Spec => []TypeOK
BY TypedHolds, PTL

-----------------------------------------------------------------------------
(* A private trip is not read.                                             *)

\* An unpublish request under way has selected every active link, but for those
\* of versions requested since.
ScanSeesLinks == unpublish # NoUnpublish => Active \subseteq unpublish.links \cup unseen

\* A worker that loaded the trip as published leaves it as it is: if it is private by
\* now, the version has lost its link, or was requested while it was made private.
LoadedBefore ==
  \A w \in Workers : work[w].visible =>
    /\ work[w].pc # "idle"
    /\ ~visible /\ link[work[w].version] = "active" => work[w].version \in unseen

\* Where links and the visibility are written.
LEMMA LinkSteps ==
  ASSUME [Next]_vars
  PROVE  \/ UNCHANGED <<link, unpublish, unseen, visible>>
         \/ \E w \in Workers : CommitPublished(w)
         \/ \E c \in Clients : CommitCreate(c)
         \/ \E v \in Versions : RevokeLink(v)
         \/ UnpublishScan \/ UnpublishLoad \/ UnpublishCommit
<1> DEFINE Same == UNCHANGED <<link, unpublish, unseen, visible>>
<1> USE DEF trip, rows, store, unpublishing
<1>1. ASSUME NEW w \in Workers, PublishStep(w) PROVE Same \/ CommitPublished(w)
  BY <1>1 DEF PublishStep, LoadVersion, StartPublishing, SelectPhotos, OutlineManifest, AssembleManifest,
       CopyAssets, StoreManifest, CompleteLoad, CompleteCommit, MarkFailed, FailLoad, FailCommit, LoadRow
<1>2. ASSUME NEW w \in Workers, Fault(w) \/ Crash(w) PROVE Same
  BY <1>2 DEF Fault, Crash
<1> QED BY <1>1, <1>2 DEF Next, vars, SetListed, EditStory, LoadCreate, NumberVersion, AbortCreate,
       LockExpires, BecomeDue, ReadVersion, Claim, ReadManifest

\* Where a worker loads the trip.
LEMMA VisibleSteps ==
  ASSUME TypeOK, [Next]_vars, NEW w \in Workers, work'[w].visible
  PROVE  /\ work'[w].pc # "idle" \/ work'[w] = work[w]
         /\ \/ work[w].visible /\ work'[w].version = work[w].version
            \/ visible /\ visible'
<1>t. work \in [Workers -> Works]
  BY DEF TypeOK, Works
<1>i. ~Idle.visible
  BY DEF Idle
<1> DEFINE Kept == /\ work'[w].pc # "idle" \/ work'[w] = work[w]
                   /\ \/ work[w].visible /\ work'[w].version = work[w].version
                      \/ visible /\ visible'
<1> USE DEF trip, rows, store, unpublishing
<1>1. ASSUME NEW u \in Workers, NEW step, step # "idle", Goto(u, step) PROVE Kept
  BY <1>1, <1>t DEF Goto, Works
<1>2. ASSUME NEW u \in Workers, NEW step, Finish(u, step) PROVE Kept
  BY <1>2, <1>t DEF Finish, Works, Idle
<1>3. ASSUME NEW u \in Workers, LoadVersion(u) PROVE Kept
  <2>1. CASE state[work[u].version] = "published"
    BY <1>1, <1>3, <2>1 DEF LoadVersion
  <2>2. CASE state[work[u].version] # "published"
    BY <1>3, <1>t, <2>2 DEF LoadVersion, Works
  <2> QED BY <2>1, <2>2
<1>4. ASSUME NEW u \in Workers, StartPublishing(u) \/ SelectPhotos(u) \/ OutlineManifest(u) PROVE Kept
  BY <1>4, <1>t DEF StartPublishing, SelectPhotos, OutlineManifest, Works
<1>5. ASSUME NEW u \in Workers, AssembleManifest(u) PROVE Kept
  <2>1. CASE Finish(u, "marking")
    BY <1>2, <2>1
  <2>2. CASE ~Finish(u, "marking")
    BY <1>5, <1>t, <2>2 DEF AssembleManifest, Works
  <2> QED BY <2>1, <2>2
<1>6. ASSUME NEW u \in Workers,
             CopyAssets(u) \/ StoreManifest(u) \/ CommitPublished(u) \/ MarkFailed(u) \/ Fault(u)
      PROVE  Kept
  BY <1>1, <1>2, <1>6 DEF CopyAssets, StoreManifest, CommitPublished, MarkFailed, Fault
<1>7. ASSUME NEW u \in Workers, CompleteLoad(u) \/ FailLoad(u) PROVE Kept
  BY <1>7, <1>t DEF CompleteLoad, FailLoad, LoadRow, Works
<1>8. ASSUME NEW u \in Workers, CompleteCommit(u) \/ FailCommit(u) \/ Crash(u) PROVE Kept
  BY <1>8, <1>t, <1>i DEF CompleteCommit, FailCommit, Crash
<1>9. ASSUME NEW u \in Workers, NEW v \in Versions, Claim(u, v) PROVE Kept
  BY <1>9, <1>t, <1>i DEF Claim, Idle
<1>10. CASE UNCHANGED work
  BY <1>10
<1> QED BY <1>3, <1>4, <1>5, <1>6, <1>7, <1>8, <1>9, <1>10 DEF Next, vars, PublishStep, SetListed,
       EditStory, LoadCreate, NumberVersion, CommitCreate, AbortCreate, RevokeLink, LockExpires, BecomeDue,
       ReadVersion, UnpublishScan, UnpublishLoad, UnpublishCommit, ReadManifest

LEMMA ScanStep ==
  ASSUME TypeOK, ScanSeesLinks, [Next]_vars
  PROVE  ScanSeesLinks'
<1> USE DEF TypeOK
<1>1. ASSUME NEW c \in Clients, CommitCreate(c) PROVE ScanSeesLinks'
  BY <1>1 DEF CommitCreate, ScanSeesLinks, Active
<1>2. ASSUME NEW v \in Versions, RevokeLink(v) PROVE ScanSeesLinks'
  BY <1>2 DEF RevokeLink, unpublishing, ScanSeesLinks, Active
<1>3. CASE UnpublishScan
  BY <1>3 DEF UnpublishScan, rows, ScanSeesLinks, Active, NoUnpublish
<1>4. CASE UnpublishLoad
  BY <1>4 DEF UnpublishLoad, rows, ScanSeesLinks, Active, NoUnpublish
<1>5. CASE UnpublishCommit
  BY <1>5 DEF UnpublishCommit, ScanSeesLinks
<1>6. CASE UNCHANGED <<link, unpublish, unseen>>
  BY <1>6 DEF ScanSeesLinks, Active
<1>7. ASSUME NEW w \in Workers, CommitPublished(w) PROVE UNCHANGED <<link, unpublish, unseen>>
  BY <1>7 DEF CommitPublished, unpublishing
<1> QED BY <1>1, <1>2, <1>3, <1>4, <1>5, <1>6, <1>7, LinkSteps

\* What is active after a step was so before, unless the version has just been requested.
\* When a step makes the trip private, only versions requested meanwhile keep a link.
LEMMA ActiveSteps ==
  ASSUME TypeOK, NumbersFollow, ScanSeesLinks, [Next]_vars, NEW v \in Versions, link'[v] = "active"
  PROVE  /\ unseen \subseteq unseen'
         /\ Given(v) => link[v] = "active"
         /\ visible /\ ~visible' => v \in unseen'
<1> USE DEF TypeOK
<1>1. ASSUME NEW c \in Clients, CommitCreate(c)
      PROVE  unseen \subseteq unseen' /\ (Given(v) => link[v] = "active") /\ visible' = visible
  BY <1>1 DEF CommitCreate, Given
<1>2. ASSUME NEW u \in Versions, RevokeLink(u)
      PROVE  unseen \subseteq unseen' /\ link[v] = "active" /\ visible' = visible
  BY <1>2 DEF RevokeLink, unpublishing, trip
<1>3. CASE UnpublishScan \/ UnpublishLoad
  BY <1>3 DEF UnpublishScan, UnpublishLoad, rows, trip
<1>4. CASE UnpublishCommit
  <2>1. unpublish # NoUnpublish /\ v \notin unpublish.links /\ link[v] = "active" /\ unseen' = unseen
    BY <1>4 DEF UnpublishCommit, NoUnpublish
  <2> QED BY <2>1 DEF ScanSeesLinks, Active
<1>5. ASSUME NEW w \in Workers, CommitPublished(w)
      PROVE  unseen' = unseen /\ link[v] = "active" /\ (visible => visible')
  BY <1>5 DEF CommitPublished, unpublishing, Written
<1>6. CASE UNCHANGED <<link, unpublish, unseen, visible>>
  BY <1>6
<1> QED BY <1>1, <1>2, <1>3, <1>4, <1>5, <1>6, LinkSteps

LEMMA LoadedStep ==
  ASSUME TypeOK, NumbersFollow, Busy, ScanSeesLinks, LoadedBefore, [Next]_vars, Busy'
  PROVE  LoadedBefore'
<1> SUFFICES ASSUME NEW w \in Workers, work'[w].visible
             PROVE  /\ work'[w].pc # "idle"
                    /\ ~visible' /\ link'[work'[w].version] = "active" => work'[w].version \in unseen'
  BY DEF LoadedBefore
<1>1. work'[w].pc # "idle"
  BY VisibleSteps DEF LoadedBefore
<1>2. PICK v \in Versions : v = work'[w].version
  BY <1>1 DEF Busy
<1>3. ASSUME ~visible', link'[v] = "active" PROVE v \in unseen'
  <2>1. work[w].visible /\ work[w].version = v
    BY <1>2, <1>3, VisibleSteps
  <2>2. Given(v)
    BY <2>1 DEF LoadedBefore, Busy
  <2>3. link[v] = "active" /\ unseen \subseteq unseen'
    BY <1>3, <2>2, ActiveSteps
  <2>4. CASE visible
    BY <1>3, <2>4, ActiveSteps
  <2>5. CASE ~visible
    BY <2>1, <2>3, <2>5 DEF LoadedBefore
  <2> QED BY <2>4, <2>5
<1> QED BY <1>1, <1>2, <1>3

LEMMA UnreadStep ==
  ASSUME TypeOK, NumbersFollow, Busy, ScanSeesLinks, LoadedBefore, PrivateTripIsUnread, [Next]_vars
  PROVE  PrivateTripIsUnread'
<1> USE DEF TypeOK
<1> SUFFICES ASSUME NEW v \in Versions, state'[v] = "published", link'[v] = "active", ~visible'
             PROVE  v \in unseen'
  BY DEF PrivateTripIsUnread, Readable
<1>1. CASE visible
  BY <1>1, ActiveSteps
<1>2. CASE ~visible /\ state[v] = "published"
  BY <1>2, ActiveSteps DEF PrivateTripIsUnread, Readable, Given
<1>3. CASE ~visible /\ state[v] # "published"
  <2>1. ASSUME NEW c \in Clients, CommitCreate(c) PROVE FALSE
    BY <1>3, <2>1 DEF CommitCreate
  <2>2. ASSUME NEW w \in Workers, StartPublishing(w) \/ MarkFailed(w) PROVE FALSE
    BY <1>3, <2>2 DEF StartPublishing, MarkFailed, Written
  <2>3. ASSUME NEW w \in Workers, CommitPublished(w) PROVE v \in unseen'
    <3>1. work[w].visible /\ work[w].version = v /\ link[v] = "active" /\ unseen' = unseen
      BY <1>3, <2>3 DEF CommitPublished, Written, unpublishing
    <3> QED BY <1>3, <3>1 DEF LoadedBefore
  <2> QED BY <1>3, <2>1, <2>2, <2>3, StateSteps
<1> QED BY <1>1, <1>2, <1>3

\* Unpublishing makes the trip private and its stories unreadable at once, save
\* a version requested while the request was between its statements, although workers
\* that loaded the trip as published do not write that it is.
THEOREM PrivateUnread == Spec => []PrivateTripIsUnread
<1> DEFINE Unread == ScanSeesLinks /\ LoadedBefore /\ PrivateTripIsUnread
           Typed == TypeOK /\ NumbersFollow /\ Busy
<1>1. Init => Unread
  BY TypeInit DEF Init, ScanSeesLinks, LoadedBefore, PrivateTripIsUnread, Readable, Idle
<1>2. Typed /\ Typed' /\ Unread /\ [Next]_vars => Unread'
  BY ScanStep, LoadedStep, UnreadStep
<1> QED BY <1>1, <1>2, TypedHolds, PTL DEF Spec

-----------------------------------------------------------------------------
(* A published version is final, unless its job outlived its lock.         *)

Harmless == {"loading", "returned", "completing", "raised", "failing"}

\* A worker on a version has the job's lock and is alone on it; from the commit
\* on it writes no more, and what it is to commit is what it has stored.
Steady(v) ==
  /\ \A w \in Workers : work[w].version = v =>
       /\ job[v].state = "running" /\ job[v].lock = "held"
       /\ \A x \in Workers : work[x].version = v => x = w
       /\ state[v] = "published" => work[w].pc \in Harmless
       /\ work[w].pc = "committing" => stored[v] = work[w].manifest
  /\ state[v] = "published" => stored[v] = manifest[v]

\* A version stays as steady as it was when nothing of it is written and the
\* workers on it go on.
LEMMA SteadyFrame ==
  ASSUME NEW v \in Versions, Steady(v),
         UNCHANGED <<state[v], stored[v], manifest[v], job[v]>>,
         \A x \in Workers : work'[x].version = v => work'[x] = work[x]
  PROVE  Steady(v)'
BY DEF Steady

LEMMA FinishEffect ==
  ASSUME TypeOK, NEW w \in Workers, NEW step, Finish(w, step) \/ Goto(w, step)
  PROVE  /\ work'[w].version = work[w].version /\ work'[w].pc = step
         /\ \A x \in Workers : x # w => work'[x] = work[x]
<1>t. work \in [Workers -> Works]
  BY DEF TypeOK, Works
<1>1. CASE Finish(w, step)
  BY <1>1, <1>t DEF Finish, Works, Idle
<1>2. CASE Goto(w, step)
  BY <1>2, <1>t DEF Goto, Works
<1> QED BY <1>1, <1>2

LEMMA SteadyStep ==
  ASSUME TypeOK, Busy, [Next]_vars, NEW v \in Versions \ TakenOver, Steady(v)
  PROVE  Steady(v)'
<1> USE DEF TypeOK, trip, rows, store, unpublishing
<1>t. work \in [Workers -> Works]
  BY DEF Works
<1>i. Idle.version # v
  BY DEF Idle, Versions
<1>1. ASSUME UNCHANGED <<state, stored, manifest, job, work>> PROVE Steady(v)'
  BY <1>1, SteadyFrame
<1>2. ASSUME NEW c \in Clients, CommitCreate(c) PROVE Steady(v)'
  <2>1. CASE request[c].number = v
    <3>1. \A x \in Workers : work[x].version # v
      BY <1>2, <2>1, <1>t DEF CommitCreate, Busy, Steady, Given
    <3>2. state'[v] = "pending" /\ work' = work
      BY <1>2, <2>1 DEF CommitCreate
    <3> QED BY <3>1, <3>2 DEF Steady
  <2>2. CASE request[c].number # v
    BY <1>2, <2>2, SteadyFrame DEF CommitCreate
  <2> QED BY <2>1, <2>2
<1>3. ASSUME NEW u \in Versions, LockExpires(u) PROVE Steady(v)'
  <2>1. CASE u = v
    BY <1>3, <2>1 DEF LockExpires, Steady
  <2>2. CASE u # v
    BY <1>3, <2>2, SteadyFrame DEF LockExpires
  <2> QED BY <2>1, <2>2
<1>4. ASSUME NEW u \in Versions, BecomeDue(u) PROVE Steady(v)'
  <2>1. CASE u = v
    <3>1. \A x \in Workers : work[x].version # v
      BY <1>4, <2>1 DEF BecomeDue, Steady
    <3> QED BY <1>4, <3>1 DEF BecomeDue, Steady
  <2>2. CASE u # v
    BY <1>4, <2>2, SteadyFrame DEF BecomeDue
  <2> QED BY <2>1, <2>2
<1>5. ASSUME NEW w \in Workers, NEW u \in Versions, Claim(w, u) PROVE Steady(v)'
  <2>1. work'[w].version = u /\ work'[w].pc = "loading" /\ \A x \in Workers : x # w => work'[x] = work[x]
    BY <1>5, <1>t DEF Claim, Idle
  <2>2. CASE u = v
    <3>1. \A x \in Workers : work[x].version # v
      BY <1>5, <2>2 DEF Claim, Eligible, Steady
    <3>2. job'[v].state = "running" /\ job'[v].lock = "held"
      BY <1>5, <2>2 DEF Claim, ClaimedRow, JobRows
    <3> QED BY <1>5, <2>1, <2>2, <3>1, <3>2 DEF Claim, Steady, Harmless
  <2>3. CASE u # v
    BY <1>5, <2>1, <2>3, SteadyFrame DEF Claim
  <2> QED BY <2>2, <2>3
<1>6. ASSUME NEW w \in Workers, PublishStep(w) \/ Fault(w) \/ Crash(w), work[w].version # v
      PROVE  Steady(v)'
  <2>1. \A x \in Workers : x # w => work'[x] = work[x]
    BY <1>6, <1>t DEF PublishStep, LoadVersion, StartPublishing, SelectPhotos, OutlineManifest,
    AssembleManifest, CopyAssets,
         StoreManifest, CommitPublished, CompleteLoad, CompleteCommit, LoadRow, MarkFailed, FailLoad,
         FailCommit, Fault, Crash, Goto, Finish
  <2>2. work'[w].version # v
    <3>1. PublishStep(w) \/ Fault(w) => work[w].pc # "idle"
      BY DEF PublishStep, LoadVersion, StartPublishing, SelectPhotos, OutlineManifest, AssembleManifest,
      CopyAssets,
           StoreManifest, CommitPublished, CompleteLoad, CompleteCommit, LoadRow, MarkFailed, FailLoad,
           FailCommit, Fault
    <3>2. work[w] # Idle
      BY <1>6, <3>1 DEF Crash, Idle
    <3>3. ~\E u \in Versions : Claim(w, u)
      BY <3>2 DEF Claim
    <3> QED BY <1>6, <1>i, <3>3, WorkSteps
  <2>3. UNCHANGED <<state[v], stored[v], manifest[v], job[v]>>
    BY <1>6 DEF PublishStep, LoadVersion, StartPublishing, SelectPhotos, OutlineManifest, AssembleManifest,
    CopyAssets,
         StoreManifest, CommitPublished, CompleteLoad, CompleteCommit, LoadRow, MarkFailed, FailLoad,
         FailCommit, Fault, Crash
  <2>4. \A x \in Workers : work'[x].version = v => work'[x] = work[x]
    BY <2>1, <2>2
  <2> QED BY <2>3, <2>4, SteadyFrame
<1>7. ASSUME NEW w \in Workers, work[w].version = v, UNCHANGED job,
             work'[w].version = v, \A x \in Workers : x # w => work'[x] = work[x],
             state'[v] = "published" => work'[w].pc \in Harmless
                                        /\ stored'[v] = manifest'[v],
             work'[w].pc = "committing" => stored'[v] = work'[w].manifest
      PROVE  Steady(v)'
  BY <1>7 DEF Steady
<1>8. ASSUME NEW w \in Workers, work[w].version = v, PublishStep(w) PROVE Steady(v)'
  <2>o. /\ state[v] = "published" => work[w].pc \in Harmless /\ stored[v] = manifest[v]
        /\ work[w].pc = "committing" => stored[v] = work[w].manifest
    BY <1>8 DEF Steady
  <2>1. CASE LoadVersion(w)
    <3>1. CASE state[v] = "published"
      <4>1. Goto(w, "returned") /\ UNCHANGED <<job, state, stored, manifest>>
        BY <1>8, <2>1, <3>1 DEF LoadVersion
      <4> QED BY <1>7, <1>8, <2>o, <4>1, FinishEffect DEF Harmless
    <3>2. CASE state[v] # "published"
      <4>1. /\ work'[w].version = v /\ work'[w].pc = "starting"
            /\ \A x \in Workers : x # w => work'[x] = work[x]
        BY <1>8, <2>1, <3>2, <1>t DEF LoadVersion, Works
      <4> QED BY <1>7, <1>8, <2>1, <3>2, <4>1 DEF LoadVersion
    <3> QED BY <3>1, <3>2
  <2>2. CASE StartPublishing(w)
    <3>1. state'[v] # "published"
      BY <1>8, <2>2, <2>o DEF StartPublishing, Written, Harmless
    <3>2. work'[w].version = v /\ work'[w].pc = "selecting" /\ \A x \in Workers : x # w => work'[x] = work[x]
      BY <1>8, <2>2, <1>t DEF StartPublishing, Works
    <3> QED BY <1>7, <1>8, <2>2, <3>1, <3>2 DEF StartPublishing
  <2>3. CASE SelectPhotos(w) \/ OutlineManifest(w)
    <3>1. /\ work'[w].version = v /\ work'[w].pc # "committing" /\ work[w].pc \in InTry
          /\ \A x \in Workers : x # w => work'[x] = work[x]
      BY <1>8, <2>3, <1>t DEF SelectPhotos, OutlineManifest, Works, InTry
    <3> QED BY <1>7, <1>8, <2>3, <2>o, <3>1 DEF SelectPhotos, OutlineManifest, InTry, Harmless
  <2>4. CASE AssembleManifest(w)
    <3>1. work'[w].version = v /\ work'[w].pc # "committing" /\ \A x \in Workers : x # w => work'[x] = work[x]
      <4>1. CASE Finish(w, "marking")
        BY <1>8, <4>1, FinishEffect
      <4>2. CASE ~Finish(w, "marking")
        BY <1>8, <2>4, <4>2, <1>t DEF AssembleManifest, Works
      <4> QED BY <4>1, <4>2
    <3> QED BY <1>7, <1>8, <2>4, <2>o, <3>1 DEF AssembleManifest, Harmless
  <2>5. CASE CopyAssets(w)
    <3>1. work'[w].version = v /\ work'[w].pc # "committing" /\ \A x \in Workers : x # w => work'[x] = work[x]
      <4>1. Goto(w, "storing") \/ Finish(w, "marking")
        BY <2>5 DEF CopyAssets
      <4> QED BY <1>8, <4>1, FinishEffect
    <3> QED BY <1>7, <1>8, <2>5, <2>o, <3>1 DEF CopyAssets, Harmless
  <2>6. CASE StoreManifest(w)
    <3>1. /\ work'[w].version = v /\ work'[w].manifest = work[w].manifest
          /\ \A x \in Workers : x # w => work'[x] = work[x]
      BY <1>8, <2>6, <1>t DEF StoreManifest, Goto, Works
    <3>2. stored'[v] = work[w].manifest /\ state'[v] # "published"
      BY <1>8, <2>6, <2>o DEF StoreManifest, Harmless
    <3> QED BY <1>7, <1>8, <2>6, <3>1, <3>2 DEF StoreManifest
  <2>7. CASE CommitPublished(w)
    <3>1. /\ work'[w].version = v /\ work'[w].pc = "returned"
          /\ \A x \in Workers : x # w => work'[x] = work[x]
      BY <1>8, <2>7, <1>t DEF CommitPublished, Finish, Works, Idle
    <3>2. stored'[v] = manifest'[v]
      BY <1>8, <2>7, <2>o DEF CommitPublished
    <3> QED BY <1>7, <1>8, <2>7, <3>1, <3>2 DEF CommitPublished, Harmless
  <2>8. CASE MarkFailed(w)
    <3>1. /\ work'[w].version = v /\ work'[w].pc = "raised"
          /\ \A x \in Workers : x # w => work'[x] = work[x]
      BY <1>8, <2>8, FinishEffect DEF MarkFailed
    <3>2. state'[v] = "failed"
      BY <1>8, <2>8 DEF MarkFailed
    <3> QED BY <1>7, <1>8, <2>8, <3>1, <3>2 DEF MarkFailed
  <2>9. CASE CompleteLoad(w) \/ FailLoad(w)
    <3>1. /\ work'[w].version = v /\ work'[w].pc \in Harmless /\ work'[w].pc # "committing"
          /\ \A x \in Workers : x # w => work'[x] = work[x]
      BY <1>8, <2>9, <1>t DEF CompleteLoad, FailLoad, LoadRow, Works, Harmless
    <3> QED BY <1>7, <1>8, <2>9, <2>o, <3>1 DEF CompleteLoad, FailLoad, LoadRow
  <2>10. CASE CompleteCommit(w) \/ FailCommit(w)
    <3>1. \A x \in Workers : work'[x].version # v
      <4>1. work' = [work EXCEPT ![w] = Idle]
        BY <2>10 DEF CompleteCommit, FailCommit
      <4>2. \A x \in Workers : work[x].version = v => x = w
        BY <1>8 DEF Steady
      <4> QED BY <1>t, <1>i, <4>1, <4>2
    <3>2. UNCHANGED <<state, stored, manifest>>
      BY <2>10 DEF CompleteCommit, FailCommit
    <3> QED BY <3>1, <3>2 DEF Steady
  <2> QED BY <1>8, <2>1, <2>2, <2>3, <2>4, <2>5, <2>6, <2>7, <2>8, <2>9, <2>10 DEF PublishStep
<1>9. ASSUME NEW w \in Workers, work[w].version = v, Fault(w) PROVE Steady(v)'
  <2>1. /\ work'[w].version = v /\ \A x \in Workers : x # w => work'[x] = work[x]
        /\ work'[w].pc = IF work[w].pc \in InTry THEN "marking" ELSE "raised"
    BY <1>9, <1>t DEF Fault, Finish, Works, Idle
  <2>2. state[v] = "published" => work[w].pc \notin InTry /\ stored[v] = manifest[v]
    BY <1>9 DEF Steady, InTry, Harmless
  <2> QED BY <1>7, <1>9, <2>1, <2>2 DEF Fault, Harmless
<1>10. ASSUME NEW w \in Workers, work[w].version = v, Crash(w) PROVE Steady(v)'
  <2>1. \A x \in Workers : work'[x].version # v
    BY <1>10, <1>t, <1>i DEF Crash, Steady
  <2>2. UNCHANGED <<state, stored, manifest>>
    BY <1>10 DEF Crash
  <2> QED BY <2>1, <2>2 DEF Steady
<1> QED BY <1>1, <1>2, <1>3, <1>4, <1>5, <1>6, <1>8, <1>9, <1>10 DEF Next, vars, SetListed, EditStory,
       LoadCreate, NumberVersion, AbortCreate, RevokeLink, ReadVersion, UnpublishScan, UnpublishLoad,
       UnpublishCommit,
       ReadManifest

AllSteady == \A v \in Versions \ TakenOver : Steady(v)

LEMMA AllSteadyHolds == Spec => []AllSteady
<1>1. Init => AllSteady
  BY DEF Init, AllSteady, Steady, Idle, Versions
<1>2. TypeOK /\ Busy /\ AllSteady /\ [Next]_vars => AllSteady'
  BY SteadyStep DEF AllSteady
<1> QED BY <1>1, <1>2, TypedHolds, PTL DEF Spec

\* Neither the row nor the stored manifest of a published version changes.
LEMMA FinalStep ==
  ASSUME TypeOK, [Next]_vars, NEW v \in Versions, Steady(v), state[v] = "published"
  PROVE  state'[v] = "published" /\ manifest'[v] = manifest[v] /\ stored'[v] = stored[v]
<1> USE DEF TypeOK
<1> DEFINE Same == state'[v] = "published" /\ manifest'[v] = manifest[v] /\ stored'[v] = stored[v]
<1>1. ASSUME NEW c \in Clients, CommitCreate(c) PROVE Same
  BY <1>1 DEF CommitCreate, store
<1>2. ASSUME NEW w \in Workers, StartPublishing(w) \/ StoreManifest(w) \/ CommitPublished(w) \/ MarkFailed(w)
      PROVE  Same
  <2>1. work[w].version # v
    BY <1>2 DEF Steady, StartPublishing, StoreManifest, CommitPublished, MarkFailed, Harmless
  <2> QED BY <1>2, <2>1 DEF StartPublishing, StoreManifest, CommitPublished, MarkFailed, rows, store
<1>3. CASE UNCHANGED <<state, manifest, stored>>
  BY <1>3
<1> QED BY <1>1, <1>2, <1>3 DEF Next, vars, trip, rows, store, unpublishing, SetListed, EditStory, LoadCreate,
       NumberVersion, AbortCreate, RevokeLink, LockExpires, BecomeDue, ReadVersion, UnpublishScan,
       UnpublishLoad,
       UnpublishCommit, PublishStep, LoadVersion, SelectPhotos, OutlineManifest, AssembleManifest,
       CopyAssets, CompleteLoad, CompleteCommit, LoadRow,
       FailLoad, FailCommit, Fault, Crash, Claim, ReadManifest

\* Published versions are immutable, wherever workers fail or are killed, as
\* long as the job of the version does not outlive its lock.
THEOREM PublishedFinal == Spec => PublishedIsFinal
<1> DEFINE Final == \A v \in Versions \ TakenOver : state[v] = "published" =>
                      /\ state'[v] = "published"
                      /\ manifest'[v] = manifest[v] /\ stored'[v] = stored[v]
<1>1. ASSUME TypeOK, AllSteady, [Next]_vars PROVE Final
  BY <1>1, FinalStep DEF AllSteady
<1>2. TypeOK /\ AllSteady /\ [Next]_vars => [Final]_vars
  <2> HIDE DEF Final
  <2> QED BY <1>1
<1> QED BY <1>2, TypeCorrect, AllSteadyHolds, PTL DEF Spec, PublishedIsFinal

\* Between its two loads a reader finds the version as it was at the first.
ReadIsCurrent ==
  reading # NoRead /\ reading.version \notin TakenOver =>
    /\ reading.version \in Versions
    /\ state[reading.version] = "published" /\ manifest[reading.version] = reading.manifest

\* What a reader loads, and the process caches under the checksum of the row,
\* is the object with that checksum.
THEOREM ReadersServed == Spec => []ReadersGetTheirManifest
<1>1. Init => ReadIsCurrent
  BY DEF Init, ReadIsCurrent
<1>2. TypeOK /\ AllSteady /\ ReadIsCurrent /\ [Next]_vars => ReadIsCurrent'
  <2> SUFFICES ASSUME TypeOK, AllSteady, ReadIsCurrent, [Next]_vars PROVE ReadIsCurrent'
    OBVIOUS
  <2>1. ASSUME NEW v \in Versions, ReadVersion(v) PROVE ReadIsCurrent'
    BY <2>1 DEF ReadVersion, ReadIsCurrent, Readable, rows
  <2>2. CASE ReadManifest
    BY <2>2 DEF ReadManifest, ReadIsCurrent
  <2>3. CASE UNCHANGED reading
    <3> SUFFICES ASSUME reading # NoRead, reading.version \notin TakenOver
                 PROVE  /\ reading.version \in Versions
                        /\ state'[reading.version] = "published"
                        /\ manifest'[reading.version] = reading.manifest
      BY <2>3 DEF ReadIsCurrent
    <3>1. PICK v \in Versions \ TakenOver : v = reading.version
      BY DEF ReadIsCurrent
    <3>2. state[v] = "published" /\ manifest[v] = reading.manifest /\ Steady(v)
      BY <3>1 DEF ReadIsCurrent, AllSteady
    <3> QED BY <3>1, <3>2, FinalStep
  <2> QED BY <2>1, <2>2, <2>3 DEF Next, vars, trip, rows, store, unpublishing, SetListed, EditStory, LoadCreate,
       NumberVersion, CommitCreate, AbortCreate, RevokeLink, LockExpires, BecomeDue, UnpublishScan,
       UnpublishLoad,
       UnpublishCommit, PublishStep, LoadVersion, StartPublishing, SelectPhotos, OutlineManifest,
       AssembleManifest, CopyAssets,
       StoreManifest, CommitPublished, CompleteLoad, CompleteCommit, LoadRow, MarkFailed, FailLoad,
       FailCommit, Fault, Crash, Claim
<1>3. ReadIsCurrent /\ AllSteady => ReadersGetTheirManifest
  BY DEF ReadIsCurrent, AllSteady, Steady, ReadersGetTheirManifest
<1> QED BY <1>1, <1>2, <1>3, TypeCorrect, AllSteadyHolds, PTL DEF Spec

-----------------------------------------------------------------------------
(* A published version is whole.                                           *)

\* A manifest shows only photos it lists.
Outlined(m) == \A t \in Stops : m.shown[t] \subseteq m.assets

Assembled(m) == Outlined(m) /\ PageStops(m) # {}

LEMMA OutlineShows ==
  /\ \A P, s : Outlined(Outline(P, s))
  /\ \A m \in Manifests : \A s :
       /\ Outlined(m) => Outlined(WithAreas(m, s))
       /\ PageStops(WithAreas(m, s)) = PageStops(m)
<1>1. ASSUME NEW P, NEW s PROVE Outlined(Outline(P, s))
  BY DEF Outlined, Outline, Shown, NoManifest
<1>2. ASSUME NEW m \in Manifests, NEW s
      PROVE  WithAreas(m, s).shown = m.shown /\ WithAreas(m, s).assets = m.assets
  BY DEF Manifests, WithAreas
<1> QED BY <1>1, <1>2 DEF Outlined, PageStops

\* What a worker carries from one step to the next, and what the store has: the
\* assets of a manifest are there before the manifest, and the manifest before the row.
Whole(m) == Assembled(m) /\ Keys(m) \subseteq public

Carrying == {"assembling", "copying", "storing", "committing"}

Carried(w) ==
  /\ work[w].pc \in Carrying => Outlined(work[w].manifest)
  /\ work[w].pc \in Carrying \ {"assembling"} => PageStops(work[w].manifest) # {}
  /\ work[w].pc \in {"storing", "committing"} => Keys(work[w].manifest) \subseteq public
  /\ work[w].pc = "committing" => stored[work[w].version] # NoManifest

StoreIsWhole ==
  /\ \A w \in Workers : Carried(w)
  /\ \A v \in Versions : stored[v] # NoManifest => Whole(stored[v])
  /\ \A v \in Versions : state[v] = "published" => stored[v] # NoManifest

\* The store only grows: what a worker carries does not suffer from what others do.
LEMMA CarriedStays ==
  ASSUME Busy, NEW w \in Workers, Carried(w), public \subseteq public',
         \A v \in Versions : stored[v] # NoManifest => stored'[v] # NoManifest,
         work'[w] = work[w] \/ work'[w].pc \notin Carrying
  PROVE  Carried(w)'
<1>1. CASE work'[w].pc \notin Carrying
  BY <1>1 DEF Carried, Carrying
<1>2. CASE work'[w] = work[w]
  <2>1. work[w].pc = "committing" => work[w].version \in Versions
    BY DEF Busy
  <2>2. PageStops(work[w].manifest)' = PageStops(work[w].manifest)
    BY <1>2 DEF PageStops
  <2>3. Outlined(work[w].manifest)' <=> Outlined(work[w].manifest)
    BY <1>2 DEF Outlined
  <2>4. Keys(work[w].manifest)' = Keys(work[w].manifest)
    BY <1>2 DEF Keys
  <2> QED BY <1>2, <2>1, <2>2, <2>3, <2>4 DEF Carried, Carrying
<1> QED BY <1>1, <1>2

\* A step of one worker, or of none, that stores no manifest and publishes no version.
LEMMA WholeFrame ==
  ASSUME Busy, StoreIsWhole, public \subseteq public', UNCHANGED stored,
         \A v \in Versions : state'[v] = "published" => state[v] = "published",
         \A w \in Workers : Carried(w)' \/ work'[w] = work[w] \/ work'[w].pc \notin Carrying
  PROVE  StoreIsWhole'
<1>1. \A v \in Versions : stored'[v] # NoManifest => Whole(stored[v])'
  BY DEF StoreIsWhole, Whole, Assembled, Outlined, PageStops
<1>2. \A w \in Workers : Carried(w)'
  BY CarriedStays DEF StoreIsWhole
<1> QED BY <1>1, <1>2 DEF StoreIsWhole

LEMMA WholeStep ==
  ASSUME TypeOK, Busy, StoreIsWhole, [Next]_vars
  PROVE  StoreIsWhole'
<1> USE DEF TypeOK, trip, rows, store, unpublishing
<1>t. work \in [Workers -> Works]
  BY DEF Works
<1>1. ASSUME NEW c \in Clients, CommitCreate(c) PROVE StoreIsWhole'
  BY <1>1, WholeFrame DEF CommitCreate
<1>2. ASSUME NEW w \in Workers, NEW v \in Versions, Claim(w, v) PROVE StoreIsWhole'
  <2>1. \A x \in Workers : work'[x] = work[x] \/ work'[x].pc = "loading"
    BY <1>2, <1>t DEF Claim, Idle
  <2> QED BY <1>2, <2>1, WholeFrame DEF Claim, Carrying
<1>3. ASSUME NEW w \in Workers, LoadVersion(w) PROVE StoreIsWhole'
  <2>1. \A x \in Workers : work'[x] = work[x] \/ work'[x].pc \in {"returned", "starting"}
    BY <1>3, <1>t DEF LoadVersion, Goto, Works
  <2> QED BY <1>3, <2>1, WholeFrame DEF LoadVersion, Carrying
<1>4. ASSUME NEW w \in Workers, StartPublishing(w) PROVE StoreIsWhole'
  <2>1. \A x \in Workers : work'[x] = work[x] \/ work'[x].pc = "selecting"
    BY <1>4, <1>t DEF StartPublishing, Works
  <2>2. \A v \in Versions : state'[v] = "published" => state[v] = "published"
    BY <1>4 DEF StartPublishing, Written
  <2> QED BY <1>4, <2>1, <2>2, WholeFrame DEF StartPublishing, Carrying
<1>5. ASSUME NEW w \in Workers, SelectPhotos(w) PROVE StoreIsWhole'
  <2>1. \A x \in Workers : work'[x] = work[x] \/ work'[x].pc \in {"marking", "outlining"}
    BY <1>5, <1>t DEF SelectPhotos, Works
  <2> QED BY <1>5, <2>1, WholeFrame DEF SelectPhotos, Carrying
<1>14. ASSUME NEW w \in Workers, OutlineManifest(w) PROVE StoreIsWhole'
  <2>1. /\ work'[w].pc = "assembling" /\ work'[w].manifest = Outline(work[w].photos, story)
        /\ \A x \in Workers : x # w => work'[x] = work[x]
    BY <1>14, <1>t DEF OutlineManifest, Works
  <2>2. Outlined(work'[w].manifest)
    BY <2>1, OutlineShows
  <2>3. Carried(w)'
    BY <2>1, <2>2 DEF Carried, Outlined, Carrying
  <2> QED BY <1>14, <2>1, <2>3, WholeFrame DEF OutlineManifest
<1>6. ASSUME NEW w \in Workers, AssembleManifest(w) PROVE StoreIsWhole'
  <2> DEFINE m == work[w].manifest
  <2>1. CASE PageStops(m) = {}
    <3>1. \A x \in Workers : work'[x] = work[x] \/ work'[x].pc = "marking"
      BY <1>6, <2>1, FinishEffect DEF AssembleManifest
    <3> QED BY <1>6, <3>1, WholeFrame DEF AssembleManifest, Carrying
  <2>2. CASE PageStops(m) # {}
    <3>1. /\ work'[w].pc = "copying" /\ work'[w].manifest = WithAreas(m, story)
          /\ \A x \in Workers : x # w => work'[x] = work[x]
      BY <1>6, <2>2, <1>t DEF AssembleManifest, Works
    <3>2. Outlined(m) /\ m \in Manifests
      BY <1>6, <1>t DEF AssembleManifest, StoreIsWhole, Carried, Carrying, Works
    <3>3. Outlined(work'[w].manifest) /\ PageStops(work'[w].manifest) # {}
      BY <2>2, <3>1, <3>2, OutlineShows
    <3>4. Carried(w)'
      BY <3>1, <3>3 DEF Carried, Outlined, PageStops, Carrying
    <3> QED BY <1>6, <3>1, <3>4, WholeFrame DEF AssembleManifest
  <2> QED BY <2>1, <2>2
<1>7. ASSUME NEW w \in Workers, CopyAssets(w) PROVE StoreIsWhole'
  <2> DEFINE m == work[w].manifest
             needed == ToCopy(work[w].version, m)
  <2>1. PICK done \in SUBSET needed :
          public' = public \cup done
          /\ IF done = needed THEN Goto(w, "storing") ELSE Finish(w, "marking")
    BY <1>7 DEF CopyAssets
  <2>2. UNCHANGED <<state, stored>> /\ public \subseteq public' /\ Assembled(m)
    BY <1>7, <2>1 DEF CopyAssets, StoreIsWhole, Carried, Carrying, Assembled
  <2>3. CASE Finish(w, "marking")
    <3>1. \A x \in Workers : work'[x] = work[x] \/ work'[x].pc = "marking"
      BY <2>3, FinishEffect
    <3> QED BY <2>2, <3>1, WholeFrame DEF Carrying
  <2>4. CASE done = needed /\ Goto(w, "storing")
    <3>1. /\ work'[w].pc = "storing" /\ work'[w].manifest = m
          /\ \A x \in Workers : x # w => work'[x] = work[x]
      BY <2>4, <1>t DEF Goto, Works
    <3>2. KnownKeys(work[w].version) \subseteq public
      BY DEF KnownKeys, StoreIsWhole, Whole
    <3>3. Keys(m) \subseteq public'
      BY <2>1, <2>4, <3>2 DEF ToCopy
    <3> HIDE DEF m, needed
    <3>4. Carried(w)'
      BY <2>2, <3>1, <3>3 DEF Carried, Assembled, Outlined, PageStops, Keys, Carrying
    <3> QED BY <2>2, <3>1, <3>4, WholeFrame
  <2> QED BY <2>1, <2>3, <2>4
<1>8. ASSUME NEW w \in Workers, StoreManifest(w) PROVE StoreIsWhole'
  <2> DEFINE m == work[w].manifest
             v == work[w].version
  <2>1. Whole(m) /\ v \in Versions
    BY <1>8 DEF StoreManifest, StoreIsWhole, Carried, Carrying, Whole, Assembled, Busy
  <2>2. m # NoManifest
    BY <2>1 DEF Whole, Assembled, PageStops, NoManifest
  <2>3. stored' = [stored EXCEPT ![v] = m] /\ UNCHANGED <<state, public>>
    BY <1>8 DEF StoreManifest
  <2>4. /\ work'[w].pc = "committing" /\ work'[w].manifest = m /\ work'[w].version = v
        /\ \A x \in Workers : x # w => work'[x] = work[x]
    BY <1>8, <1>t DEF StoreManifest, Goto, Works
  <2> HIDE DEF m, v
  <2>5. ASSUME NEW u \in Versions PROVE stored[u] # NoManifest => stored'[u] # NoManifest
    BY <2>2, <2>3
  <2>6. ASSUME NEW u \in Versions, stored'[u] # NoManifest PROVE Whole(stored[u])'
    <3>1. CASE u = v
      BY <2>1, <2>3, <3>1 DEF Whole, Assembled, Outlined, PageStops, Keys
    <3>2. CASE u # v
      <4>1. stored'[u] = stored[u] /\ Whole(stored[u])
        BY <2>3, <2>6, <3>2 DEF StoreIsWhole
      <4> QED BY <2>3, <4>1 DEF Whole, Assembled, Outlined, PageStops, Keys
    <3> QED BY <3>1, <3>2
  <2>7. stored'[v] # NoManifest
    BY <2>1, <2>2, <2>3
  <2>8. Carried(w)'
    BY <2>1, <2>3, <2>4, <2>7 DEF Carried, Carrying, Whole, Assembled, Outlined, PageStops, Keys
  <2>9. \A x \in Workers : Carried(x)'
    BY <2>3, <2>4, <2>5, <2>8, CarriedStays DEF StoreIsWhole
  <2> QED BY <2>3, <2>5, <2>6, <2>9 DEF StoreIsWhole
<1>9. ASSUME NEW w \in Workers, CommitPublished(w) PROVE StoreIsWhole'
  <2>1. stored[work[w].version] # NoManifest /\ UNCHANGED <<public, stored>>
    BY <1>9 DEF CommitPublished, StoreIsWhole, Carried
  <2>2. \A x \in Workers : work'[x] = work[x] \/ work'[x].pc \notin Carrying
    BY <1>9, FinishEffect DEF CommitPublished, Carrying
  <2>3. \A v \in Versions : state'[v] = "published" => stored'[v] # NoManifest
    BY <1>9, <2>1 DEF CommitPublished, StoreIsWhole
  <2>4. \A v \in Versions : stored'[v] # NoManifest => Whole(stored[v])'
    BY <2>1 DEF StoreIsWhole, Whole, Assembled, Outlined, PageStops
  <2>5. \A x \in Workers : Carried(x)'
    BY <2>1, <2>2, CarriedStays DEF StoreIsWhole
  <2> QED BY <2>3, <2>4, <2>5 DEF StoreIsWhole
<1>10. ASSUME NEW w \in Workers, MarkFailed(w) PROVE StoreIsWhole'
  <2>1. \A x \in Workers : work'[x] = work[x] \/ work'[x].pc = "raised"
    BY <1>10, FinishEffect DEF MarkFailed
  <2>2. \A v \in Versions : state'[v] = "published" => state[v] = "published"
    BY <1>10 DEF MarkFailed
  <2> QED BY <1>10, <2>1, <2>2, WholeFrame DEF MarkFailed, Carrying
<1>11. ASSUME NEW w \in Workers, CompleteCommit(w) \/ FailCommit(w) \/ Crash(w) PROVE StoreIsWhole'
  <2>i. Idle.pc = "idle" /\ work' = [work EXCEPT ![w] = Idle]
    BY <1>11 DEF CompleteCommit, FailCommit, Crash, Idle
  <2>1. \A x \in Workers : work'[x] = work[x] \/ work'[x].pc = "idle"
    BY <2>i, <1>t
  <2> QED BY <1>11, <2>1, WholeFrame DEF CompleteCommit, FailCommit, Crash, Carrying
<1>15. ASSUME NEW w \in Workers, CompleteLoad(w) \/ FailLoad(w) PROVE StoreIsWhole'
  <2>1. \A x \in Workers : work'[x] = work[x] \/ work'[x].pc \in {"completing", "failing"}
    BY <1>15, <1>t DEF CompleteLoad, FailLoad, LoadRow, Works
  <2> QED BY <1>15, <2>1, WholeFrame DEF CompleteLoad, FailLoad, LoadRow, Carrying
<1>12. ASSUME NEW w \in Workers, Fault(w) PROVE StoreIsWhole'
  <2>1. Finish(w, "marking") \/ Finish(w, "raised")
    BY <1>12 DEF Fault
  <2>2. \A x \in Workers : work'[x] = work[x] \/ work'[x].pc \in {"marking", "raised"}
    BY <2>1, FinishEffect
  <2> QED BY <1>12, <2>2, WholeFrame DEF Fault, Carrying
<1>13. CASE UNCHANGED <<state, stored, public, work>>
  BY <1>13, WholeFrame
<1> QED BY <1>1, <1>2, <1>3, <1>4, <1>5, <1>6, <1>7, <1>8, <1>9, <1>10, <1>11, <1>12, <1>13, <1>14, <1>15
    DEF Next, vars, PublishStep, SetListed, EditStory, LoadCreate, NumberVersion, AbortCreate, RevokeLink,
        LockExpires, BecomeDue, ReadVersion, UnpublishScan, UnpublishLoad, UnpublishCommit, ReadManifest

\* A published version names a manifest that is in the store with every derivative it
\* lists, and shows only photos it lists: whatever fails, is killed or runs
\* twice, and whichever copies were left out because other manifests list them.
THEOREM PublishedWhole == Spec => []PublishedIsWhole
<1>1. Init => StoreIsWhole
  BY DEF Init, StoreIsWhole, Carried, Carrying, Idle
<1>2. TypeOK /\ Busy /\ StoreIsWhole /\ [Next]_vars => StoreIsWhole'
  BY WholeStep
<1>3. StoreIsWhole => PublishedIsWhole
  BY DEF StoreIsWhole, Whole, Assembled, Outlined, PageStops, PublishedIsWhole
<1> QED BY <1>1, <1>2, <1>3, TypedHolds, PTL DEF Spec

-----------------------------------------------------------------------------
(* The stable address.                                                     *)

\* Once there is a version the trip has a slug, whichever request made it.
TripHasSlug ==
  /\ \A c \in Clients : request[c].slug # 0 => slug # 0
  /\ \A v \in Versions : Given(v) => slug # 0

\* Where slugs, addresses and the requests that make them are written.
LEMMA RequestSteps ==
  ASSUME [Next]_vars
  PROVE  \/ UNCHANGED <<slug, url, request>>
         \/ UNCHANGED <<slug, url, state>> /\ \E c \in Clients :
              LoadCreate(c) \/ NumberVersion(c) \/ AbortCreate(c)
         \/ \E c \in Clients : CommitCreate(c)
<1> DEFINE Same == UNCHANGED <<slug, url, request>>
<1> USE DEF trip, rows, store, unpublishing
<1>1. ASSUME NEW w \in Workers, PublishStep(w) \/ Fault(w) \/ Crash(w) PROVE Same
  BY <1>1 DEF PublishStep, LoadVersion, StartPublishing, SelectPhotos, OutlineManifest, AssembleManifest,
       CopyAssets, StoreManifest, CommitPublished, CompleteLoad, CompleteCommit, MarkFailed, FailLoad,
       FailCommit, LoadRow, Fault, Crash
<1>2. CASE UnpublishScan \/ UnpublishLoad \/ UnpublishCommit
  BY <1>2 DEF UnpublishScan, UnpublishLoad, UnpublishCommit
<1>3. ASSUME NEW c \in Clients, LoadCreate(c) \/ NumberVersion(c) \/ AbortCreate(c)
      PROVE  UNCHANGED <<slug, url, state>>
  BY <1>3 DEF LoadCreate, NumberVersion, AbortCreate
<1> QED BY <1>1, <1>2, <1>3 DEF Next, vars, SetListed, EditStory, RevokeLink, LockExpires, BecomeDue,
       ReadVersion, Claim, ReadManifest

LEMMA SlugStep ==
  ASSUME TypeOK, NumbersFollow, Busy, TripHasSlug, [Next]_vars
  PROVE  TripHasSlug'
<1> USE DEF TypeOK
<1>0. NoRequest.slug = 0 /\ NoRequest.pc = "idle"
  BY DEF NoRequest
<1>1. ASSUME NEW c \in Clients, LoadCreate(c) \/ NumberVersion(c) \/ AbortCreate(c),
             UNCHANGED <<slug, url, state>>
      PROVE  TripHasSlug'
  <2>1. \A d \in Clients : request'[d].slug \in {0, slug, request[d].slug}
    BY <1>0, <1>1 DEF LoadCreate, NumberVersion, AbortCreate
  <2> QED BY <1>1, <2>1 DEF TripHasSlug, Given
<1>2. ASSUME NEW c \in Clients, CommitCreate(c) PROVE slug' # 0
  <2>1. request[c].number \in Versions /\ request[c].number # 0
    BY <1>2 DEF CommitCreate, NumbersFollow, Versions
  <2>2. CASE request[c].slug = 0
    BY <1>2, <2>1, <2>2 DEF CommitCreate, OwnSlug, Written
  <2>3. CASE request[c].slug # 0
    BY <1>2, <2>3 DEF CommitCreate, OwnSlug, Written, TripHasSlug
  <2> QED BY <2>2, <2>3
<1>3. CASE UNCHANGED <<slug, url, request>>
  <2>1. \A v \in Versions : Given(v)' => Given(v)
    <3>1. ASSUME NEW c \in Clients, CommitCreate(c) PROVE FALSE
      <4>1. request[c] = request'[c] /\ request'[c] = NoRequest /\ request[c].pc = "numbered"
        BY <1>3, <3>1 DEF CommitCreate
      <4> QED BY <1>0, <4>1
    <3>2. ASSUME NEW w \in Workers, StartPublishing(w) \/ CommitPublished(w) \/ MarkFailed(w), NEW v \in Versions
          PROVE  Given(v)' => Given(v)
      <4>1. Given(work[w].version) /\ (work[w].version # v => state'[v] = state[v])
        BY <3>2 DEF StartPublishing, CommitPublished, MarkFailed, Busy
      <4> QED BY <4>1 DEF Given
    <3> QED BY <3>1, <3>2, StateSteps DEF Given
  <2> QED BY <1>3, <2>1 DEF TripHasSlug
<1> QED BY <1>1, <1>2, <1>3, RequestSteps DEF TripHasSlug

LEMMA SlugHolds == Spec => []TripHasSlug
<1>1. Init => TripHasSlug
  BY DEF Init, TripHasSlug, NoRequest, Given
<1>2. TypeOK /\ NumbersFollow /\ Busy /\ TripHasSlug /\ [Next]_vars => TripHasSlug'
  BY SlugStep
<1> QED BY <1>1, <1>2, TypedHolds, PTL DEF Spec

\* The least-number principle, without the operator of the library's theorem.
Less == {e \in Nat \X Nat : e[1] < e[2]}

LEMMA LeastNumber ==
  ASSUME NEW T \in SUBSET Nat, T # {}
  PROVE  \E x \in T : \A y \in T : x <= y
<1>1. IsWellFoundedOn(Less, Nat)
  BY NatLessThanWellFounded DEF OpToRel, Less
<1>2. PICK x \in T : \A y \in T : <<y, x>> \notin Less
  BY <1>1, WFMin
<1>3. \A y \in T : ~(y < x)
  BY <1>2 DEF Less
<1> QED BY <1>3

\* If a version is published there is a newest one.
LEMMA SomeNewest ==
  ASSUME NEW v \in Versions, state[v] = "published"
  PROVE  \E n \in Newest : v <= n
<1> DEFINE T == {x \in Nat : \E u \in Versions : state[u] = "published" /\ x = MaxVersions - u}
<1>0. MaxVersions \in Nat /\ Versions = 1 .. MaxVersions
  BY PublicationBounds DEF Versions
<1>1. MaxVersions - v \in T
  BY <1>0
<1>2. PICK x \in T : \A y \in T : x <= y
  BY <1>1, LeastNumber
<1>3. PICK n \in Versions : state[n] = "published" /\ x = MaxVersions - n
  BY <1>2
<1>4. \A u \in Versions : state[u] = "published" => u <= n
  <2> SUFFICES ASSUME NEW u \in Versions, state[u] = "published" PROVE u <= n
    OBVIOUS
  <2>1. MaxVersions - u \in T
    BY <1>0
  <2>2. x <= MaxVersions - u
    BY <1>2, <2>1
  <2> HIDE DEF T
  <2> QED BY <1>0, <1>3, <2>2
<1> QED BY <1>3, <1>4 DEF Newest

\* A version comes under the stable address only by being published: revoking the
\* newest never makes the address fall back to an older one.
LEMMA StableStep ==
  ASSUME TypeOK, AllSteady, TripHasSlug, [Next]_vars,
         NEW v \in Versions, state[v] = "published", v \in StableAddress(slug)',
         Newest \cap TakenOver = {}
  PROVE  v \in StableAddress(slug)
<1> USE DEF TypeOK
<1>1. state'[v] = "published" /\ link'[v] = "active" /\ \A u \in Versions : state'[u] = "published" => u <= v
  BY DEF StableAddress, Newest
<1>2. PICK n \in Newest : v <= n
  BY SomeNewest
<1>3. n \in Versions \ TakenOver /\ state[n] = "published" /\ Steady(n)
  BY <1>2 DEF Newest, AllSteady
<1>4. n <= v
  BY <1>1, <1>3, FinalStep
<1>5. n = v
  BY <1>2, <1>3, <1>4, PublicationBounds DEF Versions
<1>6. link[v] = "active"
  <2>1. ASSUME NEW c \in Clients, CommitCreate(c) PROVE link'[v] = link[v]
    BY <2>1 DEF CommitCreate
  <2>2. ASSUME NEW u \in Versions, RevokeLink(u) PROVE link[v] = "active"
    BY <1>1, <2>2 DEF RevokeLink
  <2>3. CASE UnpublishScan \/ UnpublishLoad
    BY <1>1, <2>3 DEF UnpublishScan, UnpublishLoad, rows
  <2>4. CASE UnpublishCommit
    BY <1>1, <2>4 DEF UnpublishCommit
  <2>5. ASSUME NEW w \in Workers, CommitPublished(w) PROVE link[v] = "active"
    BY <1>1, <2>5 DEF CommitPublished
  <2> QED BY <1>1, <2>1, <2>2, <2>3, <2>4, <2>5, LinkSteps
<1>7. slug # 0
  BY DEF TripHasSlug, Given
<1> QED BY <1>2, <1>5, <1>6, <1>7 DEF StableAddress

\* Revoking, unpublishing and publishing again, in any order and whatever crashes: the
\* stable address never leads back to an older version.
THEOREM StableMovesOnPublish == Spec => StableAddressMovesOnPublish
<1> DEFINE Moves == \A v \in StableAddress(slug)' \ StableAddress(slug) :
                      state[v] # "published" \/ Newest \cap TakenOver # {}
<1>1. TypeOK /\ AllSteady /\ TripHasSlug /\ [Next]_vars => [Moves]_vars
  BY StableStep DEF StableAddress, Newest
<1> QED BY <1>1, TypeCorrect, AllSteadyHolds, SlugHolds, PTL DEF Spec, StableAddressMovesOnPublish
================================================================================
