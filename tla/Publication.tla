------------------------------ MODULE Publication ------------------------------
(***************************************************************************)
(* The publication of a trip: requests that number a new story version,    *)
(* the worker threads that turn it into a manifest and public copies of    *)
(* its derivatives, the share links that give access to it, and the        *)
(* reading, whose process keeps manifests in a cache.                      *)
(*                                                                         *)
(* Sessions are those of JobRow: a commit writes what differs from the     *)
(* value loaded, and nothing expires what a session has loaded.  A         *)
(* manifest is identified with its content, so that its checksum is the    *)
(* manifest itself.  The private derivatives of a listed photo exist (that *)
(* is MediaIngest's ReadyHasDerivatives); a store that fails all the same  *)
(* is a Fault.  No link is given an expiry date by any code.               *)
(***************************************************************************)
EXTENDS JobRow, FiniteSets, Sequences

CONSTANTS
  Photos,           \* the photos of the trip
  Stops, Areas,     \* the stops and area visits of its story
  Stories,          \* the reconstructions it may go through
  KeyOf,            \* the checksum-addressed public key of a photo's derivatives
  Changing,         \* the photos whose visibility changes
  MaxVersions,      \* bound: publications requested
  Clients,          \* concurrent publication requests
  Workers,          \* worker threads
  MaxAttempts,      \* the column max_attempts
  MaxCrashes,       \* bound: workers killed
  TakenOver         \* versions whose job may outlive its lock

Versions == 1 .. MaxVersions
None == "none"

ASSUME PublicationBounds ==
  /\ MaxVersions \in Nat \ {0} /\ MaxAttempts \in Nat \ {0} /\ MaxCrashes \in Nat
  /\ TakenOver \subseteq Versions /\ Changing \subseteq Photos
ASSUME PublicationStories ==
  /\ DOMAIN KeyOf = Photos
  /\ \A s \in Stories : /\ s.stopOf \in [Photos -> Stops \cup {None}]
                        /\ s.areaOf \in [Stops -> Areas \cup {None}]

VARIABLES
  listed,    \* the READY photos shown in the story
  story,     \* the latest reconstruction, or NoStory
  slug,      \* the slug of the trip: the version it was made for, 0 if none
  visible,   \* the column visibility of the trip: published or private
  request,   \* what each publication request has read
  state,     \* the column state of each version
  manifest,  \* its manifest_checksum
  url,       \* the slug in the address its creator was given
  link,      \* the status of its share link
  job,       \* its row of processing_jobs
  work,      \* what each worker is doing
  crashes,   \* workers killed so far
  public,    \* derivatives in the store story_published
  stored,    \* manifest.json of each version in that store
  reading,   \* the version row a reader has loaded, or NoRead
  unpublish, \* what the unpublish request has loaded; one runs at a time (a bound)
  unseen     \* versions requested while an unpublish request was under way

trip == <<listed, story, slug, visible>>
rows == <<state, manifest, url, link, job>>
store == <<public, stored>>
unpublishing == <<unpublish, unseen>>
vars == <<trip, request, rows, work, crashes, store, reading, unpublishing>>

\* No reconstruction yet, and no manifest yet.
NoStory == [stopOf |-> [p \in Photos |-> None], areaOf |-> [t \in Stops |-> None]]
NoManifest == [assets |-> {}, shown |-> [t \in Stops |-> {}],
               areas |-> [a \in Areas |-> {}]]

VersionStates == {"absent", "pending", "publishing", "published", "failed"}
LinkStates == {None, "active", "revoked"}
NoRead == [version |-> 0, manifest |-> NoManifest]
NoUnpublish == [pc |-> "idle", links |-> {}, visible |-> FALSE]
NoRequest == [pc |-> "idle", slug |-> 0, number |-> 0]
Idle == [pc |-> "idle", version |-> 0, attempt |-> 0, seen |-> "absent", visible |-> FALSE,
         photos |-> {}, manifest |-> NoManifest, row |-> AbsentRow]

InTry == {"selecting", "outlining", "assembling", "copying", "storing"}
WorkerPCs == InTry \cup {"idle", "loading", "starting", "committing", "marking",
                         "returned", "completing", "raised", "failing"}

Init ==
  /\ listed = Photos /\ story \in Stories /\ slug = 0 /\ visible = FALSE
  /\ request = [c \in Clients |-> NoRequest]
  /\ state = [v \in Versions |-> "absent"]
  /\ manifest = [v \in Versions |-> NoManifest]
  /\ url = [v \in Versions |-> 0]
  /\ link = [v \in Versions |-> None]
  /\ job = [v \in Versions |-> AbsentRow]
  /\ work = [w \in Workers |-> Idle]
  /\ crashes = 0
  /\ public = {} /\ stored = [v \in Versions |-> NoManifest]
  /\ reading = NoRead
  /\ unpublish = NoUnpublish /\ unseen = {}

-----------------------------------------------------------------------------
(* What happens to the trip meanwhile.                                     *)

\* A photo becomes ready and visible in the story, or stops being so.
SetListed(p) ==
  /\ listed' = IF p \in listed THEN listed \ {p} ELSE listed \cup {p}
  /\ UNCHANGED <<story, slug, visible, request, rows, work, crashes, store, reading,
                 unpublishing>>

\* A reconstruction or an edit leaves another story.
EditStory(s) ==
  /\ story # s
  /\ story' = s
  /\ UNCHANGED <<listed, slug, visible, request, rows, work, crashes, store, reading,
                 unpublishing>>

-----------------------------------------------------------------------------
(* Publication requests.                                                   *)

Publishable == \E p \in listed : story.stopOf[p] # None

\* create_publication loads the trip and validates it ...
LoadCreate(c) ==
  /\ request[c] = NoRequest
  /\ Publishable
  /\ \E v \in Versions : state[v] = "absent"
  /\ request' = [request EXCEPT ![c] = [pc |-> "loaded", slug |-> slug, number |-> 0]]
  /\ UNCHANGED <<trip, rows, work, crashes, store, reading, unpublishing>>

(* A mutant of NextNumber.                                                 *)

NextNumberFromTwo == Cardinality({v \in Versions : state[v] # "absent"}) + 2

\* The flush of a fresh slug locks the trip row until the commit.
TakesTripRow(c) ==
  request[c].slug = 0 =>
    \A d \in Clients : ~(request[d].slug = 0 /\ request[d].pc = "numbered")

\* One more than the highest number of a committed version.
NextNumber == Cardinality({v \in Versions : state[v] # "absent"}) + 1

NumberVersion(c) ==
  /\ request[c].pc = "loaded"
  /\ TakesTripRow(c)
  /\ NextNumber \in Versions
  /\ request' = [request EXCEPT ![c].pc = "numbered", ![c].number = NextNumber]
  /\ UNCHANGED <<trip, rows, work, crashes, store, reading, unpublishing>>

\* ensure_public_story_slug makes a slug if the trip had none when it was loaded: it
\* is the one its creator is told, and the one of the trip unless it had one.
OwnSlug(c) == IF request[c].slug = 0 THEN request[c].number ELSE request[c].slug

CommitCreate(c) ==
  LET v == request[c].number IN
  /\ request[c].pc = "numbered"
  /\ state[v] = "absent"
  /\ slug' = Written(OwnSlug(c), request[c].slug, slug)
  /\ state' = [state EXCEPT ![v] = "pending"]
  /\ url' = [url EXCEPT ![v] = OwnSlug(c)]
  /\ link' = [link EXCEPT ![v] = "active"]
  /\ job' = [job EXCEPT ![v] = NewRow]
  /\ request' = [request EXCEPT ![c] = NoRequest]
  /\ unseen' = IF unpublish = NoUnpublish THEN unseen ELSE unseen \cup {v}
  /\ UNCHANGED <<listed, story, visible, manifest, work, crashes, store, reading, unpublish>>

\* The number is taken (unique constraint), or there is no version left (bound).
AbortCreate(c) ==
  /\ \/ request[c].pc = "numbered" /\ state[request[c].number] # "absent"
     \/ request[c].pc = "loaded" /\ NextNumber \notin Versions
  /\ request' = [request EXCEPT ![c] = NoRequest]
  /\ UNCHANGED <<trip, rows, work, crashes, store, reading, unpublishing>>

-----------------------------------------------------------------------------
(* Revocation.                                                             *)

RevokeLink(v) ==
  /\ link[v] = "active"
  /\ link' = [link EXCEPT ![v] = "revoked"]
  /\ UNCHANGED <<trip, request, state, manifest, url, job, work, crashes, store, reading,
                 unpublishing>>

Active == {v \in Versions : link[v] = "active"}

\* unpublish_trip selects the active links, whatever the visibility of the trip ...
UnpublishScan ==
  /\ unpublish = NoUnpublish
  /\ unpublish' = [NoUnpublish EXCEPT !.pc = "scanned", !.links = Active]
  /\ UNCHANGED <<trip, request, rows, work, crashes, store, reading, unseen>>

\* ... loads the trip ...
UnpublishLoad ==
  /\ unpublish.pc = "scanned"
  /\ unpublish' = [unpublish EXCEPT !.pc = "loaded", !.visible = visible]
  /\ UNCHANGED <<trip, request, rows, work, crashes, store, reading, unseen>>

(* A mutant of UnpublishCommit.                                            *)

UnpublishTripOnly ==
  /\ unpublish.pc = "loaded"
  /\ visible' = Written(FALSE, unpublish.visible, visible)
  /\ unpublish' = NoUnpublish
  /\ UNCHANGED <<listed, story, slug, request, rows, work, crashes, store, reading, unseen>>

\* ... and writes both in one commit.
UnpublishCommit ==
  /\ unpublish.pc = "loaded"
  /\ link' = [v \in Versions |-> IF v \in unpublish.links THEN "revoked" ELSE link[v]]
  /\ visible' = Written(FALSE, unpublish.visible, visible)
  /\ unpublish' = NoUnpublish
  /\ UNCHANGED <<listed, story, slug, request, state, manifest, url, job, work, crashes,
                 store, reading, unseen>>

-----------------------------------------------------------------------------
(* The manifest of the photos P: the stops that show them in the story s,  *)
(* and the areas of those stops in the story t, which is read later.       *)

(* A mutant of Shown.                                                      *)

ShownWhateverSelected(P, s) == [t \in Stops |-> {p \in listed : s.stopOf[p] = t}]

Shown(P, s) == [t \in Stops |-> {p \in P : s.stopOf[p] = t}]

AreaStops(shown, s) ==
  [a \in Areas |-> {t \in Stops : shown[t] # {} /\ s.areaOf[t] = a}]

Outline(P, s) == [NoManifest EXCEPT !.assets = P, !.shown = Shown(P, s)]

WithAreas(m, s) == [m EXCEPT !.areas = AreaStops(m.shown, s)]

Keys(m) == {KeyOf[p] : p \in m.assets}

PageStops(m) == {t \in Stops : m.shown[t] # {}}

-----------------------------------------------------------------------------
(* publish_story_version, in a worker.                                     *)

Goto(w, step) == work' = [work EXCEPT ![w].pc = step]

\* What the worker has read is of no more use.
Finish(w, step) ==
  work' = [work EXCEPT ![w] = [Idle EXCEPT !.pc = step, !.version = work[w].version,
                                           !.attempt = work[w].attempt]]

Claim(w, v) ==
  /\ work[w] = Idle
  /\ Eligible(job[v], MaxAttempts)
  /\ job' = [job EXCEPT ![v] = ClaimedRow(@)]
  /\ work' = [work EXCEPT ![w] = [Idle EXCEPT !.pc = "loading", !.version = v,
                                              !.attempt = job[v].attempts + 1]]
  /\ UNCHANGED <<trip, request, state, manifest, url, link, crashes, store, reading,
                 unpublishing>>

(* A mutant of LoadVersion.                                                *)

LoadVersionUnasked(w) ==
  /\ work[w].pc = "loading"
  /\ work' = [work EXCEPT ![w].seen = state[work[w].version], ![w].visible = visible,
                          ![w].pc = "starting"]
  /\ UNCHANGED <<trip, request, rows, crashes, store, reading, unpublishing>>

\* A version that is already published is left alone; with another, the trip is loaded.
LoadVersion(w) ==
  LET now == state[work[w].version] IN
  /\ work[w].pc = "loading"
  /\ IF now = "published"
       THEN Goto(w, "returned")
       ELSE work' = [work EXCEPT ![w].seen = now, ![w].visible = visible, ![w].pc = "starting"]
  /\ UNCHANGED <<trip, request, rows, crashes, store, reading, unpublishing>>

StartPublishing(w) ==
  /\ work[w].pc = "starting"
  /\ state' = [state EXCEPT ![work[w].version] = Written("publishing", work[w].seen, @)]
  /\ work' = [work EXCEPT ![w].pc = "selecting", ![w].seen = "absent"]
  /\ UNCHANGED <<trip, request, manifest, url, link, job, crashes, store, reading,
                 unpublishing>>

SelectPhotos(w) ==
  /\ work[w].pc = "selecting"
  /\ work' = [work EXCEPT ![w].photos = listed,
                          ![w].pc = IF listed = {} THEN "marking" ELSE "outlining"]
  /\ UNCHANGED <<trip, request, rows, crashes, store, reading, unpublishing>>

\* build_manifest reads the stops with the photos of their moments ...
OutlineManifest(w) ==
  /\ work[w].pc = "outlining"
  /\ work' = [work EXCEPT ![w].manifest = Outline(work[w].photos, story), ![w].photos = {},
                          ![w].pc = "assembling"]
  /\ UNCHANGED <<trip, request, rows, crashes, store, reading, unpublishing>>

\* ... and then the areas of the stops it shows.
AssembleManifest(w) ==
  /\ work[w].pc = "assembling"
  /\ IF PageStops(work[w].manifest) = {}
       THEN Finish(w, "marking")
       ELSE work' = [work EXCEPT ![w].manifest = WithAreas(@, story), ![w].pc = "copying"]
  /\ UNCHANGED <<trip, request, rows, crashes, store, reading, unpublishing>>

\* Keys the manifests of the other published versions name are not copied again.
KnownKeys(v) ==
  UNION {Keys(stored[u]) : u \in {u \in Versions \ {v} :
                                    state[u] = "published" /\ stored[u] # NoManifest}}

(* A mutant of ToCopy.                                                     *)

ToCopyUnlessRequested(v, m) ==
  Keys(m) \ UNION {Keys(Outline(listed, story)) :
                     u \in {u \in Versions \ {v} : state[u] # "absent"}}

ToCopy(v, m) == Keys(m) \ KnownKeys(v)

\* The copies are made one by one: an error leaves some of them.
CopyAssets(w) ==
  LET needed == ToCopy(work[w].version, work[w].manifest) IN
  /\ work[w].pc = "copying"
  /\ \E done \in SUBSET needed :
       /\ public' = public \cup done
       /\ IF done = needed THEN Goto(w, "storing") ELSE Finish(w, "marking")
  /\ UNCHANGED <<trip, request, rows, crashes, stored, reading, unpublishing>>

StoreManifest(w) ==
  /\ work[w].pc = "storing"
  /\ stored' = [stored EXCEPT ![work[w].version] = work[w].manifest]
  /\ Goto(w, "committing")
  /\ UNCHANGED <<trip, request, rows, crashes, public, reading, unpublishing>>

\* Of a trip that was published when it was loaded the visibility is not written, even
\* if an unpublish request has made it private since.
CommitPublished(w) ==
  /\ work[w].pc = "committing"
  /\ state' = [state EXCEPT ![work[w].version] = "published"]
  /\ manifest' = [manifest EXCEPT ![work[w].version] = work[w].manifest]
  /\ visible' = Written(TRUE, work[w].visible, visible)
  /\ Finish(w, "returned")
  /\ UNCHANGED <<listed, story, slug, request, url, link, job, crashes, store, reading,
                 unpublishing>>

\* Either report loads the row of the job and commits it changed.
LoadRow(w, before, after) ==
  /\ work[w].pc = before
  /\ work' = [work EXCEPT ![w].row = job[work[w].version], ![w].pc = after]
  /\ UNCHANGED <<trip, request, rows, crashes, store, reading, unpublishing>>

CompleteLoad(w) == LoadRow(w, "returned", "completing")

CompleteCommit(w) ==
  /\ work[w].pc = "completing"
  /\ job' = [job EXCEPT ![work[w].version] = CompletedRow(@, work[w].row, FALSE)]
  /\ work' = [work EXCEPT ![w] = Idle]
  /\ UNCHANGED <<trip, request, state, manifest, url, link, crashes, store, reading,
                 unpublishing>>

\* Any step may raise; what the try block covers is recorded in the version, unless
\* that raises too.  A thread that dies of an error in fail_job is a Crash.
Fault(w) ==
  /\ work[w].pc \notin {"idle", "raised", "failing"}
  /\ Finish(w, IF work[w].pc \in InTry THEN "marking" ELSE "raised")
  /\ UNCHANGED <<trip, request, rows, crashes, store, reading, unpublishing>>

MarkFailed(w) ==
  /\ work[w].pc = "marking"
  /\ state' = [state EXCEPT ![work[w].version] = "failed"]
  /\ Finish(w, "raised")
  /\ UNCHANGED <<trip, request, manifest, url, link, job, crashes, store, reading,
                 unpublishing>>

FailLoad(w) == LoadRow(w, "raised", "failing")

FailCommit(w) ==
  /\ work[w].pc = "failing"
  /\ job' = [job EXCEPT ![work[w].version] =
               FailedRow(@, work[w].row, IsFinalFailure(work[w].attempt, MaxAttempts, TRUE))]
  /\ work' = [work EXCEPT ![w] = Idle]
  /\ UNCHANGED <<trip, request, state, manifest, url, link, crashes, store, reading,
                 unpublishing>>

Crash(w) ==
  /\ work[w] # Idle
  /\ crashes < MaxCrashes
  /\ crashes' = crashes + 1
  /\ work' = [work EXCEPT ![w] = Idle]
  /\ UNCHANGED <<trip, request, rows, store, reading, unpublishing>>

LockExpires(v) ==
  /\ job[v].state = "running" /\ job[v].lock = "held"
  /\ v \in TakenOver \/ \A w \in Workers : work[w].version # v
  /\ job' = [job EXCEPT ![v].lock = "expired"]
  /\ UNCHANGED <<trip, request, state, manifest, url, link, work, crashes, store, reading,
                 unpublishing>>

BecomeDue(v) ==
  /\ job[v].state = "pending" /\ ~job[v].due
  /\ job' = [job EXCEPT ![v].due = TRUE]
  /\ UNCHANGED <<trip, request, state, manifest, url, link, work, crashes, store, reading,
                 unpublishing>>

-----------------------------------------------------------------------------
(* Readers.                                                                *)

Readable(v) == state[v] = "published" /\ link[v] = "active"

(* A mutant of Newest.                                                     *)

NewestReadable == {v \in Versions : Readable(v) /\ \A u \in Versions : Readable(u) => u <= v}

Newest == {v \in Versions : state[v] = "published"
                            /\ \A u \in Versions : state[u] = "published" => u <= v}

\* What the addresses /public/stories/{s} and /public/stories/{s}/versions/{v}
\* of a slug s answer: a set of at most one version.
StableAddress(s) == {v \in Newest : s = slug /\ slug # 0 /\ link[v] = "active"}
VersionAddress(s, v) == {u \in {v} : s = slug /\ slug # 0 /\ Readable(v)}

\* By the stable address, the address of a version, or the token of its link.
ReadVersion(v) ==
  /\ reading = NoRead
  /\ Readable(v)
  /\ reading' = [version |-> v, manifest |-> manifest[v]]
  /\ UNCHANGED <<trip, request, rows, work, crashes, store, unpublishing>>

\* cached_public_manifest loads the manifest of the row and keeps it under the row's
\* checksum: what a later reader finds there is what this one got.
ReadManifest ==
  /\ reading # NoRead
  /\ reading' = NoRead
  /\ UNCHANGED <<trip, request, rows, work, crashes, store, unpublishing>>

-----------------------------------------------------------------------------
PublishStep(w) ==
  \/ LoadVersion(w) \/ StartPublishing(w) \/ SelectPhotos(w) \/ OutlineManifest(w)
  \/ AssembleManifest(w) \/ CopyAssets(w) \/ StoreManifest(w) \/ CommitPublished(w)
  \/ CompleteLoad(w) \/ CompleteCommit(w) \/ MarkFailed(w) \/ FailLoad(w) \/ FailCommit(w)

Next ==
  \/ \E p \in Changing : SetListed(p)
  \/ \E s \in Stories : EditStory(s)
  \/ \E c \in Clients : LoadCreate(c) \/ NumberVersion(c) \/ CommitCreate(c) \/ AbortCreate(c)
  \/ \E v \in Versions : RevokeLink(v) \/ LockExpires(v) \/ BecomeDue(v) \/ ReadVersion(v)
  \/ UnpublishScan \/ UnpublishLoad \/ UnpublishCommit
  \/ \E w \in Workers : PublishStep(w) \/ Fault(w) \/ Crash(w)
  \/ \E w \in Workers, v \in Versions : Claim(w, v)
  \/ ReadManifest

Spec == Init /\ [][Next]_vars

-----------------------------------------------------------------------------
(* Properties.                                                             *)

Manifests == [assets : SUBSET Photos, shown : [Stops -> SUBSET Photos],
              areas : [Areas -> SUBSET Stops]]

\* Every row, session and object has its type; versions are numbered without gaps.
TypeOK ==
  /\ listed \subseteq Photos /\ story \in Stories \cup {NoStory}
  /\ slug \in 0 .. MaxVersions /\ visible \in BOOLEAN
  /\ request \in [Clients -> [pc : {"idle", "loaded", "numbered"},
                              slug : 0 .. MaxVersions, number : 0 .. MaxVersions]]
  /\ state \in [Versions -> VersionStates]
  /\ manifest \in [Versions -> Manifests]
  /\ url \in [Versions -> 0 .. MaxVersions]
  /\ link \in [Versions -> LinkStates]
  /\ job \in [Versions -> JobRows]
  /\ work \in [Workers -> [pc : WorkerPCs, version : 0 .. MaxVersions, attempt : Nat,
                           seen : VersionStates, visible : BOOLEAN,
                           photos : SUBSET Photos, manifest : Manifests, row : JobRows]]
  /\ crashes \in 0 .. MaxCrashes
  /\ public \subseteq {KeyOf[p] : p \in Photos}
  /\ stored \in [Versions -> Manifests]
  /\ reading \in [version : 0 .. MaxVersions, manifest : Manifests]
  /\ unpublish \in [pc : {"idle", "scanned", "loaded"}, links : SUBSET Versions,
                    visible : BOOLEAN]
  /\ unseen \subseteq Versions
  /\ \A u, v \in Versions : u < v /\ state[v] # "absent" => state[u] # "absent"

\* The manifest a published version names is in the store with every derivative
\* it lists, and its page shows only photos it lists, although what is shown is
\* read after what is listed: whatever fails, is killed or runs twice on the way
\* (docs/publication.md, "Asset Publication": copies are skipped for what earlier
\* manifests list).
PublishedIsWhole ==
  \A v \in Versions : state[v] = "published" =>
    /\ stored[v] # NoManifest
    /\ Keys(stored[v]) \subseteq public
    /\ \A t \in PageStops(stored[v]) : stored[v].shown[t] \subseteq stored[v].assets

\* docs/publication.md: "Existing published versions are immutable."  Neither the
\* row nor the stored manifest of a published version changes, unless its job
\* outlived its lock: then a second worker starts over what the first has published.
PublishedIsFinal ==
  [][\A v \in Versions \ TakenOver : state[v] = "published" =>
       /\ state'[v] = "published"
       /\ manifest'[v] = manifest[v] /\ stored'[v] = stored[v]]_vars

\* The API process caches manifests by the checksum of the row: between the load of
\* the row and the load of the object, the object is the one with that checksum.
ReadersGetTheirManifest ==
  reading # NoRead /\ reading.version \notin TakenOver =>
    stored[reading.version] = reading.manifest

\* "A published trip receives one stable public slug" and "Every version also has an
\* immutable URL": the address given to the creator of a version leads to it as
\* long as its link is active, and the stable address to it while it is the newest.
\* Two first requests that cross make two slugs, and the trip keeps one.
AddressesWork ==
  \A v \in Versions : Readable(v) =>
    /\ VersionAddress(url[v], v) = {v}
    /\ v \in Newest => StableAddress(url[v]) = {v}

\* "Revoking the newest published version makes the stable URL unavailable rather
\* than silently falling back": a version appears under the stable address only
\* by being published, unless the newest is one whose job outlived its lock.
StableAddressMovesOnPublish ==
  [][\A v \in StableAddress(slug)' \ StableAddress(slug) :
       state[v] # "published" \/ Newest \cap TakenOver # {}]_vars

\* "Unpublish revokes all active links for the trip and returns the trip visibility
\* to private": a private trip has no readable story, save one requested while an
\* unpublish request was between its statements.  Such a version keeps its link, and
\* a worker that loaded the trip as published leaves it private when it publishes it.
PrivateTripIsUnread ==
  \A v \in Versions : Readable(v) /\ ~visible => v \in unseen
=============================================================================
