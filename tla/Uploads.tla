-------------------------------- MODULE Uploads --------------------------------
(* Upload sessions of one trip: registering files against the photo quota,   *)
(* sending their bytes to the blob store with a grant, completing and        *)
(* cancelling them.  A request is a transaction at READ COMMITTED: it loads  *)
(* its rows first, talks to the blob store in the middle and commits last,   *)
(* and what other requests commit in between it does not see.                *)
EXTENDS BlobStores, FiniteSets

CONSTANTS
  Files, Sessions, SessionOf,   \* the files a client registers, by session
  Handlers,                     \* threads of the API that serve requests
  Store,                        \* one of Stores
  MaxFiles,                     \* max_files_per_trip of the owner's tier
  MaxBytes,                     \* upload_max_trip_bytes
  Sends,                        \* the contents the client may send as a file
  Repeats                       \* files whose client repeats or overlaps its requests

VARIABLES
  file,       \* upload_files: state, and whether media_item_id is set
  session,    \* upload_sessions.state
  photo,      \* media_items made of a file: how many, and what became of them
  blob,       \* the object of each file
  unlabelled, \* contents put in place whose sidecar is not yet written
  req        \* what each handler is doing

vars == <<file, session, photo, blob, unlabelled, req>>

FileStates == {"absent", "registered", "completed", "cancelled", "failed"}
SessionStates == {"absent", "registered", "transferring", "completed"}
Idle == [at |-> "idle", on |-> Nothing, sum |-> Nothing, closes |-> FALSE]
FilesOf(s) == {f \in Files : SessionOf[f] = s}

TypeOK ==
  /\ file \in [Files -> [state : FileStates, linked : BOOLEAN]]
  /\ session \in [Sessions -> SessionStates]
  /\ photo \in [Files -> [rows : 0..2, deleted : BOOLEAN, ingested : BOOLEAN,
                          sum : Contents \cup {Nothing}]]
  /\ blob \in [Files -> Blobs]
  /\ unlabelled \in [Files -> SUBSET Contents]
  /\ \A h \in Handlers : req[h].at \in {"idle", "registering", "loaded", "stated", "failing",
                                        "inserted", "counted", "cancelling", "deleted"}

Init ==
  /\ file = [f \in Files |-> [state |-> "absent", linked |-> FALSE]]
  /\ session = [s \in Sessions |-> "absent"]
  /\ photo = [f \in Files |->
       [rows |-> 0, deleted |-> FALSE, ingested |-> FALSE, sum |-> Nothing]]
  /\ blob = [f \in Files |-> NoBlob]
  /\ unlabelled = [f \in Files |-> {}]
  /\ req = [h \in Handlers |-> Idle]

At(h, places) == req[h].at \in places
Go(h, place) == req' = [req EXCEPT ![h].at = place]
Done(h) == req' = [req EXCEPT ![h] = Idle]

\* A client waits for the answer about a file before it asks for more, except
\* about the files it repeats.
MayAsk(f) ==
  \/ f \in Repeats
  \/ unlabelled[f] = {} /\ \A h \in Handlers : req[h].on # f
Begin(h, f, place) ==
  /\ At(h, {"idle"}) /\ MayAsk(f)
  /\ req' = [req EXCEPT ![h] = [Idle EXCEPT !.at = place, !.on = f]]

(***************************************************************************)
(* Registration.  The trip row is locked FOR UPDATE while photos are       *)
(* counted and files inserted; the insert of a media item needs a share of *)
(* that lock for its foreign key, so each waits for the other.             *)
(***************************************************************************)
TripLocked(h) == \E g \in Handlers \ {h} : At(g, {"registering"})
TripShared(h) == \E g \in Handlers \ {h} : At(g, {"inserted", "counted"})

Photos == {f \in Files : photo[f].rows > 0 /\ ~photo[f].deleted}
Pending == {f \in Files : ~file[f].linked /\ file[f].state \notin {"absent", "cancelled", "failed"}}
ReservedWhenCompleted == Cardinality(Photos)
ReservedSlots == Cardinality(Photos) + Cardinality(Pending)

BytesUsed == DeclaredSize * Cardinality(Photos)

\* create_upload_session up to its quota checks: files and bytes are compared
\* with what the trip has; a refusal (400, 409) changes nothing.  The monthly
\* limit of bytes, of a tier and not of a trip, is left out.
CountPhotos(h, s) ==
  /\ At(h, {"idle"}) /\ session[s] = "absent"
  /\ \A g \in Handlers : req[g].on # s
  /\ ~TripLocked(h) /\ ~TripShared(h)
  /\ ReservedSlots + Cardinality(FilesOf(s)) <= MaxFiles
  /\ BytesUsed + DeclaredSize * Cardinality(FilesOf(s)) <= MaxBytes
  /\ req' = [req EXCEPT ![h] = [Idle EXCEPT !.at = "registering", !.on = s]]
  /\ UNCHANGED <<file, session, photo, blob, unlabelled>>

Register(h) ==
  /\ At(h, {"registering"})
  /\ LET s == req[h].on IN
     /\ session' = [session EXCEPT ![s] = "registered"]
     /\ file' = [f \in Files |->
          IF f \in FilesOf(s) THEN [state |-> "registered", linked |-> FALSE] ELSE file[f]]
  /\ Done(h)
  /\ UNCHANGED <<photo, blob, unlabelled>>

(***************************************************************************)
(* Sending the bytes.  A grant is a signed token or a pre-authenticated    *)
(* request that the answers about a registered file carry; until it        *)
(* expires nothing asks for the state of the file it was made for.         *)
(***************************************************************************)
Put(f, c) ==
  /\ file[f].state # "absent" /\ c \in Sends[f] /\ Takes(Store, c)
  /\ MayAsk(f)
  /\ f \notin Repeats => file[f].state = "registered" /\ blob[f].object \in {Nothing, c}
  /\ blob' = [blob EXCEPT ![f] = Replaced(Store, @, c)]
  /\ unlabelled' = [unlabelled EXCEPT ![f] = IF LabelsLater(Store) THEN @ \cup {c} ELSE @]
  /\ UNCHANGED <<file, session, photo, req>>

Label(f, c) ==
  /\ c \in unlabelled[f]
  /\ blob' = [blob EXCEPT ![f] = Labelled(@, c)]
  /\ unlabelled' = [unlabelled EXCEPT ![f] = @ \ {c}]
  /\ UNCHANGED <<file, session, photo, req>>

\* The API process ends between the two steps.
PutDies(f, c) ==
  /\ c \in unlabelled[f]
  /\ unlabelled' = [unlabelled EXCEPT ![f] = @ \ {c}]
  /\ UNCHANGED <<file, session, photo, blob, req>>

(***************************************************************************)
(* Completing.                                                             *)
(***************************************************************************)
\* A completed file is answered as it is, a closed one with 409.
LoadComplete(h, f) ==
  /\ file[f].state = "registered"
  /\ Begin(h, f, "loaded")
  /\ UNCHANGED <<file, session, photo, blob, unlabelled>>

VerifiedAnySize(b) == Exists(b)
Verified(b) == Exists(b) /\ Stat(b).size = DeclaredSize

StatObject(h) ==
  /\ At(h, {"loaded"})
  /\ LET b == blob[req[h].on] IN
     req' = [req EXCEPT ![h].at = IF Verified(b) THEN "stated" ELSE "failing",
                        ![h].sum = Stat(b).sum]
  /\ UNCHANGED <<file, session, photo, blob, unlabelled>>

\* A request that has flushed holds the lock of the file's row.
RowLocked(h) == \E g \in Handlers \ {h} : At(g, {"inserted", "counted"}) /\ req[g].on = req[h].on

CommitFailed(h) ==
  /\ At(h, {"failing"}) /\ ~RowLocked(h)
  /\ file' = [file EXCEPT ![req[h].on].state = "failed"]
  /\ Done(h)
  /\ UNCHANGED <<session, photo, blob, unlabelled>>

\* original_store_alias and original_object_key are unique together.
ConflictsNever(f) == FALSE
Conflicts(f) == photo[f].rows > 0

\* The flush of the new media item: it waits for a registration in progress,
\* and for another request that has inserted the same key; if that one
\* commits, this one is rolled back with a 500.
Insert(h) ==
  /\ At(h, {"stated"}) /\ ~TripLocked(h) /\ ~RowLocked(h)
  /\ IF Conflicts(req[h].on) THEN Done(h) ELSE Go(h, "inserted")
  /\ UNCHANGED <<file, session, photo, blob, unlabelled>>

RemainingOpen(f) ==
  {g \in FilesOf(SessionOf[f]) \ {f} : file[g].state \in {"absent", "registered"}}
Remaining(f) == {g \in FilesOf(SessionOf[f]) \ {f} : file[g].state # "completed"}

CountRemaining(h) ==
  /\ At(h, {"inserted"})
  /\ req' = [req EXCEPT ![h].at = "counted", ![h].closes = Remaining(req[h].on) = {}]
  /\ UNCHANGED <<file, session, photo, blob, unlabelled>>

CommitComplete(h) ==
  /\ At(h, {"counted"})
  /\ LET f == req[h].on IN
     /\ file' = [file EXCEPT ![f] = [state |-> "completed", linked |-> TRUE]]
     /\ photo' = [photo EXCEPT ![f].rows = @ + 1, ![f].sum = req[h].sum]
     /\ session' = [session EXCEPT ![SessionOf[f]] =
          IF req[h].closes THEN "completed" ELSE "transferring"]
  /\ Done(h)
  /\ UNCHANGED <<blob, unlabelled>>

(***************************************************************************)
(* Cancelling: anything but a completed file, a failed one included.       *)
(***************************************************************************)
CancellableAny(f) == file[f].state # "absent"
Cancellable(f) == file[f].state \notin {"absent", "completed"}

LoadCancel(h, f) ==
  /\ Cancellable(f)
  /\ Begin(h, f, "cancelling")
  /\ UNCHANGED <<file, session, photo, blob, unlabelled>>

\* The object goes before the row is written.
DeleteObject(h) ==
  /\ At(h, {"cancelling"})
  /\ blob' = [blob EXCEPT ![req[h].on] = NoBlob]
  /\ Go(h, "deleted")
  /\ UNCHANGED <<file, session, photo, unlabelled>>

CommitCancel(h) ==
  /\ At(h, {"deleted"}) /\ ~RowLocked(h)
  /\ file' = [file EXCEPT ![req[h].on].state = "cancelled"]
  /\ Done(h)
  /\ UNCHANGED <<session, photo, blob, unlabelled>>

(***************************************************************************)
(* What happens to a photo later: its ingest consumes the original, and    *)
(* the contributor may delete it, which frees its slot.                    *)
(***************************************************************************)
Ingested(f) ==
  /\ f \in Photos /\ ~photo[f].ingested /\ Exists(blob[f])
  /\ photo' = [photo EXCEPT ![f].ingested = TRUE]
  /\ blob' = [blob EXCEPT ![f] = NoBlob]
  /\ UNCHANGED <<file, session, unlabelled, req>>

DeletePhoto(f) ==
  /\ f \in Photos
  /\ photo' = [photo EXCEPT ![f].deleted = TRUE]
  /\ UNCHANGED <<file, session, blob, unlabelled, req>>

Next ==
  \/ \E h \in Handlers :
       \/ \E s \in Sessions : CountPhotos(h, s)
       \/ \E f \in Files : LoadComplete(h, f) \/ LoadCancel(h, f)
       \/ Register(h) \/ StatObject(h) \/ CommitFailed(h) \/ Insert(h) \/ CountRemaining(h)
       \/ CommitComplete(h) \/ DeleteObject(h) \/ CommitCancel(h)
  \/ \E f \in Files :
       \/ Ingested(f) \/ DeletePhoto(f)
       \/ \E c \in Contents : Put(f, c) \/ Label(f, c) \/ PutDies(f, c)

Spec == Init /\ [][Next]_vars

(***************************************************************************)
(* Properties.                                                             *)
(***************************************************************************)
\* However often a client repeats the completion of a file, the trip gets one
\* media item of it.
OnePhotoPerFile == \A f \in Files : photo[f].rows <= 1

\* Photos and pending uploads together stay within the quota: a slot is taken
\* when a file is registered and freed only when it is cancelled, fails or its
\* photo is deleted.  Requests about one file come one after the other.
PhotoLimit == Repeats = {} => Cardinality(Photos) + Cardinality(Pending) <= MaxFiles

\* A session that is completed has a photo for every file of it.
CompletedSessionIsTrue ==
  \A s \in Sessions : session[s] = "completed" =>
    \A f \in FilesOf(s) \ Repeats : file[f].state = "completed" /\ file[f].linked

\* A photo whose ingest is still to come has an original of the declared size.
WaitingPhotosHaveTheirOriginal ==
  \A f \in Photos \ Repeats :
    ~photo[f].ingested => Exists(blob[f]) /\ Stat(blob[f]).size = DeclaredSize
===============================================================================
