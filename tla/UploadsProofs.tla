----------------------------- MODULE UploadsProofs -----------------------------
(***************************************************************************)
(* Theorems about the upload sessions of a trip: its quota, its files and  *)
(* the originals of its photos, for any number of files, sessions and      *)
(* requests.                                                               *)
(***************************************************************************)
EXTENDS Uploads, FiniteSetTheorems, TLAPS

\* A client registers finitely many files, each in a session, with one of the stores.
Setting ==
  SessionOf \in [Files -> Sessions] /\ Store \in Stores /\ IsFiniteSet(Files) /\ MaxFiles \in Nat

\* The steps of a request about a file, and those at which it has inserted the
\* media item and holds its key.
FilePlaces == {"loaded", "stated", "failing", "inserted", "counted", "cancelling", "deleted"}
Inserted == {"inserted", "counted"}

Requests ==
  [at : FilePlaces \cup {"idle", "registering"}, on : Files \cup Sessions \cup {Nothing},
   sum : Contents \cup {Nothing}, closes : BOOLEAN]

PhotoRows ==
  [rows : 0..2, deleted : BOOLEAN, ingested : BOOLEAN, sum : Contents \cup {Nothing}]

\* The handler h is at one of places with a request about f.
About(h, places, f) == At(h, places) /\ req[h].on = f

RequestsTyped ==
  /\ req \in [Handlers -> Requests]
  /\ \A h \in Handlers : At(h, FilePlaces) => req[h].on \in Files /\ file[req[h].on].state # "absent"
  /\ \A h \in Handlers : At(h, {"registering"}) => req[h].on \in Sessions /\ session[req[h].on] = "absent"

\* While files are registered no other request counts the photos of the trip or
\* adds one.
TripIsLocked ==
  \A g, h \in Handlers : At(g, {"registering"}) /\ At(h, {"registering"} \cup Inserted) => g = h

\* The key of the original is inserted by one request at a time, and never after
\* another has committed it.
KeysAreUnique ==
  /\ OnePhotoPerFile
  /\ \A h \in Handlers, f \in Files : About(h, Inserted, f) => photo[f].rows = 0
  /\ \A g, h \in Handlers, f \in Files : About(g, Inserted, f) /\ About(h, Inserted, f) => g = h

HasOriginal(f) == Exists(blob[f]) /\ Stat(blob[f]).size = DeclaredSize

\* What is known of a file whose client waits for its answers.
FileIsTrue(f) ==
  /\ file[f].linked <=> file[f].state = "completed"
  /\ file[f].state = "completed" <=> photo[f].rows > 0
  /\ \A g, h \in Handlers : About(g, FilePlaces, f) /\ About(h, FilePlaces, f) => g = h
  /\ \A h \in Handlers :
       /\ About(h, FilePlaces \ {"cancelling", "deleted"}, f) => file[f].state = "registered"
       /\ About(h, {"cancelling", "deleted"}, f) => file[f].state \notin {"absent", "completed"}
       /\ About(h, {"stated", "inserted", "counted"}, f) => HasOriginal(f)
  /\ f \in Photos /\ ~photo[f].ingested => HasOriginal(f)

SessionsAreTrue ==
  /\ \A f \in Files : file[f].state # "absent" => session[SessionOf[f]] # "absent"
  /\ \A f \in Files \ Repeats : session[SessionOf[f]] = "completed" => file[f].state = "completed"
  /\ \A h \in Handlers, f \in Files : About(h, {"counted"}, f) /\ req[h].closes =>
       \A g \in FilesOf(SessionOf[f]) \ ({f} \cup Repeats) : file[g].state = "completed"

UploadsInv ==
  /\ RequestsTyped /\ TripIsLocked /\ KeysAreUnique /\ SessionsAreTrue
  /\ \A f \in Files \ Repeats : FileIsTrue(f)

Inv == TypeOK /\ UploadsInv

\* What a handler that goes to another place leaves of the others.
LEMMA Goes ==
  ASSUME RequestsTyped, NEW h \in Handlers, NEW place, Go(h, place)
  PROVE  /\ req'[h] = [req[h] EXCEPT !.at = place] /\ req'[h].at = place /\ req'[h].on = req[h].on
         /\ req'[h].closes = req[h].closes /\ req'[h].sum = req[h].sum
         /\ \A g \in Handlers \ {h} : req'[g] = req[g]
BY DEF Go, RequestsTyped, Requests

\* A handler that answers is idle, and the others stay as they are.
LEMMA IsDone ==
  ASSUME RequestsTyped, NEW h \in Handlers, Done(h)
  PROVE  req'[h] = Idle /\ \A g \in Handlers \ {h} : req'[g] = req[g]
BY DEF Done, RequestsTyped

\* The invariant where nothing but one request moves: h is at another place about
\* the same file, or done, or begins.
LEMMA RequestMoves ==
  ASSUME Setting, Inv, NEW h \in Handlers, UNCHANGED <<file, session, photo, blob, unlabelled>>,
         req' \in [Handlers -> Requests], \A g \in Handlers \ {h} : req'[g] = req[g],
         At(h, FilePlaces)' => req'[h].on \in Files /\ file[req'[h].on].state # "absent",
         At(h, {"registering"})' => req'[h].on \in Sessions /\ session[req'[h].on] = "absent",
         At(h, {"registering"})' => \A g \in Handlers \ {h} : ~At(g, {"registering"} \cup Inserted),
         At(h, Inserted)' => \A g \in Handlers \ {h} : ~At(g, {"registering"}),
         \A f \in Files : About(h, Inserted, f)' =>
           photo[f].rows = 0 /\ \A g \in Handlers \ {h} : ~About(g, Inserted, f),
         \A f \in Files \ Repeats :
           /\ About(h, FilePlaces, f)' => \A g \in Handlers \ {h} : ~About(g, FilePlaces, f)
           /\ About(h, FilePlaces \ {"cancelling", "deleted"}, f)' => file[f].state = "registered"
           /\ About(h, {"cancelling", "deleted"}, f)' => file[f].state \notin {"absent", "completed"}
           /\ About(h, {"stated", "inserted", "counted"}, f)' => HasOriginal(f),
         \A f \in Files : About(h, {"counted"}, f)' /\ req'[h].closes =>
           \A g \in FilesOf(SessionOf[f]) \ ({f} \cup Repeats) : file[g].state = "completed"
  PROVE  Inv'
<1>1. RequestsTyped'
  BY DEF Inv, UploadsInv, RequestsTyped, At
<1>2. KeysAreUnique'
  BY DEF Inv, UploadsInv, KeysAreUnique, OnePhotoPerFile, About, At
<1>6. TripIsLocked'
  BY DEF Inv, UploadsInv, TripIsLocked, At, Inserted
<1>3. SessionsAreTrue'
  BY DEF Inv, UploadsInv, SessionsAreTrue, About, At, FilesOf
<1>4. ASSUME NEW f \in Files \ Repeats PROVE FileIsTrue(f)'
  <2>1. FileIsTrue(f)
    BY DEF Inv, UploadsInv
  <2> QED BY <2>1 DEF FileIsTrue, About, At, Photos, HasOriginal
<1>5. TypeOK'
  BY DEF Inv, TypeOK, Requests, FilePlaces
<1> QED BY <1>1, <1>2, <1>3, <1>4, <1>5, <1>6 DEF Inv, UploadsInv

\* Requests that begin.
LEMMA BeginsKeeps ==
  ASSUME Setting, Inv, NEW h \in Handlers,
         \/ \E s \in Sessions : CountPhotos(h, s)
         \/ \E f \in Files : LoadComplete(h, f) \/ LoadCancel(h, f)
  PROVE  Inv'
<1>0. RequestsTyped
  BY DEF Inv, UploadsInv
<1>1. ASSUME NEW s \in Sessions, CountPhotos(h, s) PROVE Inv'
  <2>1. /\ UNCHANGED <<file, session, photo, blob, unlabelled>> /\ session[s] = "absent"
        /\ req'[h].at = "registering" /\ req'[h].on = s /\ req'[h] \in Requests
        /\ \A g \in Handlers \ {h} : req'[g] = req[g]
        /\ req' \in [Handlers -> Requests]
    BY <1>0, <1>1 DEF CountPhotos, Idle, RequestsTyped, Requests
  <2>2. \A g \in Handlers \ {h} : ~At(g, {"registering"} \cup Inserted)
    BY <1>1 DEF CountPhotos, TripLocked, TripShared, At, Inserted
  <2> QED BY <2>1, <2>2, RequestMoves DEF At, About, FilePlaces, Inserted
<1>2. ASSUME NEW f \in Files, LoadComplete(h, f) PROVE Inv'
  <2>1. file[f].state = "registered" /\ Begin(h, f, "loaded") /\ UNCHANGED <<file, session, photo, blob, unlabelled>>
    BY <1>2 DEF LoadComplete
  <2>2. req' \in [Handlers -> Requests]
    BY <1>0, <2>1 DEF Begin, Idle, RequestsTyped, Requests, FilePlaces
  <2>3. /\ req'[h].at = "loaded" /\ req'[h].on = f /\ \A g \in Handlers \ {h} : req'[g] = req[g]
        /\ f \notin Repeats => \A g \in Handlers : req[g].on # f
    BY <1>0, <2>1 DEF Begin, MayAsk, At, Idle, RequestsTyped
  <2> QED BY <2>1, <2>2, <2>3, RequestMoves DEF At, About, FilePlaces, Inserted
<1>3. ASSUME NEW f \in Files, LoadCancel(h, f) PROVE Inv'
  <2>1. /\ file[f].state \notin {"absent", "completed"} /\ Begin(h, f, "cancelling")
        /\ UNCHANGED <<file, session, photo, blob, unlabelled>>
    BY <1>3 DEF LoadCancel, Cancellable
  <2>2. req' \in [Handlers -> Requests]
    BY <1>0, <2>1 DEF Begin, Idle, RequestsTyped, Requests, FilePlaces
  <2>3. /\ req'[h].at = "cancelling" /\ req'[h].on = f /\ \A g \in Handlers \ {h} : req'[g] = req[g]
        /\ f \notin Repeats => \A g \in Handlers : req[g].on # f
    BY <1>0, <2>1 DEF Begin, MayAsk, At, Idle, RequestsTyped
  <2> QED BY <2>1, <2>2, <2>3, RequestMoves DEF At, About, FilePlaces, Inserted
<1> QED BY <1>1, <1>2, <1>3

\* Requests that read the store, or the rows of their session.
LEMMA ReadsKeep ==
  ASSUME Setting, Inv, NEW h \in Handlers, StatObject(h) \/ CountRemaining(h)
  PROVE  Inv'
<1>0. RequestsTyped /\ TripIsLocked /\ KeysAreUnique /\ \A f \in Files \ Repeats : FileIsTrue(f)
  BY DEF Inv, UploadsInv
<1>1. CASE StatObject(h)
  <2>1. /\ UNCHANGED <<file, session, photo, blob, unlabelled>> /\ req[h].at = "loaded" /\ req[h].on \in Files
        /\ req[h] \in Requests
    BY <1>0, <1>1 DEF StatObject, At, RequestsTyped, FilePlaces
  <2>2. blob[req[h].on].object \in Contents \cup {Nothing} /\ blob[req[h].on].sum \in Contents \cup {Nothing}
    BY <2>1 DEF Inv, TypeOK, Blobs
  <2>3. Stat(blob[req[h].on]).sum \in Contents \cup {Nothing}
    BY <2>2 DEF Stat
  <2>4. /\ req'[h].at = (IF Verified(blob[req[h].on]) THEN "stated" ELSE "failing") /\ req'[h].on = req[h].on
        /\ \A g \in Handlers \ {h} : req'[g] = req[g]
        /\ req' \in [Handlers -> Requests]
    BY <1>0, <1>1, <2>1, <2>3 DEF StatObject, RequestsTyped, Requests, FilePlaces
  <2>5. req'[h].at = "stated" => HasOriginal(req[h].on)
    BY <2>4 DEF HasOriginal, Verified
  <2>6. \A f \in Files \ Repeats : req[h].on = f =>
          file[f].state = "registered" /\ \A g \in Handlers \ {h} : ~About(g, FilePlaces, f)
    BY <1>0, <2>1 DEF FileIsTrue, About, At, FilePlaces
  <2>7. file[req[h].on].state # "absent"
    BY <1>0, <2>1 DEF RequestsTyped, At, FilePlaces
  <2> QED BY <2>1, <2>4, <2>5, <2>6, <2>7, RequestMoves DEF At, About, FilePlaces, Inserted
<1>2. CASE CountRemaining(h)
  <2>1. /\ UNCHANGED <<file, session, photo, blob, unlabelled>> /\ req[h].at = "inserted" /\ req[h].on \in Files
        /\ req[h] \in Requests
    BY <1>0, <1>2 DEF CountRemaining, At, RequestsTyped, FilePlaces
  <2>2. /\ req'[h].at = "counted" /\ req'[h].on = req[h].on /\ req'[h].closes = (Remaining(req[h].on) = {})
        /\ \A g \in Handlers \ {h} : req'[g] = req[g]
        /\ req' \in [Handlers -> Requests]
    BY <1>0, <1>2, <2>1 DEF CountRemaining, RequestsTyped, Requests, FilePlaces
  <2>3. req'[h].closes => \A g \in FilesOf(SessionOf[req[h].on]) \ {req[h].on} : file[g].state = "completed"
    BY <2>2 DEF Remaining
  <2>4. photo[req[h].on].rows = 0 /\ \A g \in Handlers \ {h} : ~About(g, Inserted, req[h].on)
    BY <1>0, <2>1 DEF KeysAreUnique, About, At, Inserted
  <2>5. \A f \in Files \ Repeats : req[h].on = f =>
          /\ file[f].state = "registered" /\ HasOriginal(f)
          /\ \A g \in Handlers \ {h} : ~About(g, FilePlaces, f)
    BY <1>0, <2>1 DEF FileIsTrue, About, At, FilePlaces
  <2>6. \A g \in Handlers \ {h} : ~At(g, {"registering"})
    BY <1>0, <2>1 DEF TripIsLocked, At, Inserted
  <2>7. file[req[h].on].state # "absent"
    BY <1>0, <2>1 DEF RequestsTyped, At, FilePlaces
  <2> QED BY <2>1, <2>2, <2>3, <2>4, <2>5, <2>6, <2>7, RequestMoves DEF At, About, FilePlaces, Inserted
<1> QED BY <1>1, <1>2

\* The insert of a media item finds its key free, or ends the request.
LEMMA InsertKeeps ==
  ASSUME Setting, Inv, NEW h \in Handlers, Insert(h)
  PROVE  Inv'
<1>0. RequestsTyped /\ \A f \in Files \ Repeats : FileIsTrue(f)
  BY DEF Inv, UploadsInv
<1>1. /\ UNCHANGED <<file, session, photo, blob, unlabelled>> /\ req[h].at = "stated" /\ req[h].on \in Files
      /\ req[h] \in Requests /\ ~RowLocked(h) /\ ~TripLocked(h) /\ file[req[h].on].state # "absent"
  BY <1>0 DEF Insert, At, RequestsTyped, FilePlaces
<1>2. CASE Conflicts(req[h].on)
  <2>1. Done(h)
    BY <1>2 DEF Insert
  <2>2. req'[h] = Idle /\ \A g \in Handlers \ {h} : req'[g] = req[g]
    BY <1>0, <2>1, IsDone
  <2>3. req' \in [Handlers -> Requests]
    BY <1>0, <2>1 DEF Done, RequestsTyped, Requests, Idle
  <2> QED BY <1>1, <2>2, <2>3, RequestMoves DEF At, About, FilePlaces, Inserted, Idle
<1>3. CASE ~Conflicts(req[h].on)
  <2>1. Go(h, "inserted")
    BY <1>3 DEF Insert
  <2>2. req'[h].at = "inserted" /\ req'[h].on = req[h].on /\ \A g \in Handlers \ {h} : req'[g] = req[g]
    BY <1>0, <2>1, Goes
  <2>3. req' \in [Handlers -> Requests]
    BY <1>0, <1>1, <2>1 DEF Go, RequestsTyped, Requests, FilePlaces
  <2>4. photo[req[h].on].rows = 0 /\ \A g \in Handlers \ {h} : ~About(g, Inserted, req[h].on)
    <3>1. photo[req[h].on].rows \in 0..2
      BY <1>1 DEF Inv, TypeOK
    <3>2. \A g \in Handlers \ {h} : ~About(g, Inserted, req[h].on)
      BY <1>1 DEF RowLocked, About, Inserted
    <3> QED BY <1>3, <3>1, <3>2 DEF Conflicts
  <2>5. \A f \in Files \ Repeats : req[h].on = f =>
          /\ file[f].state = "registered" /\ HasOriginal(f)
          /\ \A g \in Handlers \ {h} : ~About(g, FilePlaces, f)
    BY <1>0, <1>1 DEF FileIsTrue, About, At, FilePlaces
  <2> QED BY <1>1, <2>2, <2>3, <2>4, <2>5, RequestMoves DEF TripLocked, At, About, FilePlaces, Inserted
<1> QED BY <1>2, <1>3

\* The invariant where nothing but the store moves.
LEMMA StoreMoves ==
  ASSUME Setting, Inv, UNCHANGED <<file, session, photo, req>>,
         blob' \in [Files -> Blobs], unlabelled' \in [Files -> SUBSET Contents],
         \A f \in Files \ Repeats : HasOriginal(f) =>
           HasOriginal(f)' \/ (f \notin Photos /\ \A h \in Handlers : ~About(h, FilePlaces, f))
  PROVE  Inv'
<1>1. RequestsTyped' /\ TripIsLocked' /\ KeysAreUnique' /\ SessionsAreTrue'
  BY DEF Inv, UploadsInv, RequestsTyped, TripIsLocked, KeysAreUnique, OnePhotoPerFile, SessionsAreTrue, About, At, FilesOf
<1>2. ASSUME NEW f \in Files \ Repeats PROVE FileIsTrue(f)'
  <2>1. FileIsTrue(f)
    BY DEF Inv, UploadsInv
  <2> QED BY <2>1 DEF FileIsTrue, About, At, Photos, FilePlaces
<1>3. TypeOK'
  BY DEF Inv, TypeOK, At
<1> QED BY <1>1, <1>2, <1>3 DEF Inv, UploadsInv

\* A client that waits sends a file again only before its photo exists; what goes
\* beside an object leaves its bytes as they are.
LEMMA PutKeeps ==
  ASSUME Setting, Inv, NEW f \in Files, NEW c \in Contents, Put(f, c) \/ Label(f, c) \/ PutDies(f, c)
  PROVE  Inv'
<1>0. blob \in [Files -> Blobs] /\ unlabelled \in [Files -> SUBSET Contents] /\ blob[f] \in Blobs
  BY DEF Inv, TypeOK
<1>1. CASE Put(f, c)
  <2>1. /\ UNCHANGED <<file, session, photo, req>> /\ blob' = [blob EXCEPT ![f] = Replaced(Store, blob[f], c)]
        /\ unlabelled' = [unlabelled EXCEPT ![f] = IF LabelsLater(Store) THEN unlabelled[f] \cup {c} ELSE unlabelled[f]]
    BY <1>1 DEF Put
  <2>2. Replaced(Store, blob[f], c) \in Blobs
    BY <1>0 DEF Setting, Stores, Replaced, Blobs
  <2>3. blob' \in [Files -> Blobs] /\ unlabelled' \in [Files -> SUBSET Contents]
    BY <1>0, <2>1, <2>2
  <2>4. \A g \in Files \ {f} : blob'[g] = blob[g]
    BY <1>0, <2>1
  <2>5. f \notin Repeats => f \notin Photos /\ \A h \in Handlers : ~About(h, FilePlaces, f)
    BY <1>1 DEF Put, MayAsk, Inv, UploadsInv, FileIsTrue, Photos, About
  <2>6. \A g \in Files \ {f} : HasOriginal(g) => HasOriginal(g)'
    BY <2>4 DEF HasOriginal
  <2> QED BY <2>1, <2>3, <2>5, <2>6, StoreMoves
<1>2. CASE Label(f, c)
  <2>1. /\ UNCHANGED <<file, session, photo, req>> /\ blob' = [blob EXCEPT ![f] = [blob[f] EXCEPT !.sum = c]]
        /\ unlabelled' \in [Files -> SUBSET Contents]
    BY <1>0, <1>2 DEF Label, Labelled
  <2>2. blob' \in [Files -> Blobs]
    BY <1>0, <2>1 DEF Blobs
  <2>3. \A g \in Files : blob'[g].object = blob[g].object
    BY <1>0, <2>1 DEF Blobs
  <2>4. \A g \in Files : HasOriginal(g) => HasOriginal(g)'
    BY <2>3 DEF HasOriginal, Exists, Stat
  <2> QED BY <2>1, <2>2, <2>4, StoreMoves
<1>3. CASE PutDies(f, c)
  <2>1. UNCHANGED <<file, session, photo, req, blob>> /\ unlabelled' \in [Files -> SUBSET Contents]
    BY <1>0, <1>3 DEF PutDies
  <2> QED BY <1>0, <2>1, StoreMoves DEF HasOriginal
<1> QED BY <1>1, <1>2, <1>3

\* The registration of the files of a session that was counted under the lock.
LEMMA RegisterKeeps ==
  ASSUME Setting, Inv, NEW h \in Handlers, Register(h)
  PROVE  Inv'
<1> DEFINE s == req[h].on
<1>0. RequestsTyped /\ TripIsLocked /\ KeysAreUnique /\ SessionsAreTrue /\ \A f \in Files \ Repeats : FileIsTrue(f)
  BY DEF Inv, UploadsInv
<1>1. req[h].at = "registering" /\ s \in Sessions /\ session[s] = "absent"
  BY <1>0 DEF Register, At, RequestsTyped
<1>2. /\ session' = [session EXCEPT ![s] = "registered"] /\ UNCHANGED <<photo, blob, unlabelled>>
      /\ file' = [f \in Files |-> IF f \in FilesOf(s) THEN [state |-> "registered", linked |-> FALSE] ELSE file[f]]
      /\ Done(h)
  BY DEF Register
<1>3. req'[h] = Idle /\ \A g \in Handlers \ {h} : req'[g] = req[g]
  BY <1>0, <1>2, IsDone
<1>4. req' \in [Handlers -> Requests]
  BY <1>0, <1>2 DEF Done, RequestsTyped, Requests, Idle
<1>5. \A f \in Files : f \in FilesOf(s) => file[f].state = "absent" /\ file'[f].state = "registered" /\ ~file'[f].linked
  BY <1>0, <1>1, <1>2 DEF SessionsAreTrue, FilesOf
<1>6. \A f \in Files : f \notin FilesOf(s) => file'[f] = file[f]
  BY <1>2
<1>7. session'[s] = "registered" /\ \A t \in Sessions \ {s} : session'[t] = session[t]
  BY <1>1, <1>2 DEF Inv, TypeOK
<1>8. \A g \in Handlers \ {h} : ~At(g, {"registering"})
  BY <1>0, <1>1 DEF TripIsLocked, At
<1>9. TypeOK'
  <2>1. session' \in [Sessions -> SessionStates]
    BY <1>2 DEF Inv, TypeOK, SessionStates
  <2>2. file' \in [Files -> [state : FileStates, linked : BOOLEAN]]
    BY <1>2 DEF Inv, TypeOK, FileStates
  <2>3. \A g \in Handlers : req'[g].at \in {"idle", "registering"} \cup FilePlaces
    BY <1>4 DEF Requests
  <2> QED BY <1>2, <2>1, <2>2, <2>3 DEF Inv, TypeOK, FilePlaces
<1> HIDE DEF s
<1>10. RequestsTyped'
  BY <1>0, <1>3, <1>4, <1>5, <1>6, <1>8 DEF RequestsTyped, At, Idle, FilePlaces
<1>11. TripIsLocked'
  BY <1>0, <1>3 DEF TripIsLocked, At, Idle, Inserted
<1>12. KeysAreUnique'
  BY <1>0, <1>2, <1>3 DEF KeysAreUnique, OnePhotoPerFile, About, At, Idle, Inserted
<1>13. SessionsAreTrue'
  <2>1. \A f \in Files : file'[f].state # "absent" => session'[SessionOf[f]] # "absent"
    BY <1>0, <1>6, <1>7 DEF SessionsAreTrue, FilesOf, Setting
  <2>2. \A f \in Files \ Repeats : session'[SessionOf[f]] = "completed" => file'[f].state = "completed"
    BY <1>0, <1>6, <1>7 DEF SessionsAreTrue, FilesOf, Setting
  <2>3. \A g \in Files : file[g].state = "completed" => file'[g].state = "completed"
    BY <1>5, <1>6
  <2>4. \A g \in Handlers, f \in Files : About(g, {"counted"}, f)' /\ req'[g].closes =>
          \A e \in FilesOf(SessionOf[f]) \ ({f} \cup Repeats) : file'[e].state = "completed"
    BY <1>0, <1>3, <2>3 DEF SessionsAreTrue, FilesOf, About, At, Idle
  <2> QED BY <2>1, <2>2, <2>4 DEF SessionsAreTrue, FilesOf
<1>14. ASSUME NEW f \in Files \ Repeats PROVE FileIsTrue(f)'
  <2>1. FileIsTrue(f) /\ \A places : \A g \in Handlers : About(g, places, f)' /\ "idle" \notin places => About(g, places, f)
    BY <1>0, <1>3 DEF About, At, Idle
  <2>2. CASE f \notin FilesOf(s)
    BY <1>2, <1>3, <1>6, <2>1, <2>2 DEF FileIsTrue, About, At, Idle, FilePlaces, Photos, HasOriginal
  <2>3. CASE f \in FilesOf(s)
    BY <1>2, <1>3, <1>5, <2>1, <2>3 DEF FileIsTrue, About, At, Idle, FilePlaces, Photos, HasOriginal
  <2> QED BY <2>2, <2>3
<1> QED BY <1>9, <1>10, <1>11, <1>12, <1>13, <1>14 DEF Inv, UploadsInv

\* A file that fails or is cancelled was open.
LEMMA CloseKeeps ==
  ASSUME Setting, Inv, NEW h \in Handlers, CommitFailed(h) \/ CommitCancel(h)
  PROVE  Inv'
<1> DEFINE e == req[h].on
<1>0. RequestsTyped /\ TripIsLocked /\ KeysAreUnique /\ SessionsAreTrue /\ \A f \in Files \ Repeats : FileIsTrue(f)
  BY DEF Inv, UploadsInv
<1>1. e \in Files /\ About(h, {"failing", "deleted"}, e) /\ file[e].state # "absent"
  BY <1>0 DEF CommitFailed, CommitCancel, At, About, RequestsTyped, FilePlaces
<1>2. /\ UNCHANGED <<session, photo, blob, unlabelled>> /\ Done(h)
      /\ \E st \in {"failed", "cancelled"} : file' = [file EXCEPT ![e].state = st]
  BY DEF CommitFailed, CommitCancel
<1>3. req'[h] = Idle /\ \A g \in Handlers \ {h} : req'[g] = req[g]
  BY <1>0, <1>2, IsDone
<1>4. req' \in [Handlers -> Requests]
  BY <1>0, <1>2 DEF Done, RequestsTyped, Requests, Idle
<1>5. file'[e].state \in {"failed", "cancelled"} /\ file'[e].linked = file[e].linked
  BY <1>1, <1>2 DEF Inv, TypeOK
<1>6. \A f \in Files \ {e} : file'[f] = file[f]
  BY <1>2
<1>7. e \notin Repeats => file[e].state # "completed"
  BY <1>0, <1>1 DEF FileIsTrue, About, At, FilePlaces
<1>8. TypeOK'
  <2>1. file' \in [Files -> [state : FileStates, linked : BOOLEAN]]
    <3>1. PICK st \in {"failed", "cancelled"} : file' = [file EXCEPT ![e] = [file[e] EXCEPT !.state = st]]
      BY <1>2
    <3>2. [file[e] EXCEPT !.state = st] \in [state : FileStates, linked : BOOLEAN]
      BY <1>1 DEF Inv, TypeOK, FileStates
    <3> QED BY <3>1, <3>2 DEF Inv, TypeOK
  <2>2. \A g \in Handlers : req'[g].at \in {"idle", "registering"} \cup FilePlaces
    BY <1>4 DEF Requests
  <2> QED BY <1>2, <2>1, <2>2 DEF Inv, TypeOK, FilePlaces
<1> HIDE DEF e
<1>9. RequestsTyped'
  BY <1>0, <1>2, <1>3, <1>4, <1>5, <1>6 DEF RequestsTyped, At, Idle, FilePlaces
<1>10. TripIsLocked'
  BY <1>0, <1>3 DEF TripIsLocked, At, Idle, Inserted
<1>11. KeysAreUnique'
  BY <1>0, <1>2, <1>3 DEF KeysAreUnique, OnePhotoPerFile, About, At, Idle, Inserted
<1>12. SessionsAreTrue'
  <2>1. \A f \in Files : file'[f].state # "absent" => session'[SessionOf[f]] # "absent"
    BY <1>0, <1>1, <1>2, <1>6 DEF SessionsAreTrue
  <2>2. \A f \in Files \ Repeats : file[f].state = "completed" => file'[f].state = "completed"
    BY <1>6, <1>7
  <2>3. \A f \in Files \ Repeats : session'[SessionOf[f]] = "completed" => file'[f].state = "completed"
    BY <1>0, <1>2, <2>2 DEF SessionsAreTrue
  <2>4. \A g \in Handlers, f \in Files : About(g, {"counted"}, f)' /\ req'[g].closes =>
          \A d \in FilesOf(SessionOf[f]) \ ({f} \cup Repeats) : file'[d].state = "completed"
    BY <1>0, <1>3, <2>2 DEF SessionsAreTrue, FilesOf, About, At, Idle
  <2> QED BY <2>1, <2>3, <2>4 DEF SessionsAreTrue, FilesOf
<1>13. ASSUME NEW f \in Files \ Repeats PROVE FileIsTrue(f)'
  <2>1. FileIsTrue(f)
    BY <1>0
  <2>2. CASE f # e
    BY <1>2, <1>3, <1>6, <2>1, <2>2 DEF FileIsTrue, About, At, Idle, FilePlaces, Photos, HasOriginal
  <2>3. CASE f = e
    <3>1. \A g \in Handlers : ~About(g, FilePlaces, f)'
      BY <1>1, <1>3, <2>1, <2>3 DEF FileIsTrue, About, At, Idle, FilePlaces
    <3>2. ~file[f].linked /\ f \notin Photos /\ ~(photo[f].rows > 0)
      BY <1>7, <2>1, <2>3 DEF FileIsTrue, Photos
    <3> QED BY <1>2, <1>5, <2>3, <3>1, <3>2 DEF FileIsTrue, About, At, FilePlaces, Photos
  <2> QED BY <2>2, <2>3
<1> QED BY <1>8, <1>9, <1>10, <1>11, <1>12, <1>13 DEF Inv, UploadsInv

\* The photo of a completed file is its first, and its original was seen in the store.
LEMMA CompleteKeeps ==
  ASSUME Setting, Inv, NEW h \in Handlers, CommitComplete(h)
  PROVE  Inv'
<1> DEFINE e == req[h].on
<1>0. RequestsTyped /\ TripIsLocked /\ KeysAreUnique /\ SessionsAreTrue /\ \A f \in Files \ Repeats : FileIsTrue(f)
  BY DEF Inv, UploadsInv
<1>1. e \in Files /\ About(h, {"counted"}, e) /\ file[e].state # "absent" /\ req[h] \in Requests
  BY <1>0 DEF CommitComplete, At, About, RequestsTyped, FilePlaces
<1>2. /\ UNCHANGED <<blob, unlabelled>> /\ Done(h)
      /\ file' = [file EXCEPT ![e] = [state |-> "completed", linked |-> TRUE]]
      /\ photo' = [photo EXCEPT ![e] = [photo[e] EXCEPT !.rows = photo[e].rows + 1, !.sum = req[h].sum]]
      /\ session' = [session EXCEPT ![SessionOf[e]] = IF req[h].closes THEN "completed" ELSE "transferring"]
  BY <1>1 DEF CommitComplete, Inv, TypeOK
<1>3. req'[h] = Idle /\ \A g \in Handlers \ {h} : req'[g] = req[g]
  BY <1>0, <1>2, IsDone
<1>4. req' \in [Handlers -> Requests]
  BY <1>0, <1>2 DEF Done, RequestsTyped, Requests, Idle
<1>5. file'[e].state = "completed" /\ file'[e].linked /\ \A f \in Files \ {e} : file'[f] = file[f]
  BY <1>1, <1>2 DEF Inv, TypeOK
<1>6. /\ photo[e].rows = 0 /\ photo'[e].rows = 1 /\ photo'[e].ingested = photo[e].ingested
      /\ \A f \in Files \ {e} : photo'[f] = photo[f]
  <2>1. photo[e].rows = 0
    BY <1>0, <1>1 DEF KeysAreUnique, About, At, Inserted
  <2> QED BY <1>1, <1>2, <2>1 DEF Inv, TypeOK
<1>7. /\ session'[SessionOf[e]] = (IF req[h].closes THEN "completed" ELSE "transferring")
      /\ \A t \in Sessions \ {SessionOf[e]} : session'[t] = session[t]
      /\ session[SessionOf[e]] # "absent" /\ SessionOf[e] \in Sessions
  BY <1>0, <1>1, <1>2 DEF Inv, TypeOK, SessionsAreTrue, Setting
<1>8. \A g \in Handlers \ {h} : ~About(g, Inserted, e)
  BY <1>0, <1>1 DEF KeysAreUnique, About, At, Inserted
<1>9. TypeOK'
  <2>1. file' \in [Files -> [state : FileStates, linked : BOOLEAN]]
    BY <1>2 DEF Inv, TypeOK, FileStates
  <2>2. session' \in [Sessions -> SessionStates]
    BY <1>2 DEF Inv, TypeOK, SessionStates
  <2>3. photo' \in [Files -> [rows : 0..2, deleted : BOOLEAN, ingested : BOOLEAN, sum : Contents \cup {Nothing}]]
    <3>1. [photo[e] EXCEPT !.rows = photo[e].rows + 1, !.sum = req[h].sum]
            \in [rows : 0..2, deleted : BOOLEAN, ingested : BOOLEAN, sum : Contents \cup {Nothing}]
      <4>1. photo[e] \in PhotoRows
        BY <1>1 DEF Inv, TypeOK, PhotoRows
      <4>2. photo[e].rows + 1 \in 0..2
        BY <1>6
      <4>3. req[h].sum \in Contents \cup {Nothing}
        BY <1>1 DEF Requests
      <4> QED BY <4>1, <4>2, <4>3 DEF PhotoRows
    <3> QED BY <1>2, <3>1 DEF Inv, TypeOK
  <2>4. \A g \in Handlers : req'[g].at \in {"idle", "registering"} \cup FilePlaces
    BY <1>4 DEF Requests
  <2> QED BY <1>2, <2>1, <2>2, <2>3, <2>4 DEF Inv, TypeOK, FilePlaces
<1> HIDE DEF e
<1>10. RequestsTyped'
  BY <1>0, <1>3, <1>4, <1>5, <1>7 DEF RequestsTyped, At, Idle, FilePlaces
<1>11. TripIsLocked'
  BY <1>0, <1>3 DEF TripIsLocked, At, Idle, Inserted
<1>12. KeysAreUnique'
  <2>1. \A f \in Files : photo'[f].rows <= 1
    BY <1>0, <1>6 DEF KeysAreUnique, OnePhotoPerFile
  <2>2. \A g \in Handlers, f \in Files : About(g, Inserted, f)' => photo'[f].rows = 0
    BY <1>0, <1>3, <1>6, <1>8 DEF KeysAreUnique, About, At, Idle, Inserted
  <2>3. \A g, k \in Handlers, f \in Files : About(g, Inserted, f)' /\ About(k, Inserted, f)' => g = k
    BY <1>0, <1>3 DEF KeysAreUnique, About, At, Idle, Inserted
  <2> QED BY <2>1, <2>2, <2>3 DEF KeysAreUnique, OnePhotoPerFile
<1>13. SessionsAreTrue'
  <2>1. \A f \in Files : file'[f].state # "absent" => session'[SessionOf[f]] # "absent"
    BY <1>0, <1>5, <1>7 DEF SessionsAreTrue, Setting
  <2>2. \A f \in Files : file[f].state = "completed" => file'[f].state = "completed"
    BY <1>5
  <2>3. \A f \in Files \ Repeats : session'[SessionOf[f]] = "completed" => file'[f].state = "completed"
    BY <1>0, <1>1, <1>5, <1>7, <2>2 DEF SessionsAreTrue, Setting, FilesOf
  <2>4. \A g \in Handlers, f \in Files : About(g, {"counted"}, f)' /\ req'[g].closes =>
          \A d \in FilesOf(SessionOf[f]) \ ({f} \cup Repeats) : file'[d].state = "completed"
    BY <1>0, <1>3, <2>2 DEF SessionsAreTrue, FilesOf, About, At, Idle
  <2> QED BY <2>1, <2>3, <2>4 DEF SessionsAreTrue, FilesOf
<1>14. ASSUME NEW f \in Files \ Repeats PROVE FileIsTrue(f)'
  <2>1. FileIsTrue(f)
    BY <1>0
  <2>2. CASE f # e
    BY <1>2, <1>3, <1>5, <1>6, <2>1, <2>2 DEF FileIsTrue, About, At, Idle, FilePlaces, Photos, HasOriginal
  <2>3. CASE f = e
    <3>1. \A g \in Handlers : ~About(g, FilePlaces, f)'
      BY <1>1, <1>3, <2>1, <2>3 DEF FileIsTrue, About, At, Idle, FilePlaces
    <3>2. HasOriginal(f)'
      BY <1>1, <1>2, <2>1, <2>3 DEF FileIsTrue, About, At, HasOriginal
    <3> QED BY <1>5, <1>6, <2>3, <3>1, <3>2 DEF FileIsTrue, About, At, FilePlaces
  <2> QED BY <2>2, <2>3
<1> QED BY <1>9, <1>10, <1>11, <1>12, <1>13, <1>14 DEF Inv, UploadsInv

\* An object goes away only where no photo waits for it: its file is being
\* cancelled, or its photo is ingested.
LEMMA GoneKeeps ==
  ASSUME Setting, Inv,
         \/ \E h \in Handlers : DeleteObject(h)
         \/ \E f \in Files : Ingested(f) \/ DeletePhoto(f)
  PROVE  Inv'
<1>0. RequestsTyped /\ TripIsLocked /\ KeysAreUnique /\ SessionsAreTrue /\ \A f \in Files \ Repeats : FileIsTrue(f)
  BY DEF Inv, UploadsInv
<1>a. NoBlob \in Blobs
  BY DEF NoBlob, Blobs
<1>1. ASSUME NEW h \in Handlers, DeleteObject(h) PROVE Inv'
  <2> DEFINE e == req[h].on
  <2>1. e \in Files /\ About(h, {"cancelling"}, e) /\ file[e].state # "absent" /\ req[h] \in Requests
    BY <1>0, <1>1 DEF DeleteObject, At, About, RequestsTyped, FilePlaces
  <2>2. /\ UNCHANGED <<file, session, photo, unlabelled>> /\ blob' = [blob EXCEPT ![e] = NoBlob] /\ Go(h, "deleted")
    BY <1>1 DEF DeleteObject
  <2>3. req'[h].at = "deleted" /\ req'[h].on = e /\ \A g \in Handlers \ {h} : req'[g] = req[g]
    BY <1>0, <2>2, Goes
  <2>4. req' \in [Handlers -> Requests]
    BY <1>0, <2>1, <2>2 DEF Go, RequestsTyped, Requests, FilePlaces
  <2>5. blob' \in [Files -> Blobs] /\ \A f \in Files \ {e} : blob'[f] = blob[f]
    BY <1>a, <2>2 DEF Inv, TypeOK
  <2>6. TypeOK'
    BY <2>2, <2>4, <2>5 DEF Inv, TypeOK, Requests, FilePlaces
  <2> HIDE DEF e
  <2>7. RequestsTyped'
    BY <1>0, <2>1, <2>2, <2>3, <2>4 DEF RequestsTyped, At, FilePlaces
  <2>8. TripIsLocked' /\ KeysAreUnique' /\ SessionsAreTrue'
    BY <1>0, <2>2, <2>3 DEF TripIsLocked, KeysAreUnique, OnePhotoPerFile, SessionsAreTrue, FilesOf, About, At, Inserted
  <2>9. ASSUME NEW f \in Files \ Repeats PROVE FileIsTrue(f)'
    <3>1. FileIsTrue(f)
      BY <1>0
    <3>2. CASE f # e
      BY <2>2, <2>3, <2>5, <3>1, <3>2 DEF FileIsTrue, About, At, FilePlaces, Photos, HasOriginal
    <3>3. CASE f = e
      BY <2>1, <2>2, <2>3, <3>1, <3>3 DEF FileIsTrue, About, At, FilePlaces, Photos
    <3> QED BY <3>2, <3>3
  <2> QED BY <2>6, <2>7, <2>8, <2>9 DEF Inv, UploadsInv
<1>2. ASSUME NEW e \in Files, Ingested(e) \/ DeletePhoto(e) PROVE Inv'
  <2>1. /\ e \in Photos /\ UNCHANGED <<file, session, unlabelled, req>>
        /\ blob' \in [Files -> Blobs] /\ \A f \in Files \ {e} : blob'[f] = blob[f]
        /\ photo' \in [Files -> [rows : 0..2, deleted : BOOLEAN, ingested : BOOLEAN, sum : Contents \cup {Nothing}]]
        /\ \A f \in Files \ {e} : photo'[f] = photo[f]
        /\ photo'[e].rows = photo[e].rows
        /\ photo'[e].ingested \/ photo'[e].deleted
    <3>1. /\ blob \in [Files -> Blobs] /\ photo \in [Files -> PhotoRows] /\ photo[e] \in PhotoRows
      BY DEF Inv, TypeOK, PhotoRows
    <3>2. CASE Ingested(e)
      <4>1. /\ e \in Photos /\ UNCHANGED <<file, session, unlabelled, req>> /\ blob' = [blob EXCEPT ![e] = NoBlob]
            /\ photo' = [photo EXCEPT ![e] = [photo[e] EXCEPT !.ingested = TRUE]]
        BY <3>2 DEF Ingested
      <4>2. [photo[e] EXCEPT !.ingested = TRUE] \in PhotoRows
        BY <3>1 DEF PhotoRows
      <4>3. blob' \in [Files -> Blobs] /\ photo' \in [Files -> PhotoRows]
        BY <1>a, <3>1, <4>1, <4>2
      <4>4. photo'[e].rows = photo[e].rows /\ photo'[e].ingested
        BY <3>1, <4>1 DEF PhotoRows
      <4> QED BY <4>1, <4>3, <4>4 DEF PhotoRows
    <3>3. CASE DeletePhoto(e)
      <4>1. /\ e \in Photos /\ UNCHANGED <<file, session, unlabelled, req, blob>>
            /\ photo' = [photo EXCEPT ![e] = [photo[e] EXCEPT !.deleted = TRUE]]
        BY <3>3 DEF DeletePhoto
      <4>2. [photo[e] EXCEPT !.deleted = TRUE] \in PhotoRows
        BY <3>1 DEF PhotoRows
      <4>3. photo' \in [Files -> PhotoRows]
        BY <3>1, <4>1, <4>2
      <4>4. photo'[e].rows = photo[e].rows /\ photo'[e].deleted
        BY <3>1, <4>1 DEF PhotoRows
      <4> QED BY <3>1, <4>1, <4>3, <4>4 DEF PhotoRows
    <3> QED BY <1>2, <3>2, <3>3
  <2>2. TypeOK'
    BY <2>1 DEF Inv, TypeOK, At
  <2>3. RequestsTyped' /\ TripIsLocked' /\ SessionsAreTrue'
    BY <1>0, <2>1 DEF RequestsTyped, TripIsLocked, SessionsAreTrue, FilesOf, About, At
  <2>4. KeysAreUnique'
    BY <1>0, <2>1 DEF KeysAreUnique, OnePhotoPerFile, About, At
  <2>5. ASSUME NEW f \in Files \ Repeats PROVE FileIsTrue(f)'
    <3>1. FileIsTrue(f)
      BY <1>0
    <3>2. CASE f # e
      BY <2>1, <3>1, <3>2 DEF FileIsTrue, About, At, FilePlaces, Photos, HasOriginal
    <3>3. CASE f = e
      <4>1. \A g \in Handlers : ~About(g, FilePlaces, f)
        BY <2>1, <3>1, <3>3 DEF FileIsTrue, About, At, FilePlaces, Photos
      <4> QED BY <2>1, <3>1, <3>3, <4>1 DEF FileIsTrue, About, At, FilePlaces, Photos
    <3> QED BY <3>2, <3>3
  <2> QED BY <2>2, <2>3, <2>4, <2>5 DEF Inv, UploadsInv
<1> QED BY <1>1, <1>2

\* The invariant holds at first, and no step breaks it.
LEMMA InitInv ==
  ASSUME Setting, Init
  PROVE  Inv
BY DEF Init, Inv, TypeOK, UploadsInv, RequestsTyped, Requests, TripIsLocked, KeysAreUnique, OnePhotoPerFile,
       SessionsAreTrue, FileIsTrue, About, At, Idle, FilePlaces, Inserted, Photos, FileStates, SessionStates,
       Blobs, NoBlob, Setting

\* No step of the API, of a client or of the worker breaks the invariant.
LEMMA InvKept ==
  ASSUME Setting, Inv, [Next]_vars
  PROVE  Inv'
<1>1. CASE UNCHANGED vars
  BY <1>1, StoreMoves DEF vars, HasOriginal, Inv, TypeOK
<1>2. CASE Next
  BY <1>2, BeginsKeeps, ReadsKeep, InsertKeeps, PutKeeps, RegisterKeeps, CloseKeeps, CompleteKeeps, GoneKeeps DEF Next
<1> QED BY <1>1, <1>2

\* Files, sessions, photos, objects and the requests in progress agree with one
\* another in every state: the invariant that the theorems below read off.
THEOREM UploadsAreTrue ==
  ASSUME Setting
  PROVE  Spec => []Inv
<1>1. Init => Inv
  BY InitInv
<1>2. Inv /\ [Next]_vars => Inv'
  BY InvKept
<1> QED BY <1>1, <1>2, PTL DEF Spec

(***************************************************************************)
(* The quota.  The files that a request is about to register have been     *)
(* counted already, and the lock of the trip keeps the count true.         *)
(***************************************************************************)
QuotaIsKept ==
  Repeats = {} =>
    /\ ReservedSlots <= MaxFiles
    /\ \A h \in Handlers : At(h, {"registering"}) =>
         ReservedSlots + Cardinality(FilesOf(req[h].on)) <= MaxFiles

\* What is counted is finite.
LEMMA SlotsAreNumbers ==
  ASSUME Setting
  PROVE  /\ IsFiniteSet(Photos) /\ IsFiniteSet(Pending) /\ ReservedSlots \in Nat
         /\ \A s : IsFiniteSet(FilesOf(s)) /\ Cardinality(FilesOf(s)) \in Nat
<1>1. IsFiniteSet(Photos) /\ IsFiniteSet(Pending) /\ \A s : IsFiniteSet(FilesOf(s))
  BY FS_Subset DEF Setting, Photos, Pending, FilesOf
<1> QED BY <1>1, FS_CardinalityType DEF ReservedSlots

\* Slots are only freed where no photo and no pending file is new.
LEMMA SlotsAreFreed ==
  ASSUME Setting, Photos' \subseteq Photos, Pending' \subseteq Pending
  PROVE  ReservedSlots' <= ReservedSlots /\ ReservedSlots' \in Nat
<1>1. IsFiniteSet(Photos) /\ IsFiniteSet(Pending)
  BY SlotsAreNumbers
<1>2. Cardinality(Photos') <= Cardinality(Photos) /\ Cardinality(Pending') <= Cardinality(Pending)
  BY <1>1, FS_Subset
<1>3. IsFiniteSet(Photos') /\ IsFiniteSet(Pending')
  BY <1>1, FS_Subset
<1> QED BY <1>1, <1>2, <1>3, FS_CardinalityType DEF ReservedSlots

\* A step that frees slots keeps the quota, for registrations in progress too.
LEMMA QuotaWhereFreed ==
  ASSUME Setting, QuotaIsKept, Photos' \subseteq Photos, Pending' \subseteq Pending,
         \A h \in Handlers : At(h, {"registering"})' => At(h, {"registering"}) /\ req'[h].on = req[h].on
  PROVE  QuotaIsKept'
<1>1. ReservedSlots' <= ReservedSlots /\ ReservedSlots' \in Nat /\ ReservedSlots \in Nat /\ MaxFiles \in Nat
  BY SlotsAreFreed, SlotsAreNumbers DEF Setting
<1>2. \A s : Cardinality(FilesOf(s)) \in Nat
  BY SlotsAreNumbers
<1>3. SUFFICES ASSUME Repeats = {}
               PROVE  /\ ReservedSlots' <= MaxFiles
                      /\ \A h \in Handlers : At(h, {"registering"})' =>
                           ReservedSlots' + Cardinality(FilesOf(req'[h].on)) <= MaxFiles
  BY DEF QuotaIsKept, FilesOf
<1>4. ReservedSlots' <= MaxFiles
  BY <1>1, <1>3 DEF QuotaIsKept
<1>5. ASSUME NEW h \in Handlers, At(h, {"registering"})'
      PROVE  ReservedSlots' + Cardinality(FilesOf(req'[h].on)) <= MaxFiles
  <2>1. ReservedSlots + Cardinality(FilesOf(req[h].on)) <= MaxFiles /\ req'[h].on = req[h].on
    BY <1>3, <1>5 DEF QuotaIsKept
  <2> QED BY <1>1, <1>2, <2>1
<1> QED BY <1>4, <1>5

\* A registration that begins has been counted, and is the only one.
LEMMA CountKeepsQuota ==
  ASSUME Setting, Inv, QuotaIsKept, NEW h \in Handlers, NEW s \in Sessions, CountPhotos(h, s)
  PROVE  QuotaIsKept'
<1>1. /\ UNCHANGED <<file, photo>> /\ ReservedSlots + Cardinality(FilesOf(s)) <= MaxFiles
      /\ req'[h].on = s /\ \A g \in Handlers \ {h} : req'[g] = req[g] /\ ~At(g, {"registering"})
  BY DEF CountPhotos, TripLocked, Idle, Inv, UploadsInv, RequestsTyped, Requests
<1>2. ReservedSlots' = ReservedSlots
  BY <1>1 DEF ReservedSlots, Photos, Pending
<1> QED BY <1>1, <1>2 DEF QuotaIsKept, At, FilesOf

\* The files of a registration take the slots that were counted for them.
LEMMA RegisterKeepsQuota ==
  ASSUME Setting, Inv, QuotaIsKept, NEW h \in Handlers, Register(h)
  PROVE  QuotaIsKept'
<1> DEFINE New == FilesOf(req[h].on)
<1>0. RequestsTyped /\ TripIsLocked
  BY DEF Inv, UploadsInv
<1>1. /\ UNCHANGED photo /\ Done(h)
      /\ file' = [f \in Files |-> IF f \in New THEN [state |-> "registered", linked |-> FALSE] ELSE file[f]]
  BY DEF Register
<1>2. \A g \in Handlers : ~At(g, {"registering"})'
  <2>1. req'[h] = Idle /\ \A g \in Handlers \ {h} : req'[g] = req[g]
    BY <1>0, <1>1, IsDone
  <2> QED BY <1>0, <2>1 DEF Register, TripIsLocked, At, Idle
<1>3. Photos' = Photos /\ Pending' \subseteq Pending \cup New
  BY <1>1 DEF Photos, Pending
<1>4. IsFiniteSet(Photos) /\ IsFiniteSet(Pending) /\ IsFiniteSet(New)
  BY SlotsAreNumbers
<1> HIDE DEF New
<1>5. /\ IsFiniteSet(Pending \cup New)
      /\ Cardinality(Pending \cup New) <= Cardinality(Pending) + Cardinality(New)
  <2>1. /\ IsFiniteSet(Pending \cup New) /\ IsFiniteSet(Pending \cap New)
        /\ Cardinality(Pending \cup New)
             = Cardinality(Pending) + Cardinality(New) - Cardinality(Pending \cap New)
    BY <1>4, FS_Union, FS_Intersection
  <2> QED BY <1>4, <2>1, FS_CardinalityType
<1>6. IsFiniteSet(Pending') /\ Cardinality(Pending') <= Cardinality(Pending \cup New)
  BY <1>3, <1>5, FS_Subset
<1>7. ASSUME Repeats = {} PROVE ReservedSlots' <= MaxFiles
  <2>1. Cardinality(Photos) + Cardinality(Pending) + Cardinality(New) <= MaxFiles
    BY <1>7 DEF QuotaIsKept, ReservedSlots, Register, New
  <2>2. /\ Cardinality(Photos) \in Nat /\ Cardinality(Pending) \in Nat /\ Cardinality(New) \in Nat
        /\ Cardinality(Pending') \in Nat /\ Cardinality(Pending \cup New) \in Nat /\ MaxFiles \in Nat
    BY <1>4, <1>5, <1>6, FS_CardinalityType DEF Setting
  <2> QED BY <1>3, <1>5, <1>6, <2>1, <2>2 DEF ReservedSlots
<1> QED BY <1>2, <1>7 DEF QuotaIsKept

\* A file that is completed gives its slot to its photo.
LEMMA CompleteKeepsQuota ==
  ASSUME Setting, Inv, QuotaIsKept, NEW h \in Handlers, CommitComplete(h)
  PROVE  QuotaIsKept'
<1> DEFINE e == req[h].on
<1>0. RequestsTyped /\ \A f \in Files \ Repeats : FileIsTrue(f)
  BY DEF Inv, UploadsInv
<1>1. e \in Files /\ About(h, {"counted"}, e)
  BY <1>0 DEF CommitComplete, At, About, RequestsTyped, FilePlaces
<1>2. /\ file' = [file EXCEPT ![e] = [state |-> "completed", linked |-> TRUE]] /\ Done(h)
      /\ \A f \in Files \ {e} : photo'[f] = photo[f]
  BY <1>1 DEF CommitComplete, Inv, TypeOK
<1>3. \A g \in Handlers : At(g, {"registering"})' => At(g, {"registering"}) /\ req'[g] = req[g]
  <2>1. req'[h] = Idle /\ \A g \in Handlers \ {h} : req'[g] = req[g]
    BY <1>0, <1>2, IsDone
  <2> QED BY <2>1 DEF At, Idle
<1>4. Photos' \subseteq Photos \cup {e} /\ Pending' \subseteq Pending \ {e}
  BY <1>1, <1>2 DEF Photos, Pending, Inv, TypeOK
<1>5. Repeats = {} => e \in Pending
  BY <1>0, <1>1 DEF FileIsTrue, Pending, About, At, FilePlaces, Inv, TypeOK
<1>6. IsFiniteSet(Photos) /\ IsFiniteSet(Pending)
  BY SlotsAreNumbers
<1> HIDE DEF e
<1>7. /\ IsFiniteSet(Photos \cup {e}) /\ Cardinality(Photos \cup {e}) <= Cardinality(Photos) + 1
      /\ Cardinality(Photos) \in Nat
  <2>1. Cardinality(Photos) \in Nat
    BY <1>6, FS_CardinalityType
  <2>2. /\ IsFiniteSet(Photos \cup {e})
        /\ Cardinality(Photos \cup {e}) = IF e \in Photos THEN Cardinality(Photos) ELSE Cardinality(Photos) + 1
    BY <1>6, FS_AddElement
  <2> QED BY <2>1, <2>2
<1>8. /\ IsFiniteSet(Pending \ {e}) /\ Cardinality(Pending) \in Nat
      /\ e \in Pending => Cardinality(Pending \ {e}) = Cardinality(Pending) - 1
  BY <1>6, FS_RemoveElement, FS_CardinalityType
<1>9. /\ IsFiniteSet(Photos') /\ Cardinality(Photos') <= Cardinality(Photos \cup {e})
      /\ IsFiniteSet(Pending') /\ Cardinality(Pending') <= Cardinality(Pending \ {e})
  BY <1>4, <1>7, <1>8, FS_Subset
<1>10. Repeats = {} => ReservedSlots' <= ReservedSlots /\ ReservedSlots' \in Nat /\ ReservedSlots \in Nat
  <2>1. /\ Cardinality(Photos') \in Nat /\ Cardinality(Pending') \in Nat
        /\ Cardinality(Photos \cup {e}) \in Nat /\ Cardinality(Pending \ {e}) \in Nat
    BY <1>7, <1>8, <1>9, FS_CardinalityType
  <2> QED BY <1>5, <1>7, <1>8, <1>9, <2>1 DEF ReservedSlots
<1>11. \A s : Cardinality(FilesOf(s)) \in Nat
  BY SlotsAreNumbers
<1>12. ASSUME Repeats = {}, NEW g \in Handlers, At(g, {"registering"})'
       PROVE  ReservedSlots' + Cardinality(FilesOf(req'[g].on)) <= MaxFiles
  <2>1. ReservedSlots + Cardinality(FilesOf(req[g].on)) <= MaxFiles /\ req'[g] = req[g]
    BY <1>3, <1>12 DEF QuotaIsKept
  <2> QED BY <1>10, <1>11, <1>12, <2>1 DEF Setting
<1>13. Repeats = {} => ReservedSlots' <= MaxFiles
  BY <1>10 DEF QuotaIsKept, Setting
<1> QED BY <1>12, <1>13 DEF QuotaIsKept, FilesOf

\* Every other step frees slots or leaves them.
LEMMA OthersKeepQuota ==
  ASSUME Setting, Inv, QuotaIsKept,
         \/ \E h \in Handlers :
              \/ \E f \in Files : LoadComplete(h, f) \/ LoadCancel(h, f)
              \/ StatObject(h) \/ CommitFailed(h) \/ Insert(h) \/ CountRemaining(h)
              \/ DeleteObject(h) \/ CommitCancel(h)
         \/ \E f \in Files :
              \/ Ingested(f) \/ DeletePhoto(f)
              \/ \E c \in Contents : Put(f, c) \/ Label(f, c) \/ PutDies(f, c)
         \/ UNCHANGED vars
  PROVE  QuotaIsKept'
<1>0. RequestsTyped
  BY DEF Inv, UploadsInv
<1>1. ASSUME NEW h \in Handlers,
             \/ \E f \in Files : LoadComplete(h, f) \/ LoadCancel(h, f)
             \/ StatObject(h) \/ CommitFailed(h) \/ Insert(h) \/ CountRemaining(h)
             \/ DeleteObject(h) \/ CommitCancel(h)
      PROVE  QuotaIsKept'
  <2>1. Photos' \subseteq Photos
    BY <1>1 DEF Photos, LoadComplete, LoadCancel, StatObject, CommitFailed, Insert, CountRemaining,
                DeleteObject, CommitCancel
  <2>2. CASE CommitFailed(h) \/ CommitCancel(h)
    <3>1. req[h].on \in Files
      BY <1>0, <2>2 DEF CommitFailed, CommitCancel, RequestsTyped, At, FilePlaces
    <3>2. \A f \in Files : file'[f] = file[f] \/ file'[f].state \in {"failed", "cancelled"}
      BY <2>2, <3>1 DEF CommitFailed, CommitCancel, Inv, TypeOK
    <3>3. Pending' \subseteq Pending
      BY <3>2 DEF Pending
    <3>4. req'[h] = Idle /\ \A g \in Handlers \ {h} : req'[g] = req[g]
      BY <1>0, <2>2, IsDone DEF CommitFailed, CommitCancel
    <3>5. \A g \in Handlers : At(g, {"registering"})' => At(g, {"registering"}) /\ req'[g].on = req[g].on
      BY <3>4 DEF At, Idle
    <3> QED BY <2>1, <3>3, <3>5, QuotaWhereFreed
  <2>3. CASE ~(CommitFailed(h) \/ CommitCancel(h))
    <3>1. UNCHANGED file
      BY <1>1, <2>3 DEF LoadComplete, LoadCancel, StatObject, Insert, CountRemaining, DeleteObject
    <3>2. \A g \in Handlers \ {h} : req'[g] = req[g]
      BY <1>0, <1>1, <2>3 DEF LoadComplete, LoadCancel, Begin, StatObject, Insert, Done, Go, CountRemaining,
                              DeleteObject, RequestsTyped
    <3>3. ~At(h, {"registering"})'
      <4>1. CASE \E f \in Files : LoadComplete(h, f) \/ LoadCancel(h, f)
        BY <1>0, <4>1 DEF LoadComplete, LoadCancel, Begin, RequestsTyped, At, Idle
      <4>2. CASE StatObject(h) \/ CountRemaining(h)
        BY <1>0, <4>2 DEF StatObject, CountRemaining, RequestsTyped, Requests, At
      <4>3. CASE DeleteObject(h)
        BY <1>0, <4>3, Goes DEF DeleteObject, At
      <4>4. CASE Insert(h)
        <5>1. Done(h) \/ Go(h, "inserted")
          BY <4>4 DEF Insert
        <5>2. CASE Done(h)
          BY <1>0, <5>2, IsDone DEF At, Idle
        <5>3. CASE Go(h, "inserted")
          <6>1. req'[h].at = "inserted"
            BY <1>0, <5>3, Goes
          <6> QED BY <6>1 DEF At
        <5> QED BY <5>1, <5>2, <5>3
      <4> QED BY <1>1, <2>3, <4>1, <4>2, <4>3, <4>4
    <3>4. Pending' \subseteq Pending
      BY <3>1 DEF Pending
    <3>5. \A g \in Handlers : At(g, {"registering"})' => At(g, {"registering"}) /\ req'[g].on = req[g].on
      BY <3>2, <3>3 DEF At
    <3> QED BY <2>1, <3>4, <3>5, QuotaWhereFreed
  <2> QED BY <2>2, <2>3
<1>2. ASSUME NEW f \in Files,
             Ingested(f) \/ DeletePhoto(f) \/ \E c \in Contents : Put(f, c) \/ Label(f, c) \/ PutDies(f, c)
      PROVE  QuotaIsKept'
  <2>1. UNCHANGED <<file, req>>
    BY <1>2 DEF Ingested, DeletePhoto, Put, Label, PutDies
  <2>2. Photos' \subseteq Photos
    <3>1. \A g \in Files : photo'[g].rows = photo[g].rows /\ (photo[g].deleted => photo'[g].deleted)
      <4>1. photo \in [Files -> PhotoRows]
        BY DEF Inv, TypeOK, PhotoRows
      <4>2. CASE Ingested(f)
        BY <4>1, <4>2 DEF Ingested, PhotoRows
      <4>3. CASE DeletePhoto(f)
        BY <4>1, <4>3 DEF DeletePhoto, PhotoRows
      <4>4. CASE \E c \in Contents : Put(f, c) \/ Label(f, c) \/ PutDies(f, c)
        BY <4>4 DEF Put, Label, PutDies
      <4> QED BY <1>2, <4>2, <4>3, <4>4
    <3> QED BY <3>1 DEF Photos
  <2> QED BY <2>1, <2>2, QuotaWhereFreed DEF Pending, At
<1>3. CASE UNCHANGED vars
  BY <1>3, QuotaWhereFreed DEF vars, Photos, Pending, At
<1> QED BY <1>1, <1>2, <1>3

\* Photos and pending uploads together never exceed the quota of the trip, however
\* many requests register, complete, cancel and delete files at once: where each
\* client waits for its answers (main.py, create_upload_session and
\* complete_upload_file).
THEOREM QuotaHolds ==
  ASSUME Setting
  PROVE  Spec => []PhotoLimit
<1>1. Init => Inv /\ QuotaIsKept
  <2> SUFFICES ASSUME Init PROVE Inv /\ QuotaIsKept
    OBVIOUS
  <2>1. Photos = {} /\ Pending = {} /\ \A h \in Handlers : ~At(h, {"registering"})
    BY DEF Init, Photos, Pending, At, Idle
  <2>2. ReservedSlots = 0
    BY <2>1, FS_EmptySet DEF ReservedSlots
  <2> QED BY <2>1, <2>2, InitInv DEF QuotaIsKept, Setting
<1>2. Inv /\ QuotaIsKept /\ [Next]_vars => (Inv /\ QuotaIsKept)'
  <2> SUFFICES ASSUME Inv, QuotaIsKept, [Next]_vars PROVE QuotaIsKept'
    BY InvKept
  <2> QED BY CountKeepsQuota, RegisterKeepsQuota, CompleteKeepsQuota, OthersKeepQuota DEF Next
<1>3. Inv /\ QuotaIsKept => PhotoLimit
  BY DEF QuotaIsKept, ReservedSlots, PhotoLimit
<1> QED BY <1>1, <1>2, <1>3, PTL DEF Spec

\* However often and with whatever overlap a client repeats the completion of a
\* file, the trip gets one media item of it: the key of its original is unique.
THEOREM OnePhoto ==
  ASSUME Setting
  PROVE  Spec => []OnePhotoPerFile
<1>1. Inv => OnePhotoPerFile
  BY DEF Inv, UploadsInv, KeysAreUnique
<1> QED BY <1>1, UploadsAreTrue, PTL

\* A completed session has a photo of every file whose client waits for its
\* answers: the last of its files to be completed saw all the others completed.
THEOREM CompletedSessions ==
  ASSUME Setting
  PROVE  Spec => []CompletedSessionIsTrue
<1>1. Inv => CompletedSessionIsTrue
  BY DEF Inv, UploadsInv, SessionsAreTrue, FileIsTrue, CompletedSessionIsTrue, FilesOf
<1> QED BY <1>1, UploadsAreTrue, PTL

\* A photo that waits for its ingest has its original in the store, whole.
THEOREM OriginalsWait ==
  ASSUME Setting
  PROVE  Spec => []WaitingPhotosHaveTheirOriginal
<1>1. Inv => WaitingPhotosHaveTheirOriginal
  BY DEF Inv, UploadsInv, FileIsTrue, HasOriginal, WaitingPhotosHaveTheirOriginal, Photos
<1> QED BY <1>1, UploadsAreTrue, PTL
===============================================================================
