------------------------------ MODULE BlobStores ------------------------------
(* The blob stores behind one interface: the local store, which keeps an     *)
(* object in a file and its checksum in a sidecar beside it, and the OCI     *)
(* store, which is written either through the API or directly by the browser *)
(* with a pre-authenticated request.  A content stands for its bytes: two    *)
(* contents differ in their checksum, and only some differ in their size.    *)
EXTENDS Naturals

Nothing == "nothing"
Contents == {"photo", "other", "short", "long"}

DeclaredSize == 2
Size(c) == CASE c = "short" -> 1 [] c = "long" -> 3 [] OTHER -> DeclaredSize

Stores == {"local", "oci_proxy", "oci_direct"}
Blobs == [object : Contents \cup {Nothing}, sum : Contents \cup {Nothing}]
NoBlob == [object |-> Nothing, sum |-> Nothing]

\* A grant names its object and a maximal size.  The API enforces the size
\* while it streams the body into the store; a pre-authenticated request
\* carries no limit, and the bucket takes what the browser sends.
ThroughApi(store) == store # "oci_direct"
Takes(store, c) == ThroughApi(store) => Size(c) <= DeclaredSize

\* The object after a write.  A local write leaves the sidecar of the object it
\* replaces; the OCI store writes the bytes and their metadata together, and a
\* direct write has no checksum among its metadata.
Replaced(store, b, c) ==
  CASE store = "local" -> [b EXCEPT !.object = c]
    [] store = "oci_proxy" -> [object |-> c, sum |-> c]
    [] store = "oci_direct" -> [object |-> c, sum |-> Nothing]

\* The second step of a local write: the sidecar goes beside what is there.
Labelled(b, c) == [b EXCEPT !.sum = c]
LabelsLater(store) == store = "local"

\* What stat reports: the size of the bytes, and the checksum of the label if
\* there is one and of the bytes if not.
Stat(b) == [size |-> Size(b.object), sum |-> IF b.sum # Nothing THEN b.sum ELSE b.object]
Exists(b) == b.object # Nothing
===============================================================================
