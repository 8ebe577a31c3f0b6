--------------------------- MODULE MCProcessingJobs ---------------------------
(* Values for the constants of ProcessingJobs.                             *)
EXTENDS ProcessingJobs, TLC

CONSTANTS ingest, publication, w1, w2

TwoJobs == {ingest, publication}
OneJob == {publication}
RetriedJobs == {ingest}
NoRetry == {}
TwoWorkers == {w1, w2}

\* A publication is inserted with priority 40, an ingest with the default.
PublicationFirst == [j \in Jobs |-> IF j = publication THEN 40 ELSE 100]

Symmetry == Permutations(Workers)
=============================================================================
