SPECIFICATION Spec
CONSTANTS
  ingest = ingest
  publication = publication
  w1 = w1
  w2 = w2
  Jobs <- TwoJobs
  RetriableJobs <- RetriedJobs
  Priority <- PublicationFirst
  Workers <- TwoWorkers
  MaxAttempts = 2
  LockOutlivesHandlers = TRUE
SYMMETRY Symmetry
INVARIANTS TypeOK ExclusiveExecution PendingIsClaimable AbandonedIsLocked
PROPERTIES OutcomeIsFinal ImplementsLifecycle
