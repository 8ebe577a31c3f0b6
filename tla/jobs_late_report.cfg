SPECIFICATION Spec
CONSTANTS
  ingest = ingest
  publication = publication
  w1 = w1
  w2 = w2
  Jobs <- OneJob
  RetriableJobs <- NoRetry
  Priority <- PublicationFirst
  Workers <- TwoWorkers
  MaxAttempts = 3
  LockOutlivesHandlers = FALSE
PROPERTY OutcomeIsFinal
