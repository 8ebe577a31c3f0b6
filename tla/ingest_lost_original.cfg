SPECIFICATION Spec
CONSTANTS
  photo = photo
  w1 = w1
  Media <- OnePhoto
  Invalid <- NoneInvalid
  Workers <- OneWorker
  MaxAttempts = 2
  LockOutlivesHandlers = TRUE
  UserRetries = FALSE
  FaultPoints <- AtCommit
INVARIANT QueuedIngestCanSucceed
CHECK_DEADLOCK FALSE
