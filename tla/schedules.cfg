SPECIFICATION SchedulesSpec
CONSTANTS
  publication = publication
  photo = photo
  corrupt = corrupt
  p1 = p1
  p2 = p2
  p3 = p3
  w1 = w1
  w2 = w2
  Media = {photo, corrupt}
  Invalid = {corrupt}
  Workers = {w1, w2}
  MaxAttempts = 2
  LockOutlivesHandlers = TRUE
  UserRetries = FALSE
  FaultPoints <- Tolerated
INVARIANTS QueuedIngestCanSucceed OutcomesAgree LateClaimsAreCounted NoneForgotten
PROPERTIES ReadyStays ImplementsQueue WorkSettles ReadyGetsPlaced
