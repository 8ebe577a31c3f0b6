SPECIFICATION Spec
CONSTANTS
  p1 = p1
  p2 = p2
  w1 = w1
  w2 = w2
  Photos <- TwoPhotos
  Workers <- TwoWorkers
  MaxAttempts = 2
  LockOutlivesHandlers = TRUE
  DelayOutlivesRun = TRUE
PROPERTY LostOnlyByItself
