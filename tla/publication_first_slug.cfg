SPECIFICATION MCSpec
CONSTANTS
  p1 = p1
  p2 = p2
  t1 = t1
  t2 = t2
  a1 = a1
  c1 = c1
  c2 = c2
  w1 = w1
  w2 = w2
  Photos <- TwoPhotos
  Stops <- TwoStops
  Areas <- OneArea
  Stories <- TwoStories
  KeyOf <- OwnKeys
  Changing <- OnePhoto
  MaxVersions = 2
  Clients <- TwoClients
  Workers <- TwoWorkers
  MaxAttempts = 2
  MaxCrashes = 1
  TakenOver <- FirstTakenOver
SYMMETRY Symmetry
INVARIANT AddressesWork
CHECK_DEADLOCK FALSE
