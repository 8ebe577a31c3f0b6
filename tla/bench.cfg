SPECIFICATION BenchSpec
CONSTANTS
  ann = ann
  bob = bob
  t1 = t1
  t2 = t2
  i1 = i1
  i2 = i2
  h1 = h1
  h2 = h2
  h3 = h3
  f1 = f1
  f2 = f2
  f3 = f3
  s1 = s1
  s2 = s2
  p1 = p1
  p2 = p2
  p3 = p3
  p4 = p4
  p5 = p5
  canon = canon
  nikon = nikon
  NoDevice = NoDevice
  Nobody = Nobody
  Users = {ann, bob}
  Trips = {t1, t2}
  Invitations = {i1, i2}
  InvitationOf <- OneInvitationEach
  Handlers = {h1, h2}
  MaxTrips = 1
  MaxUses = 2
  MaxRows = 3
CHECK_DEADLOCK FALSE
SYMMETRY Symmetry
INVARIANTS
  RosterIsTrue UploadsHold AreasHold GroupsAndClocksHold OneUpdateRuns PagesHold
  ReadyHasDerivatives DeletedOriginalIsGone OriginalLeavesAfterDerivatives
PROPERTIES RevokedAdmitsNobody ChoicesSurviveAnalysis
