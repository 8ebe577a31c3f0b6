SPECIFICATION Spec
CONSTANTS
  p1 = p1
  p2 = p2
  p3 = p3
  Photos = {p1, p2, p3}
  Taken <- MCTaken
  By <- MCBy
  TakenAt <- MCTakenAt
  Positions <- MCPositions
  DayLength = 6
  MomentGap = 1
  StopGap = 3
  BracketGap = 2
  MinAreaStops = 2
  StopIds <- MCStopIds
  MomentIds <- MCMomentIds
  AreaIds <- MCAreaIds
  MaxEdits = 2
  MaxRuns = 2
CHECK_DEADLOCK FALSE
INVARIANT PhotosCanBeHidden
