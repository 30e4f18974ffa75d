SPECIFICATION FairRadarSpec
CONSTANTS
  s1 = s1
  s2 = s2
  p1 = p1
  p2 = p2
  TimeSlot = {s1, s2}
  Poll = {p1, p2}
  Ladder = {1, 2}
  DetectQ = 1
  Room = {0, 1, 2}
  Modes = {"ladder", "fast", "deep", "pipeline", "detect"}
  Enough = 2
  MaxMoves = 1
  MaxFaults = 2
INVARIANT RadarTypeOK
PROPERTIES AnnouncedRose Settles
