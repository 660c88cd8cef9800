SPECIFICATION Spec
CONSTANTS
  explore = explore
  memory = memory
  research = research
  u1 = u1
  u2 = u2
  u3 = u3
  prose = prose
  blank = blank
  None = None
  Omr = Omr
  Legacy = Legacy
  Foreign = Foreign
  Profile <- MCProfile
  Ships <- MCShips
  UserFile <- MCUserFile
  TextOf <- MCTextOf
  MaxEdits = 2
  MaxFails = 1
  MaxDeaths = 1
SYMMETRY SameText
INVARIANT UninstallGivesBack NothingOrphaned HookClaimed UninstallResumes
CHECK_DEADLOCK FALSE
