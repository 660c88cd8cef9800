SPECIFICATION GuardSpec
CONSTANTS
  g1 = g1
  g2 = g2
  Absent = Absent
  Guard <- MCGuard
  Tree <- MCTree
  EntrySize <- MCEntrySize
  MaxEntries = 2
  MaxBytes = 4
  MaxDecisions = 4
  MaxLogFails = 1
INVARIANT LogKeepsLatest
PROPERTY NeverSilent
