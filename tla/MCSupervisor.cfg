\* Two ups, on one port or two, and one down on the same files; agents die.
SPECIFICATION FairSpec
CONSTANTS
  Sups = {s1, s2}
  Agents = {a1, a2}
  Ports = {p1, p2}
  Downs = {d1}
  Absent = Absent
  Empty = Empty
INVARIANT TypeOK
INVARIANT StopLeavesNoAgent
INVARIANT StacksDoNotOverlap
INVARIANT FilesNameTheSupervisor
PROPERTY DeadAgentStopsStack
CHECK_DEADLOCK FALSE
