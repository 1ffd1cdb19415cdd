\* Three requests of every kind, two rebinds.
SPECIFICATION LinkSpec
CONSTANTS
  Users = {u1, u2}
  Repos <- Everyones
  Requests = {r1, r2, r3}
  Kinds = {"write", "commit", "git", "pr"}
  Bare = Bare
  NoEntry = NoEntry
  Plain = Plain
  MaxBinds = 2
SYMMETRY Symm
INVARIANT LinkTypeOK
INVARIANT WriteIsKept
PROPERTY LoneCommitIsComplete
CHECK_DEADLOCK FALSE
