\* Three calls on two agents for two users, and one adapter crash.
SPECIFICATION Spec
CONSTANTS
  Agents = {a1, a2}
  Users = {u1, u2}
  Requests = {r1, r2, r3}
  NoUser = NoUser
  NoClaim = NoClaim
  MaxCrashes = 1
SYMMETRY Symm
INVARIANT TypeOK
INVARIANT QuietAgentHasNoDrift
PROPERTY AloneOkIsExact
PROPERTY ImplementsRegister
PROPERTY RemountIsWanted
CHECK_DEADLOCK FALSE
