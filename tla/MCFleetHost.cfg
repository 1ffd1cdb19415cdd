\* Two calls on one agent, a status call and two ./fleet commands.
SPECIFICATION HostFairSpec
CONSTANTS
  Agents = {a1}
  Users = {u1}
  Requests = {r1, r2}
  NoUser = NoUser
  NoClaim = NoClaim
  MaxCrashes = 1
  Readers = {s1}
  MaxCmds = 2
INVARIANT HostTypeOK
PROPERTY UpKeepsSettledAgents
 
PROPERTY CallsPassCompose
CHECK_DEADLOCK FALSE
