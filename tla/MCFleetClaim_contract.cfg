\* Two overlapping calls on one agent against the documented contract.
SPECIFICATION Spec
CONSTANTS
  Agents = {a1}
  Users = {u1, u2}
  Requests = {r1, r2}
  NoUser = NoUser
  NoClaim = NoClaim
  MaxCrashes = 0
SYMMETRY Symm
INVARIANT OkClaimWasMounted
CHECK_DEADLOCK FALSE
