\* Three requests for one name, both layouts, an owner before and after the
\* directory .git or local and the one named user.
SPECIFICATION Spec
CONSTANTS
  Requests = {r1, r2, r3}
  Layouts = {TRUE, FALSE}
  NOwners = 3
  Skipped = {2}
  UserDir = 3
  MaxCrashes = 1
SYMMETRY Symm
INVARIANT TypeOK
INVARIANT WrittenIsKept
 
 
