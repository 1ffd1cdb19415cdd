\* Four commands on two agent names; port 2 can be the adapter's, an agent's or
\* the one that is picked.
SPECIFICATION Spec
CONSTANTS
  Commands = {c1, c2, c3, c4}
  Names = {n1, n2}
  Ports = {1, 2, 3, 4, 5, 6, 7}
  Given = {2}
  DefaultPort = 1
  FirstPort = 2
  AnyPort = AnyPort
  Absent = Absent
  Blank = Blank
  Unknown = Unknown
  Nobody = Nobody
SYMMETRY Symm
INVARIANT TypeOK
 
INVARIANT ListedHasHome
 
CHECK_DEADLOCK FALSE
