\* Two builds walk two files while a handler writes or removes them.
SPECIFICATION Spec
CONSTANTS
  Files = {f1, f2}
  Slots = {s1}
  Builders = {b1, b2}
  Writers = {w1}
  Missing = Missing
  Nobody = Nobody
  TTL = 2
  MaxTime = 2
  MaxVersion = 1
SYMMETRY Symm
INVARIANT TypeOK
INVARIANT BoundedStaleness
PROPERTY QuietInvalidateSticks
CHECK_DEADLOCK FALSE
