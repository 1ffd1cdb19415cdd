\* One task stream against its documentation.
SPECIFICATION Spec
CONSTANTS
  Requests = {1}
  Mixes <- Tasks
  Workers = 1
  MaxDeltas = 2
  MaxTools = 1
INVARIANT TaskShowsAllText
CHECK_DEADLOCK FALSE
