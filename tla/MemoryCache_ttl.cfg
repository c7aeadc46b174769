SPECIFICATION Spec
CONSTANTS
  Callers = {c1, c2}
  MaxTTL = 2
  None = None
PROPERTIES
  EntryLivesItsTTL
