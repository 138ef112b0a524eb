SPECIFICATION FairSpec
CONSTANTS
  Suites = {"ts", "go", "rs"}
  Always = {"ts"}
  MaxEdits = 3
  MaxStops = 3
INVARIANT StampedTreeIsWhole
PROPERTIES GradesWhatItShould Recovers
CHECK_DEADLOCK FALSE
