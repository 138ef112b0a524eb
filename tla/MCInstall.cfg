SPECIFICATION FairSpec
CONSTANTS
  Names = {"", "t"}
  Threads = {t1, t2}
  Given <- SomeBags
  MaxCalls = 4
INVARIANT WholeOrUntouched
PROPERTIES ParsesAsAsked EveryCallReturns
CHECK_DEADLOCK FALSE
