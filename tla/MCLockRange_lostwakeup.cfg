SPECIFICATION FairSpec
CONSTANTS
  Threads = {t1, t2, t3}
  Writers = {t1, t2, t3}
  Slots = {1}
  U64Max = 3
  Ranges <- Ranges_
  Waits = {"kForever", "deadline", "no_wait"}
  Null = Null
PROPERTY
  BlocksUntilGrantable
