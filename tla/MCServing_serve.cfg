SPECIFICATION Spec
CONSTANTS
  Updaters = {"admin1", "admin2"}
  Fields <- NameOnly
  Requests <- TwoRequests
  Blank = ""
  Torn = "torn"
  Defaults <- NewInstall
  MaxPolls = 2
  MaxStarts = 2
INVARIANTS NothingIsCutOff WatchTellsTheJob HeaderIsTheName
PROPERTIES ShutdownEnds WatchEnds
CHECK_DEADLOCK FALSE
