SPECIFICATION Spec
CONSTANTS
  OldFiles <- AllFiles
  DemoMenu <- Demo
  Plate <- Combo
  Dishes <- AdminDishes
  MaxDishes = 4
  MaxCrashes = 1
  MaxFailures = 1
INVARIANTS SchemaMatchesVersion MenuIsDurable
PROPERTIES MenuSurvivesStart DaemonComesBack
