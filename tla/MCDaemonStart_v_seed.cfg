SPECIFICATION Spec
CONSTANTS
  OldFiles <- UnflaggedFiles
  DemoMenu <- Demo
  Plate <- Combo
  Dishes <- AdminDishes
  MaxDishes = 4
  MaxCrashes = 0
  MaxFailures = 0
PROPERTIES StartKeepsTheMenu
