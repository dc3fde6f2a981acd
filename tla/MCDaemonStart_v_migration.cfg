SPECIFICATION Spec
CONSTANTS
  OldFiles <- OrphanFiles
  DemoMenu <- Demo
  Plate <- Combo
  Dishes <- AdminDishes
  MaxDishes = 4
  MaxCrashes = 0
  MaxFailures = 0
PROPERTIES UpgradesAreSafe
