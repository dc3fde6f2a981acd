SPECIFICATION RegistersSpec
CONSTANTS
  NoRow = NoRow
  Regs = {r1, r2}
  LineKeys <- OneKey
  UnitPrice <- OnePrice
  TaxRates <- Nothing
  DefaultTaxRate = 0
  Payments <- Nothing
  CardFees <- Nothing
  MaxTickets = 2
  MaxOrders = 1
  MaxLines = 1
  MaxQty = 2
  MaxDay = 1
  MaxCrashes = 0
  MaxFailures = 0
  TornHandlers = FALSE
  PrinterWorks = TRUE
  MaxTaps = 6
  MaxJobs = 2
SYMMETRY RegisterSymmetry
INVARIANTS ScreenIsTicket SoldIsCooked
CHECK_DEADLOCK FALSE
