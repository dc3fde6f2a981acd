SPECIFICATION Spec
CONSTANTS
  NoRow = NoRow
  LineKeys <- OneKey
  UnitPrice <- OnePrice
  TaxRates <- NoTax
  DefaultTaxRate = 0
  Payments <- ExactSplit
  CardFees <- FlatFee
  MaxTickets = 1
  MaxOrders = 1
  MaxLines = 1
  MaxQty = 1
  MaxDay = 1
  MaxCrashes = 2
  MaxFailures = 0
  TornHandlers = FALSE
  PrinterWorks = TRUE
INVARIANTS SettledBalance
PROPERTIES SaleIsFinal PrintedIsKept KeepsTheBook
