SPECIFICATION Spec
CONSTANTS
  NoRow = NoRow
  LineKeys <- OneKey
  UnitPrice <- OnePrice
  TaxRates <- NoTax
  DefaultTaxRate = 2500
  Payments <- Tenders
  CardFees <- FlatFee
  HistoryDays = 5
  MaxTickets = 1
  MaxOrders = 0
  MaxLines = 1
  MaxQty = 1
  MaxDay = 1
  MaxCrashes = 0
  MaxFailures = 0
  TornHandlers = FALSE
  PrinterWorks = FALSE
INVARIANTS CollectedIsWhatStayed
