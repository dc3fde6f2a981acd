SPECIFICATION Spec
CONSTANTS
  NoRow = NoRow
  LineKeys <- TwoKeys
  UnitPrice <- TwoPrices
  TaxRates <- OneTax
  DefaultTaxRate = 0
  Payments <- SplitPayments
  CardFees <- AFee
  MaxTickets = 1
  MaxOrders = 0
  MaxLines = 2
  MaxQty = 1
  MaxDay = 1
  MaxCrashes = 1
  MaxFailures = 1
  TornHandlers = TRUE
  PrinterWorks = FALSE
INVARIANTS TypeOK SettledBalance
