SPECIFICATION Spec
CONSTANTS
  NoRow = NoRow
  LineKeys <- OneKey
  UnitPrice <- OnePrice
  TaxRates <- NoTax
  DefaultTaxRate = 0
  Payments <- OnePayment
  CardFees <- NoFee
  MaxTickets = 2
  MaxOrders = 1
  MaxLines = 1
  MaxQty = 1
  MaxDay = 1
  MaxCrashes = 1
  MaxFailures = 0
  TornHandlers = FALSE
  PrinterWorks = FALSE
INVARIANTS DurableWhenIdle
PROPERTIES OpenOrderIsKept NewIdIsFresh
