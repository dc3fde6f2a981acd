SPECIFICATION Spec
CONSTANTS
  NoRow = NoRow
  LineKeys <- OneKey
  UnitPrice <- OnePrice
  TaxRates <- NoTax
  DefaultTaxRate = 0
  Payments <- OnePayment
  CardFees <- NoFee
  MaxTickets = 2
  MaxOrders = 0
  MaxLines = 1
  MaxQty = 1
  MaxDay = 1
  MaxCrashes = 0
  MaxFailures = 0
  TornHandlers = FALSE
  PrinterWorks = FALSE
PROPERTIES ZReportCoversTheDay
