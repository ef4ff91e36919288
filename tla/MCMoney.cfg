\* Prices from packages to quotes and invoices, and security deposits.
CONSTANTS
  None = None
  MaxQuoted = 12000
  MaxMoney = 24000
  Word = 50000000
  Package <- Packages
  Other <- Others
  Sets <- OneOrMore
  Item <- QuoteItems
  Discount <- Discounts
  Extra <- Extras
  TaxRule <- Rules
  Line <- Lines
  Amount <- Deposits
SPECIFICATION Spec
CHECK_DEADLOCK FALSE
INVARIANTS
  TemplateIsQuotable
  RequestCostsItsPackages
  InvoiceHonoursQuote
PROPERTIES
  DepositsAddUp
