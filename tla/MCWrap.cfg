\* A package whose discount is divided by products that exceed an int64: cents and
\* 2^63 scaled down by 10^8 (10^16 the word), items of 35 and 100 millions.
CONSTANTS
  None = None
  MaxQuoted = 12000
  MaxMoney = 24000
  Word = 922
  Package <- LargePackages
  Other <- Others
  Sets <- OneOrMore
  Item <- QuoteItems
  Discount <- Discounts
  Extra <- Extras
  TaxRule <- Rules
  Line <- Lines
  Amount <- Deposits
SPECIFICATION Spec
CHECK_DEADLOCK FALSE
INVARIANT
  DiscountsWithinLines
