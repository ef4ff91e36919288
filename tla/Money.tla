--------------------------------- MODULE Money ---------------------------------
(***************************************************************************)
(* The arithmetic of prices: packages/service.go, quote/service.go and     *)
(* billing/money.go.  An amount is a number of cents; a quantity of an     *)
(* invoice line is in thousandths and its unit price in ten-thousandths,   *)
(* the precisions roundQuantity and calculateLine keep.                    *)
(***************************************************************************)
EXTENDS Integers, Sequences, FiniteSets, Sums

CONSTANTS
  MaxQuoted,   \* the cents the columns of a quote hold, NUMERIC(12,2), scaled down
  MaxMoney,    \* and those of an invoice, NUMERIC(14,2), a hundred times as many
  Word         \* 2^63, scaled down: an int64 is in -Word .. Word - 1

ASSUME WordAssumption == Word \in Nat \ {0}
ASSUME MaxMoneyAssumption == MaxQuoted \in Nat /\ MaxMoney \in Nat /\ 2 * MaxQuoted <= MaxMoney

\* math.Round(a / b), for a >= 0 and b > 0: halves go up.
Round(a, b) == (2 * a + b) \div (2 * b)

Total(s) == SumOver(s, DOMAIN s)
Least(x, y) == IF x <= y THEN x ELSE y
Field(s, f) == [i \in DOMAIN s |-> s[i][f]]

-----------------------------------------------------------------------------
(* Packages.  An item has a quantity and a unit price. *)

Gross(item) == item.quantity * item.price
Due(item) == Gross(item) - item.discount   \* of a quote's item, which has a discount

CalculatedPrice(pack) == Total([i \in DOMAIN pack.items |-> Gross(pack.items[i])])
EffectivePrice(pack) == IF pack.mode = "FIXED" THEN pack.fixed ELSE CalculatedPrice(pack)

MaxUnits == 10000   \* of a resource, in one item of a quote

PackageQuantityLimit(items) ==
  LET candidates == {100} \cup {MaxUnits \div items[i].quantity : i \in DOMAIN items}
      limit == CHOOSE c \in candidates : \A d \in candidates : c <= d
  IN  IF limit < 1 THEN 1 ELSE limit

\* An integer as an int64 holds it, and Go's division, which rounds towards zero.
Wrapped(x) == ((x + Word) % (2 * Word)) - Word
Quo(a, b) == IF a >= 0 THEN a \div b ELSE -((-a) \div b)

\* The proportion of the discount that goes to the i-th item: the product wraps.
Proportion(gross, discount, i) == Quo(Wrapped(discount * gross[i]), Total(gross))

\* What is left of the discount after each item took its proportion of it, and the
\* last one the rest, none of them more than it costs.
Left(gross, discount) ==
  LET left[i \in 0 .. Len(gross)] ==
        IF i = 0 THEN discount
        ELSE left[i - 1] - Least(gross[i], IF i = Len(gross) THEN left[i - 1]
                                  ELSE Least(left[i - 1], Proportion(gross, discount, i)))
  IN  left

\* What of the rest the items from each one on cannot take: backwards, each takes
\* what it still costs.
Over(gross, share, rest) ==
  LET over[i \in 1 .. Len(gross) + 1] ==
        IF i = Len(gross) + 1 THEN rest
        ELSE over[i + 1] - Least(over[i + 1], gross[i] - share[i])
  IN  over

\* Mutant of AllocateDiscount: what the last item cannot take is dropped.
AllocateDiscountOnce(gross, discount) ==
  LET left == Left(gross, discount)
  IN  [i \in 1 .. Len(gross) |-> IF Total(gross) = 0 THEN 0 ELSE left[i - 1] - left[i]]

\* The discount of each item: its proportion, the rest to the last one, and what
\* that cannot take to the items before it, backwards.
AllocateDiscount(gross, discount) ==
  LET n == Len(gross)
      left == Left(gross, discount)
      share == [i \in 1 .. n |-> left[i - 1] - left[i]]
      over == Over(gross, share, left[n])
  IN  IF Total(gross) = 0 THEN [i \in 1 .. n |-> 0]
      ELSE [i \in 1 .. n |-> share[i] + over[i + 1] - over[i]]

\* buildQuoteTemplate: k packages as the items, discounts and extra charges of a quote.
QuoteTemplate(pack, k) ==
  LET gross == [i \in DOMAIN pack.items |-> k * Gross(pack.items[i])]
      calculated == k * CalculatedPrice(pack)
      effective == k * EffectivePrice(pack)
      discounts == IF effective < calculated THEN AllocateDiscount(gross, calculated - effective)
                   ELSE [i \in DOMAIN gross |-> 0]
  IN  [items |-> [i \in DOMAIN gross |-> [quantity |-> k * pack.items[i].quantity,
                                           price |-> pack.items[i].price,
                                           discount |-> discounts[i]]],
       extra |-> IF effective > calculated THEN effective - calculated ELSE 0]

\* The products by which k packages divide their discount do not wrap.
ProductsFit(pack, k) ==
  LET discount == k * CalculatedPrice(pack) - k * EffectivePrice(pack)
  IN  \A i \in DOMAIN pack.items : discount * (k * Gross(pack.items[i])) < Word

\* Mutant of PreparedLine: the price of a unit is rounded down.
PreparedLineFloor(gross, net, quantity) ==
  [quantity |-> quantity, price |-> gross \div quantity, discount |-> (gross \div quantity) * quantity - net]

\* The line of one resource: what its units cost in all the packages, divided
\* among them and rounded up, and the discount that brings it back to the net.
PreparedLine(gross, net, quantity) ==
  LET unit == (gross + quantity - 1) \div quantity
      over == unit * quantity - net
  IN  [quantity |-> quantity, price |-> unit, discount |-> IF over < 0 THEN 0 ELSE over]

\* prepare of a public request: the templates of its packages in one list of lines,
\* one for each resource.  The i-th item of every package is of the i-th resource.
Prepare(templates) ==
  LET holds(r) == {i \in DOMAIN templates : r \in DOMAIN templates[i].items}
      gross(r) == Total([i \in holds(r) |-> Gross(templates[i].items[r])])
      net(r) == Total([i \in holds(r) |-> Due(templates[i].items[r])])
      quantity(r) == Total([i \in holds(r) |-> templates[i].items[r].quantity])
      resources == UNION {DOMAIN templates[i].items : i \in DOMAIN templates}
  IN  [items |-> [r \in resources |-> PreparedLine(gross(r), net(r), quantity(r))],
       extra |-> Total(Field(templates, "extra"))]

-----------------------------------------------------------------------------
(* Quotes.  An item also has a discount. *)

Subtotal(items) == Total([i \in DOMAIN items |-> Due(items[i])])

QuoteValid(items, discount, extra) ==
  /\ Len(items) \in 1 .. 100
  /\ \A i \in DOMAIN items : items[i].quantity \in 1 .. MaxUnits /\ items[i].discount \in 0 .. Gross(items[i])
  /\ discount \in 0 .. Subtotal(items) /\ extra >= 0

QuoteTotal(items, discount, extra) == Subtotal(items) - discount + extra

\* The INSERTs of a quote and its items fail if an amount exceeds its column.
QuoteFits(items, discount, extra) ==
  /\ \A i \in DOMAIN items :
       items[i].price <= MaxQuoted /\ items[i].discount <= MaxQuoted /\ Due(items[i]) <= MaxQuoted
  /\ Subtotal(items) <= MaxQuoted /\ extra <= MaxQuoted
  /\ QuoteTotal(items, discount, extra) <= MaxQuoted

-----------------------------------------------------------------------------
(* Invoices *)

LineGross(line) == Round(line.quantity * line.price, 100000)

MaxQuantity == 100000000   \* thousandths, of an invoice line

LineValid(line) ==
  /\ line.quantity \in 1 .. MaxQuantity /\ line.price >= 0
  /\ LineGross(line) <= MaxMoney
  /\ line.discount \in 0 .. LineGross(line)

\* calculateLine: net amount and tax of a valid line, under a tax rule whose
\* rate is in hundredths of a percent.
CalculateLine(line, rule, includesTax) ==
  LET base == LineGross(line) - line.discount
      taxed == rule.category = "TAXABLE" /\ rule.rate > 0
      net == IF taxed /\ includesTax THEN Round(base * 10000, 10000 + rule.rate) ELSE base
      tax == CASE ~ taxed -> 0
               [] taxed /\ includesTax -> base - net
               [] OTHER -> Round(net * rule.rate, 10000)
  IN  [net |-> net, tax |-> tax, total |-> net + tax, category |-> rule.category]

AggregateInvoice(lines) ==
  LET net(category) == Total([i \in DOMAIN lines |->
                               IF lines[i].category = category THEN lines[i].net ELSE 0])
  IN  [taxable |-> net("TAXABLE"), exempt |-> net("EXEMPT"), nonTaxable |-> net("NON_TAXABLE"),
       tax |-> Total(Field(lines, "tax")), total |-> Total(Field(lines, "total"))]

\* Mutant of AllocateHeaderDiscount: every share is rounded down, and no more.
AllocateHeaderDiscountFloor(bases, discount) ==
  LET all == Total(bases)
  IN  [i \in DOMAIN bases |-> IF all = 0 THEN 0 ELSE (Least(discount, all) * bases[i]) \div all]

\* The discount of the document on each line: its proportion rounded down, and
\* a cent more for the largest remainders, the first lines first, until the sum
\* is the discount.
AllocateHeaderDiscount(bases, discount) ==
  LET all == Total(bases)
      given == Least(discount, all)
      floor == [i \in DOMAIN bases |-> (given * bases[i]) \div all]
      rest == [i \in DOMAIN bases |-> (given * bases[i]) % all]
      rank(i) == Cardinality({j \in DOMAIN bases : rest[j] > rest[i] \/ (rest[j] = rest[i] /\ j < i)})
      cents(i) == Cardinality({c \in 0 .. (given - Total(floor) - 1) : c % Len(bases) = rank(i)})
  IN  [i \in DOMAIN bases |-> IF given = 0 THEN 0 ELSE floor[i] + cents(i)]

\* CreateInvoice of a quote or reservation: its lines with the header's discount
\* on them, and its extra charges as a line.
SourceLines(source) ==
  LET bases == [i \in DOMAIN source.items |-> Due(source.items[i])]
      share == AllocateHeaderDiscount(bases, source.discount)
      lines == [i \in DOMAIN bases |-> [quantity |-> 1000 * source.items[i].quantity,
                                         price |-> 100 * source.items[i].price,
                                         discount |-> source.items[i].discount + share[i]]]
  IN  IF source.extra > 0
      THEN Append(lines, [quantity |-> 1000, price |-> 100 * source.extra, discount |-> 0])
      ELSE lines

InvoiceValid(lines, rules, includesTax) ==
  /\ Len(lines) \in 1 .. 200
  /\ \A i \in DOMAIN lines : LineValid(lines[i])
  /\ AggregateInvoice([i \in DOMAIN lines |-> CalculateLine(lines[i], rules[i], includesTax)]).total
       <= MaxMoney

InvoiceAmounts(lines, rules, includesTax) ==
  AggregateInvoice([i \in DOMAIN lines |-> CalculateLine(lines[i], rules[i], includesTax)])
=============================================================================
