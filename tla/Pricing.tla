-------------------------------- MODULE Pricing --------------------------------
(***************************************************************************)
(* The money of one rental, from the package it is offered as to the quote,*)
(* the invoice and the security deposit: packages/service.go Create,       *)
(* Update and QuoteTemplate, assistant/service.go Approve, quote/service.go*)
(* Create and Update, billing/service.go CreateInvoice and UpdateInvoice,  *)
(* and the deposits of billing/repository.go.  Who may change a document   *)
(* and when is modelled in Booking, QuotePortal and Billing; here a quote  *)
(* goes from draft to accepted in one step.                                *)
(***************************************************************************)
EXTENDS Money

CONSTANTS
  Package,      \* packages as they are entered: a price mode and items
  Other,        \* packages requested along with one of these
  Sets,         \* how many of the package are asked for
  Item,         \* quote items as they are entered
  Discount,     \* discounts of a whole quote
  Extra,        \* extra charges of a quote
  TaxRule,      \* categories and rates
  Line,         \* invoice lines as they are entered
  Amount,       \* amounts of deposits
  None

PackageEntry ==
  [mode : {"FIXED", "SUM_ITEMS"}, fixed : Int, items : Seq([quantity : Int, price : Int])]

ASSUME PricingAssumption ==
  /\ Package \subseteq PackageEntry /\ None \notin Package
  /\ Item \subseteq Seq([quantity : Int, price : Int, discount : Int])
  /\ Discount \subseteq Int /\ Extra \subseteq Int
  /\ TaxRule \subseteq [category : {"TAXABLE", "EXEMPT", "NON_TAXABLE"}, rate : 0 .. 10000]
  /\ Sets \subseteq Nat \ {0} /\ Amount \subseteq Nat

VARIABLES pack, quote, invoice, deposit
vars == <<pack, quote, invoice, deposit>>

NoQuote == [status |-> "NONE", items |-> <<>>, discount |-> 0, extra |-> 0, total |-> 0]
NoInvoice == [status |-> "NONE", taxable |-> 0, exempt |-> 0, nonTaxable |-> 0, tax |-> 0, total |-> 0]
NoDeposit == [status |-> "NONE", amount |-> 0, returned |-> 0, retained |-> 0]

Init ==
  /\ pack = None /\ quote = NoQuote /\ invoice = NoInvoice /\ deposit = NoDeposit

-----------------------------------------------------------------------------
(* Packages and quotes *)

PackageValid(p) ==
  /\ Len(p.items) \in 1 .. 50
  /\ \A i \in DOMAIN p.items : p.items[i].quantity \in 1 .. MaxUnits /\ p.items[i].price >= 0
  /\ p.mode = "FIXED" => p.fixed >= 0

\* The other packages are on offer: they were saved before.
ASSUME OfferAssumption == \A p \in Other : p \in PackageEntry /\ PackageValid(p)

SavePackage(p) ==
  /\ PackageValid(p)
  /\ pack' = p
  /\ UNCHANGED <<quote, invoice, deposit>>

Draft(items, discount, extra) ==
  [status |-> "DRAFT", items |-> items, discount |-> discount, extra |-> extra,
   total |-> QuoteTotal(items, discount, extra)]

\* The assistant's proposal is approved: the package becomes a draft quote.
ApprovePackage(k) ==
  /\ pack # None /\ quote.status = "NONE"
  /\ k \in 1 .. PackageQuantityLimit(pack.items)
  /\ LET template == QuoteTemplate(pack, k)
     IN  /\ QuoteValid(template.items, 0, template.extra) /\ QuoteFits(template.items, 0, template.extra)
         /\ quote' = Draft(template.items, 0, template.extra)
  /\ UNCHANGED <<pack, invoice, deposit>>

\* Create or update by hand; a discount on top of the items' own.
SaveQuote(items, discount, extra) ==
  /\ quote.status \in {"NONE", "DRAFT"}
  /\ QuoteValid(items, discount, extra) /\ QuoteFits(items, discount, extra)
  /\ quote' = Draft(items, discount, extra)
  /\ UNCHANGED <<pack, invoice, deposit>>

AcceptQuote ==
  /\ quote.status = "DRAFT"
  /\ quote' = [quote EXCEPT !.status = "ACCEPTED"]
  /\ UNCHANGED <<pack, invoice, deposit>>

-----------------------------------------------------------------------------
(* Invoices *)

Invoiced(amounts) ==
  [status |-> "DRAFT", taxable |-> amounts.taxable, exempt |-> amounts.exempt,
   nonTaxable |-> amounts.nonTaxable, tax |-> amounts.tax, total |-> amounts.total]

EveryLine(lines, rule) == [i \in DOMAIN lines |-> rule]

\* Of the accepted quote, under the tenant's default rule.
CreateInvoice(rule, includesTax) ==
  LET lines == SourceLines(quote)
      rules == EveryLine(lines, rule)
  IN  /\ quote.status = "ACCEPTED" /\ invoice.status = "NONE"
      /\ InvoiceValid(lines, rules, includesTax)
      /\ invoice' = Invoiced(InvoiceAmounts(lines, rules, includesTax))
      /\ UNCHANGED <<pack, quote, deposit>>

\* The draft's lines are entered anew, each with a rule of its own.
UpdateInvoice(lines, rules, includesTax) ==
  /\ invoice.status = "DRAFT"
  /\ InvoiceValid(lines, rules, includesTax)
  /\ invoice' = Invoiced(InvoiceAmounts(lines, rules, includesTax))
  /\ UNCHANGED <<pack, quote, deposit>>

-----------------------------------------------------------------------------
(* Security deposits *)

CreateDeposit(amount, received) ==
  /\ deposit.status = "NONE" /\ amount > 0
  /\ deposit' = [NoDeposit EXCEPT !.status = IF received THEN "RECEIVED" ELSE "PENDING",
                                  !.amount = amount]
  /\ UNCHANGED <<pack, quote, invoice>>

ReceiveDeposit ==
  /\ deposit.status = "PENDING"
  /\ deposit' = [deposit EXCEPT !.status = "RECEIVED"]
  /\ UNCHANGED <<pack, quote, invoice>>

SettledStatus(amount, returned, retained) ==
  CASE returned + retained = 0 -> "RECEIVED"
    [] returned + retained \in 1 .. (amount - 1) -> "PARTIALLY_SETTLED"
    [] returned = amount -> "RETURNED"
    [] retained = amount -> "RETAINED"
    [] OTHER -> "SETTLED"

\* Mutant of SettleDeposit: each part is compared with the amount by itself.
SettleDepositEach(returned, retained) ==
  /\ deposit.status \in {"RECEIVED", "PARTIALLY_SETTLED"}
  /\ returned <= deposit.amount /\ retained <= deposit.amount
  /\ deposit' = [deposit EXCEPT !.status = SettledStatus(deposit.amount, returned, retained),
                                !.returned = returned, !.retained = retained]
  /\ UNCHANGED <<pack, quote, invoice>>

\* Totals are cumulative: a partial settlement may be stated again.
SettleDeposit(returned, retained) ==
  /\ deposit.status \in {"RECEIVED", "PARTIALLY_SETTLED"}
  /\ returned + retained <= deposit.amount
  /\ deposit' = [deposit EXCEPT !.status = SettledStatus(deposit.amount, returned, retained),
                                !.returned = returned, !.retained = retained]
  /\ UNCHANGED <<pack, quote, invoice>>

-----------------------------------------------------------------------------
\* A bound: a package, a quote with its invoice, and a deposit are looked at one
\* at a time, for no operation but ApprovePackage reads two of them; the lines of
\* an invoice are entered anew only when the quote had one item.
NoPackage == pack = None /\ deposit = NoDeposit
NoDocument == quote = NoQuote /\ deposit = NoDeposit

Next ==
  \/ NoDocument /\ \E p \in Package : SavePackage(p)
  \/ \E k \in Sets : ApprovePackage(k)
  \/ NoPackage /\ \E items \in Item, d \in Discount, x \in Extra : SaveQuote(items, d, x)
  \/ NoPackage /\ AcceptQuote
  \/ \E rule \in TaxRule, includesTax \in BOOLEAN : CreateInvoice(rule, includesTax)
  \/ /\ Len(quote.items) = 1
     /\ \E l, m \in Line, r, s \in TaxRule, includesTax \in BOOLEAN :
          UpdateInvoice(<<l, m>>, <<r, s>>, includesTax)
  \/ /\ pack = None /\ quote = NoQuote
     /\ \/ \E a \in Amount, received \in BOOLEAN : CreateDeposit(a, received)
        \/ ReceiveDeposit
        \/ \E r, s \in Amount : SettleDeposit(r, s)

Spec == Init /\ [][Next]_vars

-----------------------------------------------------------------------------
(* Properties *)

\* The quote template of a package is a quote the service accepts, whatever the
\* package costs while the products of its discount fit an int64, and however many
\* are asked for within its limit; its total is the price of the packages to the cent.
TemplateIsQuotable ==
  pack # None => \A k \in Sets : k <= PackageQuantityLimit(pack.items) /\ ProductsFit(pack, k) =>
    LET template == QuoteTemplate(pack, k)
    IN  /\ QuoteValid(template.items, 0, template.extra)
        /\ QuoteTotal(template.items, 0, template.extra) = k * EffectivePrice(pack)

\* A public request for two packages is accepted by the tables whatever they cost
\* while the products of their discounts fit an int64, and so is the quote it is
\* converted to: a line's discount is within the line, and the total is the price
\* of the packages to the cent, though resources that both contain at different
\* prices are put on one line.  (The availability check refuses more than 10,000
\* units of one.)
RequestCostsItsPackages ==
  pack # None => \A other \in Other, k \in Sets :
    (k <= PackageQuantityLimit(pack.items) /\ ProductsFit(pack, k) /\ ProductsFit(other, 1)) =>
    LET prepared == Prepare(<<QuoteTemplate(pack, k), QuoteTemplate(other, 1)>>)
    IN  (\A r \in DOMAIN prepared.items : prepared.items[r].quantity <= MaxUnits) =>
          /\ QuoteValid(prepared.items, 0, prepared.extra)
          /\ QuoteTotal(prepared.items, 0, prepared.extra) = k * EffectivePrice(pack) + EffectivePrice(other)

\* packages/service_test.go, of every line of a template: an item whose discount is
\* below zero or above its gross fails as "invalid line discount".  The code
\* violates it when the product of a discount and a price exceeds an int64.
DiscountsWithinLines ==
  pack # None => \A k \in Sets : k <= PackageQuantityLimit(pack.items) =>
    LET items == QuoteTemplate(pack, k).items
    IN  \A i \in DOMAIN items : items[i].discount \in 0 .. Gross(items[i])

\* An accepted quote can always be invoiced: no line's discount exceeds the line
\* after the header's discount is spread over them, and what the columns of the
\* quote hold is within those of the invoice, whatever the tax.  The invoice charges the
\* quote's total to the cent, tax included, or the total and the tax on top; a
\* line's share of the discount is within a cent of its proportion.
InvoiceHonoursQuote ==
  quote.status = "ACCEPTED" => \A rule \in TaxRule, includesTax \in BOOLEAN :
    LET lines == SourceLines(quote)
        rules == EveryLine(lines, rule)
        amounts == InvoiceAmounts(lines, rules, includesTax)
        net == amounts.taxable + amounts.exempt + amounts.nonTaxable
    IN  /\ InvoiceValid(lines, rules, includesTax)
        /\ IF includesTax THEN amounts.total = quote.total ELSE net = quote.total
        /\ amounts.total = net + amounts.tax
        /\ \A i \in DOMAIN quote.items :
             LET share == lines[i].discount - quote.items[i].discount
                 exact == quote.discount * Due(quote.items[i])
                 all == Subtotal(quote.items)
             IN  all > 0 => (share - 1) * all < exact /\ exact < (share + 1) * all

\* What is returned and retained of a deposit never exceeds it; a deposit is
\* closed only when the two add up to it, and a closed one does not change.
DepositsAddUp ==
  [][ /\ deposit'.returned + deposit'.retained <= deposit'.amount
      /\ deposit'.status \in {"RETURNED", "RETAINED", "SETTLED"} =>
           deposit'.returned + deposit'.retained = deposit'.amount
      /\ deposit.status \in {"RETURNED", "RETAINED", "SETTLED"} => deposit' = deposit ]_vars

-----------------------------------------------------------------------------
(* The inductive invariant: it adds to the properties that the package and the  *)
(* quote on file were accepted, that the quote has the total of its items, and  *)
(* that a deposit is a sum of money that is settled in part.                    *)

DepositRecord == [status : {"NONE", "PENDING", "RECEIVED", "PARTIALLY_SETTLED", "RETURNED", "RETAINED", "SETTLED"},
                  amount : Nat, returned : Nat, retained : Nat]

PackageOnFile == pack = None \/ (pack \in Package /\ PackageValid(pack))

DepositWithin ==
  /\ deposit \in DepositRecord
  /\ deposit.returned + deposit.retained <= deposit.amount
  /\ deposit.status # "NONE" => deposit.amount > 0
  /\ deposit.status \in {"RETURNED", "RETAINED", "SETTLED"} => deposit.returned + deposit.retained = deposit.amount

QuoteRecord == [status : {"NONE", "DRAFT", "ACCEPTED"}, items : Seq([quantity : Int, price : Int, discount : Int]),
                discount : Int, extra : Int, total : Int]

QuoteOnFile ==
  /\ quote \in QuoteRecord
  /\ quote.status # "NONE" =>
       /\ QuoteValid(quote.items, quote.discount, quote.extra)
       /\ QuoteFits(quote.items, quote.discount, quote.extra)
       /\ quote.total = QuoteTotal(quote.items, quote.discount, quote.extra)

PricingInv == PackageOnFile /\ QuoteOnFile /\ DepositWithin
=============================================================================
