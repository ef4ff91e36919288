------------------------------- MODULE MCPricing -------------------------------
(* Values for the constants of Pricing in the runs of TLC. *)
EXTENDS Pricing, SequencesExt

\* Three cents an item, a free item, and the most units a quote takes of one.
Component == {[quantity |-> 1, price |-> 1], [quantity |-> 2, price |-> 1], [quantity |-> 1, price |-> 3],
              [quantity |-> 3, price |-> 0], [quantity |-> 6000, price |-> 1]}
Components == BoundedSeq(Component, 3) \ {<<>>}
Packages == {[mode |-> "SUM_ITEMS", fixed |-> 0, items |-> s] : s \in Components}
            \cup {[mode |-> "FIXED", fixed |-> f, items |-> s] : f \in {0, 4, 7000}, s \in Components}

\* Items of 35 and 100 millions, for 35 millions less.
LargePackages == {[mode |-> "FIXED", fixed |-> 100,
                   items |-> <<[quantity |-> 1, price |-> 35], [quantity |-> 1, price |-> 100]>>]}

\* A package that shares its resources with the others, at other prices.
Others == {[mode |-> m, fixed |-> 5, items |-> <<[quantity |-> 2, price |-> 2], [quantity |-> 1, price |-> 4]>>]
             : m \in {"SUM_ITEMS", "FIXED"}}

OneOrMore == {1, 2, 99, 100}

\* Items of one to nine cents, some of them discounted.
QuoteItem == {[quantity |-> 1, price |-> 1, discount |-> 0], [quantity |-> 1, price |-> 3, discount |-> 1],
              [quantity |-> 3, price |-> 3, discount |-> 2], [quantity |-> 1, price |-> 2, discount |-> 2]}
QuoteItems == {s \in BoundedSeq(QuoteItem, 3) : s # <<>> /\ (Len(s) = 3 => s[1].quantity = 3)}
Discounts == {0, 1, 3, 5}
Extras == {0, 5}

\* The rules of El Salvador's migration, a rate of zero and the highest there is.
Rules == {[category |-> "TAXABLE", rate |-> 10000], [category |-> "TAXABLE", rate |-> 1300], [category |-> "TAXABLE", rate |-> 0],
          [category |-> "EXEMPT", rate |-> 0], [category |-> "NON_TAXABLE", rate |-> 0]}
\* Half a unit, a price below a cent, and a discount of all of the line.
Lines == {[quantity |-> 500, price |-> 300, discount |-> 1], [quantity |-> 1000, price |-> 49, discount |-> 0],
          [quantity |-> 2000, price |-> 1550, discount |-> 0]}
Deposits == 0 .. 3
===============================================================================
