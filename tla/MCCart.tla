------------------------------- MODULE MCCart --------------------------------
EXTENDS Cart, TLC

\* Half-cent roundings of every kind, and discounts above 100% and above the subtotal.
MCDiscounts == {[kind |-> "percent", value |-> 100], [kind |-> "percent", value |-> 1500],
                [kind |-> "fixed", value |-> 125]}

MCSymmetry == Permutations(Items)
=============================================================================
