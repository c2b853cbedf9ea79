------------------------------- MODULE Totals --------------------------------
(***************************************************************************)
(* The totals of a cart as operators on integers.  Money is in cents (the  *)
(* SDK's two decimal places), a percentage in tenths of a percent, a fixed *)
(* discount in tenths of a cent: neither is rounded when it is set, both   *)
(* are when they are applied.                                              *)
(***************************************************************************)
EXTENDS Integers

\* Decimal.quantize to cents: n/d rounded half to even.
RoundHalfEven(n, d) ==
    LET q == n \div d
        r == n % d
    IN  IF 2 * r > d \/ (2 * r = d /\ q % 2 = 1) THEN q + 1 ELSE q

\* The whole, in tenths of a percent.
Whole == 1000

\* A discount of kind "none" is Python's None.
DiscountAmount(subtotal, discount) ==
    CASE discount.kind = "percent" -> RoundHalfEven(subtotal * discount.value, Whole)
      [] discount.kind = "fixed"   -> RoundHalfEven(discount.value, 10)
      [] discount.kind = "none"    -> 0

\* Mutant: the discount is not capped.
UncappedDiscountTotal(subtotal, discount) == DiscountAmount(subtotal, discount)

\* _discount_total: never more than the subtotal.
DiscountTotal(subtotal, discount) ==
    LET amount == DiscountAmount(subtotal, discount)
    IN  IF amount <= subtotal THEN amount ELSE subtotal

TaxTotal(taxable, rate) == RoundHalfEven(taxable * rate, Whole)

\* Mutant: the tax is on the whole subtotal.
UndiscountedGrandTotal(subtotal, discount, rate, charges) ==
    subtotal - DiscountTotal(subtotal, discount) + TaxTotal(subtotal, rate) + charges

\* The tax is on the discounted base.
GrandTotal(subtotal, discount, rate, charges) ==
    LET taxable == subtotal - DiscountTotal(subtotal, discount)
    IN  taxable + TaxTotal(taxable, rate) + charges
=============================================================================
