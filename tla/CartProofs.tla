----------------------------- MODULE CartProofs ------------------------------
(***************************************************************************)
(* Cart: type correctness, and what totals promises for every amount,      *)
(* percentage and rate.                                                    *)
(*                                                                         *)
(* Every cart a call can leave in memory or in the store is WellFormed,    *)
(* which is inductive.  What totals makes of a subtotal is arithmetic: a   *)
(* rounded value is within half a unit of the exact one (Nearest), and a   *)
(* discount of a larger subtotal grows no faster than the subtotal.        *)
(***************************************************************************)
EXTENDS Cart, FiniteSetTheorems, TLAPS

WellFormed(cart) ==
    /\ cart \in CartData
    /\ \A i \in Items : ~Has(cart, i) => cart.items[i] = NoLine

Inv ==
    /\ stored # None => WellFormed(stored)
    /\ mem \in [Handles -> CartData \cup {None}]
    /\ \A h \in Handles : mem[h] # None => WellFormed(mem[h])

LEMMA InvTypes == Inv => TypeOK
  BY DEF Inv, WellFormed, TypeOK, Carts, Live
-----------------------------------------------------------------------------
(* The edits the calls make keep a cart well formed. *)

LEMMA EmptyIsWellFormed == WellFormed(EmptyCart)
  BY CartAssumption DEF WellFormed, EmptyCart, CartData, Line, NoLine, NoCharge, NoDiscount, Has

LEMMA LineEdit ==
    ASSUME NEW cart, WellFormed(cart), NEW i \in Items,
           NEW line \in Line, line.quantity > 0 \/ line = NoLine
    PROVE  WellFormed([cart EXCEPT !.items[i] = line])
  BY DEF WellFormed, CartData, Line, Has, NoLine

LEMMA QuantityEdit ==
    ASSUME NEW cart, WellFormed(cart), NEW i \in Items, NEW n \in Int, n <= MaxQuantity
    PROVE  WellFormed(WithQuantity(cart, i, n))
  <1> DEFINE line == IF n <= 0 THEN NoLine ELSE [cart.items[i] EXCEPT !.quantity = n]
  <1>1. cart.items[i] \in Line
    BY DEF WellFormed, CartData
  <1>2. line \in Line /\ (line.quantity > 0 \/ line = NoLine)
    BY <1>1, CartAssumption DEF Line, NoLine
  <1>3. WithQuantity(cart, i, n) = [cart EXCEPT !.items[i] = line]
    BY DEF WithQuantity, WellFormed, CartData
  <1> HIDE DEF line
  <1> QED BY <1>2, <1>3, LineEdit

LEMMA ChargeEdit ==
    ASSUME NEW cart, WellFormed(cart), NEW c \in Codes,
           NEW charge \in [amount : Fees \cup {0}, set : BOOLEAN]
    PROVE  WellFormed([cart EXCEPT !.charges[c] = charge])
  BY DEF WellFormed, CartData, Has

LEMMA SettingEdits ==
    ASSUME NEW cart, WellFormed(cart)
    PROVE  /\ WellFormed([cart EXCEPT !.items = EmptyCart.items])
           /\ WellFormed([cart EXCEPT !.charges = EmptyCart.charges])
           /\ \A d \in Discounts \cup {NoDiscount} : WellFormed([cart EXCEPT !.discount = d])
           /\ \A r \in TaxRates : WellFormed([cart EXCEPT !.tax_rate = r])
  BY EmptyIsWellFormed DEF WellFormed, CartData, Has, EmptyCart

\* A call that leaves a well formed cart in memory, saved or not, keeps Inv.
LEMMA Kept ==
    ASSUME Inv, NEW h \in Handles, NEW cart, WellFormed(cart),
           mem' = [mem EXCEPT ![h] = cart], stored' = cart \/ stored' = stored
    PROVE  Inv'
  BY DEF Inv, WellFormed
-----------------------------------------------------------------------------
LEMMA InvInit == Init => Inv
  BY DEF Init, Inv

LEMMA LineStep ==
    ASSUME Inv, NEW h \in Handles, NEW i \in Items, NEW n \in 0..MaxQuantity,
           \/ n > 0 /\ \E price \in Prices : AddItem(h, i, price, n)
           \/ RejectAddItem(h, i, n) \/ Increment(h, i, n) \/ Decrement(h, i, n)
           \/ SetQuantity(h, i, n)
    PROVE  Inv'
  <1>0. /\ mem[h] # None => WellFormed(mem[h]) /\ mem[h].items[i] \in Line
        /\ MaxQuantity \in Nat
    BY CartAssumption DEF Inv, WellFormed, CartData
  <1>1. ASSUME n > 0, NEW price \in Prices, AddItem(h, i, price, n) PROVE Inv'
    <2> DEFINE line == [unit_price |-> price, quantity |-> mem[h].items[i].quantity + n]
    <2>1. line \in Line /\ line.quantity > 0
      BY <1>0, <1>1 DEF AddItem, Live, Line
    <2>2. WellFormed([mem[h] EXCEPT !.items[i] = line])
      BY <1>0, <1>1, <2>1, LineEdit DEF AddItem, Live
    <2>3. [mem[h] EXCEPT !.items[i] = line] =
             [mem[h] EXCEPT !.items[i] = [unit_price |-> price, quantity |-> @.quantity + n]]
      BY <1>0, <1>1 DEF AddItem, Live, WellFormed, CartData
    <2> QED BY <1>1, <2>2, <2>3, Kept DEF AddItem, Persist
  <1>2. ASSUME RejectAddItem(h, i, n) PROVE Inv'
    <2>1. WellFormed(WithQuantity(mem[h], i, mem[h].items[i].quantity + n))
      BY <1>0, <1>2, QuantityEdit DEF RejectAddItem, Live, Line
    <2>2. mem' = [mem EXCEPT ![h] = WithQuantity(mem[h], i, mem[h].items[i].quantity + n)]
      BY <1>2 DEF RejectAddItem, Inv
    <2> QED BY <1>2, <2>1, <2>2, Kept DEF RejectAddItem
  <1>3. ASSUME Increment(h, i, n) PROVE Inv'
    <2>1. WellFormed(WithQuantity(mem[h], i, mem[h].items[i].quantity + n))
      BY <1>0, <1>3, QuantityEdit DEF Increment, Live, Line
    <2> QED BY <1>3, <2>1, Kept DEF Increment, Persist
  <1>4. ASSUME Decrement(h, i, n) PROVE Inv'
    <2>1. WellFormed(WithQuantity(mem[h], i, mem[h].items[i].quantity - n))
      BY <1>0, <1>4, QuantityEdit DEF Decrement, Live, Line
    <2> QED BY <1>4, <2>1, Kept DEF Decrement, Persist
  <1>5. ASSUME SetQuantity(h, i, n) PROVE Inv'
    <2>1. WellFormed(WithQuantity(mem[h], i, n))
      BY <1>0, <1>5, QuantityEdit DEF SetQuantity, Live
    <2> QED BY <1>5, <2>1, Kept DEF SetQuantity, Persist
  <1> QED BY <1>1, <1>2, <1>3, <1>4, <1>5

LEMMA ChargeStep ==
    ASSUME Inv, NEW h \in Handles, NEW c \in Codes,
           \/ RemoveCharge(h, c) \/ RejectAddCharge(h, c)
           \/ \E fee \in Fees : AddCharge(h, c, fee)
    PROVE  Inv'
  <1>0. mem[h] # None => WellFormed(mem[h])
    BY DEF Inv
  <1>1. ASSUME RemoveCharge(h, c) PROVE Inv'
    BY <1>0, <1>1, ChargeEdit, Kept DEF RemoveCharge, Persist, Live, NoCharge
  <1>2. ASSUME RejectAddCharge(h, c) PROVE Inv'
    <2>1. WellFormed([mem[h] EXCEPT !.charges[c] = NoCharge])
      BY <1>0, <1>2, ChargeEdit DEF RejectAddCharge, Live, NoCharge
    <2>2. mem' = [mem EXCEPT ![h] = [mem[h] EXCEPT !.charges[c] = NoCharge]]
      BY <1>2 DEF RejectAddCharge, Inv
    <2> QED BY <1>2, <2>1, <2>2, Kept DEF RejectAddCharge
  <1>3. ASSUME NEW fee \in Fees, AddCharge(h, c, fee) PROVE Inv'
    BY <1>0, <1>3, ChargeEdit, Kept DEF AddCharge, Persist, Live
  <1> QED BY <1>1, <1>2, <1>3

LEMMA InvNext == Inv /\ [Next]_vars => Inv'
  <1> SUFFICES ASSUME Inv, [Next]_vars PROVE Inv'
    OBVIOUS
  <1>1. ASSUME Delete PROVE Inv'
    BY <1>1 DEF Delete, Inv, WellFormed
  <1>2. ASSUME NEW h \in Handles, Open(h) PROVE Inv'
    BY <1>2, EmptyIsWellFormed, Kept DEF Open, Inv
  <1>3. ASSUME NEW h \in Handles, Reload(h) PROVE Inv'
    BY <1>3, Kept DEF Reload, Inv
  <1>4. ASSUME NEW h \in Handles, Drop(h) PROVE Inv'
    BY <1>4 DEF Drop, Inv, WellFormed
  <1>5. ASSUME NEW h \in Handles,
               \/ Clear(h) \/ ClearCharges(h)
               \/ \E d \in Discounts \cup {NoDiscount} : SetDiscount(h, d)
               \/ \E r \in TaxRates : SetTaxRate(h, r)
        PROVE  Inv'
    <2>1. WellFormed(mem[h])
      BY <1>5 DEF Inv, Clear, ClearCharges, SetDiscount, SetTaxRate, Live
    <2> QED BY <1>5, <2>1, SettingEdits, Kept
            DEF Clear, ClearCharges, SetDiscount, SetTaxRate, Persist
  <1>6. ASSUME NEW h \in Handles, NEW i \in Items, NEW n \in 0..MaxQuantity,
               \/ n > 0 /\ \E price \in Prices : AddItem(h, i, price, n)
               \/ RejectAddItem(h, i, n) \/ Increment(h, i, n) \/ Decrement(h, i, n)
               \/ SetQuantity(h, i, n)
        PROVE  Inv'
    BY <1>6, LineStep
  <1>7. ASSUME NEW h \in Handles, NEW c \in Codes,
               \/ RemoveCharge(h, c) \/ RejectAddCharge(h, c)
               \/ \E fee \in Fees : AddCharge(h, c, fee)
        PROVE  Inv'
    BY <1>7, ChargeStep
  <1>8. ASSUME UNCHANGED vars PROVE Inv'
    BY <1>8 DEF vars, Inv, WellFormed
  <1>9. \A n \in 1..MaxQuantity : n \in 0..MaxQuantity /\ n > 0
    BY CartAssumption
  <1> QED BY <1>1, <1>2, <1>3, <1>4, <1>5, <1>6, <1>7, <1>8, <1>9 DEF Next

LEMMA InvHolds == Spec => []Inv
  BY InvInit, InvNext, PTL DEF Spec

\* Every cart in memory and in the store is well formed after any calls of any
\* Cart objects, failing saves and rejected values included.
THEOREM TypeCorrect == Spec => []TypeOK
  BY InvHolds, InvTypes, PTL
-----------------------------------------------------------------------------
(* Rounding. *)

\* to_money: the result is within half a unit of the exact value, for the two
\* units totals rounds from.
IsNearest(r, n, d, half) ==
    /\ r \in Int
    /\ -half <= d * r - n
    /\ d * r - n <= half

LEMMA Nearest ==
    ASSUME NEW n \in Int
    PROVE  /\ IsNearest(RoundHalfEven(n, 1000), n, 1000, 500)
           /\ IsNearest(RoundHalfEven(n, 10), n, 10, 5)
  BY DEF RoundHalfEven, IsNearest

DiscountSet == [kind : {"percent", "fixed"}, value : Nat] \cup {NoDiscount}

\* What is discounted: never more than the subtotal, never less than nothing.
LEMMA Capped ==
    ASSUME NEW s \in Nat, NEW d \in DiscountSet
    PROVE  DiscountTotal(s, d) \in 0..s
  <1>1. CASE d.kind = "percent"
    <2>1. d.value \in Nat
      BY DEF DiscountSet, NoDiscount
    <2>2. s * d.value \in Nat
      BY <2>1
    <2>3. IsNearest(RoundHalfEven(s * d.value, 1000), s * d.value, 1000, 500)
      BY <2>2, Nearest
    <2>4. RoundHalfEven(s * d.value, 1000) \in Nat
      BY <2>2, <2>3 DEF IsNearest
    <2> QED BY <1>1, <2>4 DEF DiscountTotal, DiscountAmount, Whole
  <1>2. CASE d.kind = "fixed"
    <2>1. d.value \in Nat
      BY DEF DiscountSet, NoDiscount
    <2>2. IsNearest(RoundHalfEven(d.value, 10), d.value, 10, 5)
      BY <2>1, Nearest
    <2>3. RoundHalfEven(d.value, 10) \in Nat
      BY <2>1, <2>2 DEF IsNearest
    <2> QED BY <1>2, <2>3 DEF DiscountTotal, DiscountAmount
  <1>3. CASE d.kind = "none"
    BY <1>3 DEF DiscountTotal, DiscountAmount
  <1> QED BY <1>1, <1>2, <1>3 DEF DiscountSet, NoDiscount

\* A larger subtotal leaves no less to pay once the discount is off: rounding it
\* up never takes away more than the goods added.
LEMMA TaxableGrows ==
    ASSUME NEW s \in Nat, NEW t \in Nat, s <= t, NEW d \in DiscountSet
    PROVE  s - DiscountTotal(s, d) <= t - DiscountTotal(t, d)
  <1>1. CASE d.kind = "percent"
    <2> DEFINE v == d.value
               r == RoundHalfEven(s * v, 1000)
               q == RoundHalfEven(t * v, 1000)
    <2>1. v \in Nat
      BY DEF DiscountSet, NoDiscount
    <2>2. /\ DiscountTotal(s, d) = IF r <= s THEN r ELSE s
          /\ DiscountTotal(t, d) = IF q <= t THEN q ELSE t
      BY <1>1 DEF DiscountTotal, DiscountAmount, Whole
    <2>3. s * v \in Int /\ t * v \in Int
      BY <2>1
    <2>4. IsNearest(r, s * v, 1000, 500) /\ IsNearest(q, t * v, 1000, 500)
      BY <2>3, Nearest
    <2> USE DEF IsNearest
    <2> HIDE DEF v, r, q
    <2>5. CASE v <= 1000
      <3>1. (t - s) * v <= (t - s) * 1000
        BY <2>1, <2>5
      <3>2. t * v - s * v = (t - s) * v
        BY <2>1
      <3>3. CASE v < 1000 /\ s < t
        <4>1. (t - s) * v <= (t - s) * 999
          BY <2>1, <3>3
        <4>2. q - r <= t - s
          BY <2>3, <2>4, <3>2, <4>1, <3>3
        <4>3. s * v <= s * 1000 /\ t * v <= t * 1000
          BY <2>1, <2>5
        <4>4. r <= s /\ q <= t
          BY <2>3, <2>4, <4>3
        <4> QED BY <2>2, <2>4, <4>2, <4>4
      <3>4. CASE v = 1000
        <4>1. s * v = 1000 * s /\ t * v = 1000 * t
          BY <3>4
        <4>2. r = s /\ q = t
          BY <2>4, <4>1
        <4> QED BY <2>2, <4>2
      <3>5. CASE s = t
        BY <3>5, Capped
      <3> QED BY <2>1, <2>5, <3>3, <3>4, <3>5
    <2>6. CASE v > 1000
      <3>1. s * 1001 <= s * v
        BY <2>1, <2>6
      <3>2. s <= r
        BY <2>3, <2>4, <3>1
      <3>3. DiscountTotal(s, d) = s
        BY <2>2, <2>4, <3>2
      <3> QED BY <3>3, Capped
    <2> QED BY <2>1, <2>5, <2>6
  <1>2. CASE d.kind = "fixed"
    <2>1. d.value \in Nat
      BY DEF DiscountSet, NoDiscount
    <2>2. IsNearest(RoundHalfEven(d.value, 10), d.value, 10, 5)
      BY <2>1, Nearest
    <2> QED BY <1>2, <2>2 DEF IsNearest, DiscountTotal, DiscountAmount
  <1>3. CASE d.kind = "none"
    BY <1>3 DEF DiscountTotal, DiscountAmount
  <1> QED BY <1>1, <1>2, <1>3 DEF DiscountSet, NoDiscount

LEMMA Tax ==
    ASSUME NEW x \in Nat, NEW rate \in Nat
    PROVE  /\ TaxTotal(x, rate) \in Nat
           /\ IsNearest(TaxTotal(x, rate), x * rate, 1000, 500)
  <1>1. x * rate \in Nat
    OBVIOUS
  <1>2. IsNearest(RoundHalfEven(x * rate, 1000), x * rate, 1000, 500)
    BY <1>1, Nearest
  <1> QED BY <1>1, <1>2 DEF TaxTotal, Whole, IsNearest

LEMMA TaxGrows ==
    ASSUME NEW x \in Nat, NEW y \in Nat, x <= y, NEW rate \in Nat
    PROVE  TaxTotal(x, rate) <= TaxTotal(y, rate)
  <1>1. CASE x = y
    BY <1>1, Tax
  <1>2. CASE rate = 0
    <2>1. x * rate = y * rate
      BY <1>2
    <2> QED BY <2>1, Tax DEF TaxTotal
  <1>3. CASE x < y /\ rate > 0
    <2>1. x * rate \in Int /\ y * rate \in Int /\ x * rate < y * rate
      BY <1>3
    <2>2. TaxTotal(x, rate) \in Nat /\ IsNearest(TaxTotal(x, rate), x * rate, 1000, 500)
      BY Tax
    <2>3. TaxTotal(y, rate) \in Nat /\ IsNearest(TaxTotal(y, rate), y * rate, 1000, 500)
      BY Tax
    <2> QED BY <2>1, <2>2, <2>3 DEF IsNearest
  <1> QED BY <1>1, <1>2, <1>3

LEMMA GrandTotalType ==
    ASSUME NEW s \in Nat, NEW d \in DiscountSet, NEW rate \in Nat, NEW charges \in Int
    PROVE  GrandTotal(s, d, rate, charges) \in Int
  <1> DEFINE x == s - DiscountTotal(s, d)
  <1>1. x \in Nat
    BY Capped
  <1>2. GrandTotal(s, d, rate, charges) = x + TaxTotal(x, rate) + charges
    BY DEF GrandTotal
  <1> HIDE DEF x
  <1> QED BY <1>1, <1>2, Tax

\* The due amount of more goods is no less.
LEMMA GrandTotalGrows ==
    ASSUME NEW s \in Nat, NEW t \in Nat, s <= t, NEW d \in DiscountSet,
           NEW rate \in Nat, NEW charges \in Int
    PROVE  GrandTotal(s, d, rate, charges) <= GrandTotal(t, d, rate, charges)
  <1> DEFINE x == s - DiscountTotal(s, d)
             y == t - DiscountTotal(t, d)
  <1>1. x \in Nat /\ y \in Nat /\ x <= y
    BY Capped, TaxableGrows
  <1>2. /\ GrandTotal(s, d, rate, charges) = x + TaxTotal(x, rate) + charges
        /\ GrandTotal(t, d, rate, charges) = y + TaxTotal(y, rate) + charges
    BY DEF GrandTotal
  <1> HIDE DEF x, y
  <1>3. /\ TaxTotal(x, rate) \in Nat /\ TaxTotal(y, rate) \in Nat
        /\ TaxTotal(x, rate) <= TaxTotal(y, rate)
    BY <1>1, Tax, TaxGrows
  <1> QED BY <1>1, <1>2, <1>3

LEMMA ScaledError ==
    ASSUME NEW e \in Int, -500 <= e, e <= 500, NEW k \in Nat
    PROVE  e * k \in Int /\ -(500 * k) <= e * k /\ e * k <= 500 * k
  OBVIOUS

\* The discount in thousandths of a cent, not rounded.
ExactDiscount(s, d) ==
    CASE d.kind = "percent" -> s * d.value
      [] d.kind = "fixed"   -> 100 * d.value
      [] d.kind = "none"    -> 0

ExactTaxable(s, d) ==
    1000 * s - (IF ExactDiscount(s, d) <= 1000 * s THEN ExactDiscount(s, d) ELSE 1000 * s)

LEMMA TaxableError ==
    ASSUME NEW s \in Nat, NEW d \in DiscountSet
    PROVE  /\ ExactTaxable(s, d) \in Nat
           /\ -500 <= 1000 * (s - DiscountTotal(s, d)) - ExactTaxable(s, d)
           /\ 1000 * (s - DiscountTotal(s, d)) - ExactTaxable(s, d) <= 500
  <1>1. CASE d.kind = "percent"
    <2> DEFINE p == s * d.value
    <2>1. d.value \in Nat
      BY DEF DiscountSet, NoDiscount
    <2>2. p \in Nat
      BY <2>1
    <2>3. IsNearest(RoundHalfEven(p, 1000), p, 1000, 500)
      BY <2>2, Nearest
    <2>4. /\ DiscountTotal(s, d) = IF RoundHalfEven(p, 1000) <= s THEN RoundHalfEven(p, 1000) ELSE s
          /\ ExactDiscount(s, d) = p
      BY <1>1 DEF DiscountTotal, DiscountAmount, Whole, ExactDiscount
    <2> HIDE DEF p
    <2> QED BY <2>2, <2>3, <2>4 DEF IsNearest, ExactTaxable
  <1>2. CASE d.kind = "fixed"
    <2>1. d.value \in Nat
      BY DEF DiscountSet, NoDiscount
    <2>2. IsNearest(RoundHalfEven(d.value, 10), d.value, 10, 5)
      BY <2>1, Nearest
    <2>3. /\ DiscountTotal(s, d) =
               IF RoundHalfEven(d.value, 10) <= s THEN RoundHalfEven(d.value, 10) ELSE s
          /\ ExactDiscount(s, d) = 100 * d.value
      BY <1>2 DEF DiscountTotal, DiscountAmount, ExactDiscount
    <2> QED BY <2>1, <2>2, <2>3 DEF IsNearest, ExactTaxable
  <1>3. CASE d.kind = "none"
    BY <1>3 DEF DiscountTotal, DiscountAmount, ExactTaxable, ExactDiscount
  <1> QED BY <1>1, <1>2, <1>3 DEF DiscountSet, NoDiscount

\* Half a cent for the discount, with the tax on it, and half a cent for the tax.
Within(s, d, rate, charges) ==
    LET error == 1000 * 1000 * GrandTotal(s, d, rate, charges)
                    - (ExactTaxable(s, d) * (1000 + rate) + 1000 * 1000 * charges)
        bound == 500 * (1000 + rate) + 500 * 1000
    IN  -bound <= error /\ error <= bound

LEMMA GrandTotalError ==
    ASSUME NEW s \in Nat, NEW d \in DiscountSet, NEW rate \in Nat, NEW charges \in Int
    PROVE  Within(s, d, rate, charges)
  <1> DEFINE x == s - DiscountTotal(s, d)
             z == ExactTaxable(s, d)
             e == 1000 * x - z
             f == 1000 * TaxTotal(x, rate) - x * rate
  <1>1. x \in Nat /\ z \in Nat /\ -500 <= e /\ e <= 500
    BY Capped, TaxableError
  <1>2. GrandTotal(s, d, rate, charges) = x + TaxTotal(x, rate) + charges
    BY DEF GrandTotal
  <1> HIDE DEF x, z
  <1>3. TaxTotal(x, rate) \in Nat /\ x * rate \in Nat
    BY <1>1, Tax
  <1>4. -500 <= f /\ f <= 500
    BY <1>1, <1>3, Tax DEF IsNearest
  <1>5. z * (1000 + rate) \in Int /\ e * (1000 + rate) \in Int
    BY <1>1
  <1>6. e * (1000 + rate) = 1000 * 1000 * x + 1000 * (x * rate) - z * (1000 + rate)
    BY <1>1
  <1>7. -(500 * (1000 + rate)) <= e * (1000 + rate) /\ e * (1000 + rate) <= 500 * (1000 + rate)
    BY <1>1, ScaledError
  <1>8. 1000 * 1000 * GrandTotal(s, d, rate, charges)
           - (z * (1000 + rate) + 1000 * 1000 * charges) = e * (1000 + rate) + 1000 * f
    BY <1>1, <1>2, <1>3, <1>5, <1>6
  <1>9. f \in Int
    BY <1>1, <1>3
  <1> HIDE DEF e, f
  <1> QED BY <1>4, <1>5, <1>7, <1>8, <1>9 DEF z, Within
-----------------------------------------------------------------------------
(* Sums over a finite set, by induction on the size of its subsets.  The      *)
(* library's induction theorems take a predicate; a set and its least element *)
(* do the same in first-order logic.                                          *)

\* Induction on the natural numbers, by a least counterexample.
LEMMA NatSetInduction ==
    ASSUME NEW S, 0 \in S, \A n \in Nat : n \in S => n + 1 \in S
    PROVE  Nat \subseteq S
  <1> SUFFICES ASSUME ~(Nat \subseteq S) PROVE FALSE
    OBVIOUS
  <1>1. PICK m \in Nat \ S : \A k \in Nat \ S : ~(<< k, m >> \in OpToRel(<, Nat))
    BY NatLessThanWellFounded, WFMin
  <1>2. \A k \in Nat \ S : ~(k < m)
    BY <1>1 DEF OpToRel
  <1>3. m # 0 /\ m - 1 \in Nat /\ m - 1 \notin Nat \ S
    BY <1>2
  <1> QED BY <1>3

\* What SumFunction takes from a set, and what it leaves.
Some(s) == CHOOSE x \in s : TRUE

Rest(s) == s \ {Some(s)}

\* The equation of SumFunction, on a family of sets.
IsSum(sum, fun, family) ==
    sum = [s \in family |-> IF s = {} THEN 0 ELSE fun[Some(s)] + sum[Rest(s)]]

LEMMA SumIsChosen ==
    ASSUME NEW fun
    PROVE  SumFunction(fun) = (CHOOSE sum : IsSum(sum, fun, SUBSET DOMAIN fun))[DOMAIN fun]
  BY DEF SumFunction, SumFunctionOnSet, FoldFunctionOnSet, MapThenFoldSet, IsSum, Some, Rest

\* The subsets of S of at most n elements.
Level(S, n) == {s \in SUBSET S : Cardinality(s) <= n}

LEMMA RestIsSmaller ==
    ASSUME NEW S, IsFiniteSet(S), NEW s \in SUBSET S, s # {}
    PROVE  /\ Some(s) \in s /\ Rest(s) \in SUBSET S
           /\ Cardinality(s) \in Nat /\ Cardinality(Rest(s)) = Cardinality(s) - 1
  <1>1. IsFiniteSet(s) /\ Some(s) \in s
    BY FS_Subset DEF Some
  <1> QED BY <1>1, FS_RemoveElement, FS_CardinalityType DEF Rest

\* The recursion of SumFunction has a solution: one for the sets of up to n
\* elements gives one for those of n + 1.
LEMMA SumExists ==
    ASSUME NEW fun, IsFiniteSet(DOMAIN fun)
    PROVE  \E sum : IsSum(sum, fun, SUBSET DOMAIN fun)
  <1> DEFINE S == DOMAIN fun
             Good == {n \in Nat : \E sum : IsSum(sum, fun, Level(S, n))}
  <1>1. 0 \in Good
    <2> DEFINE g == [s \in Level(S, 0) |-> 0]
    <2>1. \A s \in Level(S, 0) : s = {}
      BY FS_Subset, FS_EmptySet, FS_CardinalityType DEF Level
    <2>2. IsSum(g, fun, Level(S, 0))
      BY <2>1 DEF IsSum
    <2> QED BY <2>2
  <1>2. ASSUME NEW n \in Nat, n \in Good PROVE n + 1 \in Good
    <2>1. PICK g : IsSum(g, fun, Level(S, n))
      BY <1>2
    <2> DEFINE h == [s \in Level(S, n + 1) |-> IF s = {} THEN 0 ELSE fun[Some(s)] + g[Rest(s)]]
    <2>2. \A s \in Level(S, n + 1) : s # {} => Rest(s) \in Level(S, n)
      BY RestIsSmaller DEF Level
    <2>3. Level(S, n) \subseteq Level(S, n + 1)
      BY FS_Subset, FS_CardinalityType DEF Level
    <2>4. \A s \in Level(S, n) : h[s] = g[s]
      BY <2>1, <2>3 DEF IsSum
    <2>5. IsSum(h, fun, Level(S, n + 1))
      BY <2>2, <2>4 DEF IsSum
    <2> QED BY <2>5
  <1> HIDE DEF Good
  <1>3. Cardinality(S) \in Good
    BY <1>1, <1>2, NatSetInduction, FS_CardinalityType
  <1>4. Level(S, Cardinality(S)) = SUBSET S
    BY FS_Subset DEF Level
  <1> QED BY <1>3, <1>4 DEF Good

LEMMA SumEquation ==
    ASSUME NEW fun, IsFiniteSet(DOMAIN fun)
    PROVE  \E sum : IsSum(sum, fun, SUBSET DOMAIN fun) /\ SumFunction(fun) = sum[DOMAIN fun]
  BY SumExists, SumIsChosen

\* A sum of naturals is a natural, and one of integers an integer.
LEMMA SumType ==
    ASSUME NEW fun, IsFiniteSet(DOMAIN fun), NEW T \in {Nat, Int},
           \A x \in DOMAIN fun : fun[x] \in T
    PROVE  SumFunction(fun) \in T
  <1> DEFINE S == DOMAIN fun
  <1>1. PICK sum : IsSum(sum, fun, SUBSET S) /\ SumFunction(fun) = sum[S]
    BY SumEquation
  <1> DEFINE Good == {n \in Nat : \A s \in Level(S, n) : sum[s] \in T}
  <1>2. 0 \in Good
    BY <1>1, FS_Subset, FS_EmptySet, FS_CardinalityType DEF Level, IsSum
  <1>3. ASSUME NEW n \in Nat, n \in Good PROVE n + 1 \in Good
    <2>1. ASSUME NEW s \in Level(S, n + 1), s # {} PROVE sum[s] \in T
      <3>1. Rest(s) \in Level(S, n) /\ Some(s) \in S
        BY <2>1, RestIsSmaller DEF Level
      <3>2. sum[s] = fun[Some(s)] + sum[Rest(s)]
        BY <1>1, <2>1 DEF IsSum, Level
      <3>3. sum[Rest(s)] \in T /\ fun[Some(s)] \in T
        BY <1>3, <3>1
      <3>4. \A i, j \in T : i + j \in T
        OBVIOUS
      <3> QED BY <3>2, <3>3, <3>4
    <2>2. sum[{}] = 0 /\ 0 \in T
      BY <1>1 DEF IsSum
    <2>3. \A s \in Level(S, n + 1) : sum[s] \in T
      BY <2>1, <2>2
    <2> QED BY <2>3
  <1> HIDE DEF Good
  <1>4. Cardinality(S) \in Good /\ S \in Level(S, Cardinality(S))
    BY <1>2, <1>3, NatSetInduction, FS_CardinalityType DEF Level
  <1> QED BY <1>1, <1>4 DEF Good

\* A sum of larger terms is no smaller.
LEMMA SumGrows ==
    ASSUME NEW f, NEW g, IsFiniteSet(DOMAIN f), DOMAIN g = DOMAIN f,
           \A x \in DOMAIN f : f[x] \in Int /\ g[x] \in Int /\ f[x] <= g[x]
    PROVE  SumFunction(f) <= SumFunction(g)
  <1> DEFINE S == DOMAIN f
  <1>1. PICK a : IsSum(a, f, SUBSET S) /\ SumFunction(f) = a[S]
    BY SumEquation
  <1>2. PICK b : IsSum(b, g, SUBSET S) /\ SumFunction(g) = b[S]
    BY SumEquation
  <1> DEFINE Good == {n \in Nat : \A s \in Level(S, n) : a[s] \in Int /\ b[s] \in Int /\ a[s] <= b[s]}
  <1>3. a[{}] = 0 /\ b[{}] = 0
    BY <1>1, <1>2 DEF IsSum
  <1>4. 0 \in Good
    BY <1>3, FS_Subset, FS_EmptySet, FS_CardinalityType DEF Level
  <1>5. ASSUME NEW n \in Nat, n \in Good PROVE n + 1 \in Good
    <2>1. ASSUME NEW s \in Level(S, n + 1), s # {}
          PROVE  a[s] \in Int /\ b[s] \in Int /\ a[s] <= b[s]
      <3>1. Rest(s) \in Level(S, n) /\ Some(s) \in S
        BY <2>1, RestIsSmaller DEF Level
      <3>2. a[s] = f[Some(s)] + a[Rest(s)] /\ b[s] = g[Some(s)] + b[Rest(s)]
        BY <1>1, <1>2, <2>1 DEF IsSum, Level
      <3>3. LET t == Rest(s) IN a[t] \in Int /\ b[t] \in Int /\ a[t] <= b[t]
        BY <1>5, <3>1
      <3>4. LET x == Some(s) IN f[x] \in Int /\ g[x] \in Int /\ f[x] <= g[x]
        BY <3>1
      <3> QED BY <3>2, <3>3, <3>4
    <2>2. \A s \in Level(S, n + 1) : a[s] \in Int /\ b[s] \in Int /\ a[s] <= b[s]
      BY <1>3, <2>1
    <2> QED BY <2>2
  <1> HIDE DEF Good
  <1>6. Cardinality(S) \in Good /\ S \in Level(S, Cardinality(S))
    BY <1>4, <1>5, NatSetInduction, FS_CardinalityType DEF Level
  <1> QED BY <1>1, <1>2, <1>6 DEF Good
-----------------------------------------------------------------------------
(* What this makes of carts. *)

LEMMA LineFacts ==
    ASSUME NEW cart, WellFormed(cart)
    PROVE  /\ \A i \in Items : LineTotal(cart.items[i]) \in Nat
           /\ \A c \in Codes : cart.charges[c].amount \in Int
  <1>1. Prices \cup {0} \subseteq Nat /\ Fees \cup {0} \subseteq Int /\ 0..MaxQuantity \subseteq Nat
    BY CartAssumption
  <1>2. ASSUME NEW i \in Items PROVE LineTotal(cart.items[i]) \in Nat
    <2>1. cart.items[i] \in [unit_price : Prices \cup {0}, quantity : 0..MaxQuantity]
      BY DEF WellFormed, CartData, Line
    <2>2. cart.items[i].unit_price \in Nat /\ cart.items[i].quantity \in Nat
      BY <1>1, <2>1
    <2>3. \A p, q \in Nat : p * q \in Nat
      OBVIOUS
    <2> QED BY <2>2, <2>3 DEF LineTotal
  <1>3. ASSUME NEW c \in Codes PROVE cart.charges[c].amount \in Int
    <2>1. cart.charges[c] \in [amount : Fees \cup {0}, set : BOOLEAN]
      BY DEF WellFormed, CartData
    <2> QED BY <1>1, <2>1
  <1> QED BY <1>2, <1>3

LEMMA CartFacts ==
    ASSUME NEW cart, WellFormed(cart)
    PROVE  /\ Subtotal(cart) \in Nat
           /\ ChargesTotal(cart.charges) \in Int
           /\ cart.discount \in DiscountSet
           /\ cart.tax_rate \in Nat
  <1> DEFINE lines == [i \in Items |-> LineTotal(cart.items[i])]
             fees == [c \in Codes |-> cart.charges[c].amount]
  <1>1. \A i \in Items : lines[i] \in Nat
    BY LineFacts
  <1>2. \A c \in Codes : fees[c] \in Int
    BY LineFacts
  <1>3. DOMAIN lines = Items /\ DOMAIN fees = Codes
    OBVIOUS
  <1>4. Subtotal(cart) = SumFunction(lines) /\ ChargesTotal(cart.charges) = SumFunction(fees)
    BY DEF Subtotal, ChargesTotal
  <1> HIDE DEF lines, fees
  <1>5. SumFunction(lines) \in Nat
    BY <1>1, <1>3, CartAssumption, SumType
  <1>6. SumFunction(fees) \in Int
    BY <1>2, <1>3, CartAssumption, SumType
  <1>7. cart.discount \in DiscountSet /\ cart.tax_rate \in Nat
    BY CartAssumption DEF WellFormed, CartData, DiscountSet
  <1> QED BY <1>4, <1>5, <1>6, <1>7

\* No line of c is dearer than that of d.
NoDearer(c, d) == \A i \in Items : LineTotal(c.items[i]) <= LineTotal(d.items[i])

LEMMA SubtotalGrows ==
    ASSUME NEW c, WellFormed(c), NEW d, WellFormed(d), NoDearer(c, d)
    PROVE  Subtotal(c) <= Subtotal(d)
  <1> DEFINE f == [i \in Items |-> LineTotal(c.items[i])]
             g == [i \in Items |-> LineTotal(d.items[i])]
  <1>1. \A i \in Items : f[i] \in Int /\ g[i] \in Int /\ f[i] <= g[i]
    BY LineFacts DEF NoDearer
  <1>2. DOMAIN f = Items /\ DOMAIN g = Items
    OBVIOUS
  <1>3. Subtotal(c) = SumFunction(f) /\ Subtotal(d) = SumFunction(g)
    BY DEF Subtotal
  <1> HIDE DEF f, g
  <1> QED BY <1>1, <1>2, <1>3, CartAssumption, SumGrows

LEMMA AnyCart == ASSUME Inv, NEW cart \in Carts PROVE WellFormed(cart)
  BY DEF Inv, Carts, Live

LEMMA Bounded ==
    ASSUME NEW cart, WellFormed(cart)
    PROVE  /\ Totals(cart).discount_total \in 0..Totals(cart).subtotal
           /\ Totals(cart).tax_total >= 0
           /\ Totals(cart).grand_total >= Totals(cart).charges_total
  <1> DEFINE s == Subtotal(cart)
             x == s - DiscountTotal(s, cart.discount)
             fees == ChargesTotal(cart.charges)
  <1>1. s \in Nat /\ fees \in Int /\ cart.discount \in DiscountSet /\ cart.tax_rate \in Nat
    BY CartFacts
  <1>2. /\ Totals(cart).subtotal = s
        /\ Totals(cart).discount_total = DiscountTotal(s, cart.discount)
        /\ Totals(cart).tax_total = TaxTotal(x, cart.tax_rate)
        /\ Totals(cart).charges_total = fees
        /\ Totals(cart).grand_total = x + TaxTotal(x, cart.tax_rate) + fees
    BY DEF Totals, GrandTotal
  <1> HIDE DEF s, fees
  <1>3. DiscountTotal(s, cart.discount) \in 0..s
    BY <1>1, Capped
  <1>4. x \in Nat
    BY <1>1, <1>3
  <1> HIDE DEF x
  <1>5. TaxTotal(x, cart.tax_rate) \in Nat
    BY <1>1, <1>4, Tax
  <1> QED BY <1>1, <1>2, <1>3, <1>4, <1>5

LEMMA Grows ==
    ASSUME NEW c, WellFormed(c), NEW d, WellFormed(d),
           SameSettings(c, d), Subtotal(c) <= Subtotal(d)
    PROVE  Totals(d).grand_total >= Totals(c).grand_total
  <1> DEFINE s == Subtotal(c)
             t == Subtotal(d)
             fees == ChargesTotal(c.charges)
  <1>1. /\ s \in Nat /\ t \in Nat /\ s <= t /\ fees \in Int
        /\ c.discount \in DiscountSet /\ c.tax_rate \in Nat
    BY CartFacts
  <1>2. /\ Totals(c).grand_total = GrandTotal(s, c.discount, c.tax_rate, fees)
        /\ Totals(d).grand_total = GrandTotal(t, c.discount, c.tax_rate, fees)
    BY DEF Totals, SameSettings
  <1> HIDE DEF s, t, fees
  <1>3. /\ GrandTotal(s, c.discount, c.tax_rate, fees) <= GrandTotal(t, c.discount, c.tax_rate, fees)
        /\ GrandTotal(s, c.discount, c.tax_rate, fees) \in Int
        /\ GrandTotal(t, c.discount, c.tax_rate, fees) \in Int
    BY <1>1, GrandTotalGrows, GrandTotalType
  <1> QED BY <1>2, <1>3

LEMMA Rounded ==
    ASSUME NEW cart, WellFormed(cart)
    PROVE  LET error == Whole * Whole * Totals(cart).grand_total - ExactGrandTotal(cart)
               bound == (Whole \div 2) * (Whole + cart.tax_rate) + (Whole * Whole) \div 2
           IN  -bound <= error /\ error <= bound
  <1> DEFINE s == Subtotal(cart)
             fees == ChargesTotal(cart.charges)
             due == GrandTotal(s, cart.discount, cart.tax_rate, fees)
  <1>1. /\ s \in Nat /\ fees \in Int
        /\ cart.discount \in DiscountSet /\ cart.tax_rate \in Nat
    BY CartFacts
  <1>2. /\ Totals(cart).grand_total = due
        /\ ExactGrandTotal(cart) =
              ExactTaxable(s, cart.discount) * (1000 + cart.tax_rate) + 1000 * 1000 * fees
    BY DEF Totals, ExactGrandTotal, ExactTaxable, ExactDiscount, Whole
  <1> HIDE DEF s, fees
  <1>3. Within(s, cart.discount, cart.tax_rate, fees)
    BY <1>1, GrandTotalError
  <1>4. /\ (Whole \div 2) = 500
        /\ (Whole * Whole) \div 2 = 500 * 1000
        /\ Whole = 1000
    BY DEF Whole
  <1> QED BY <1>2, <1>3, <1>4 DEF Within

\* A discount stays within the subtotal of the cart it is applied to, and the
\* goods never cost less than nothing (_discount_total, totals).
THEOREM DiscountsAreBounded == Spec => []DiscountIsBounded
  <1>1. Inv => DiscountIsBounded
    BY AnyCart, Bounded DEF DiscountIsBounded
  <1> QED BY <1>1, InvHolds, PTL

\* The three roundings of totals move the grand total by no more than half a cent
\* for the discount, with the tax on it, and half a cent for the tax.
THEOREM RoundingIsSmall == Spec => []RoundingIsBounded
  <1>1. Inv => RoundingIsBounded
    BY AnyCart, Rounded DEF RoundingIsBounded
  <1> QED BY <1>1, InvHolds, PTL

\* More goods under the same settings are never due less, although the discount
\* on them is rounded to the nearest cent.
THEOREM MoreIsNotCheaper == Spec => MoreNeverCostsLess
  <1> DEFINE Dearer == \A h \in Handles :
                 Live(h) /\ Live(h)' /\ SameSettings(mem[h], mem'[h]) =>
                    \/ Subtotal(mem'[h]) < Subtotal(mem[h])
                    \/ Totals(mem'[h]).grand_total >= Totals(mem[h]).grand_total
  <1>1. Inv /\ Inv' => Dearer
    <2> SUFFICES ASSUME Inv, Inv', NEW h \in Handles, Live(h), Live(h)',
                        SameSettings(mem[h], mem'[h])
                 PROVE  \/ Subtotal(mem'[h]) < Subtotal(mem[h])
                        \/ Totals(mem'[h]).grand_total >= Totals(mem[h]).grand_total
      OBVIOUS
    <2>1. WellFormed(mem[h])
      BY DEF Inv, Live
    <2>2. WellFormed(mem'[h])
      BY DEF Inv, Live, WellFormed
    <2>3. Subtotal(mem[h]) \in Nat /\ Subtotal(mem'[h]) \in Nat
      BY <2>1, <2>2, CartFacts
    <2> QED BY <2>1, <2>2, <2>3, Grows
  <1> QED BY <1>1, InvHolds, PTL DEF MoreNeverCostsLess

\* Under the same settings, a cart none of whose lines is dearer than before is not
\* dearer either: adding to a line never lowers what is due, and taking from one
\* never raises it (add_item, increment, decrement, set_quantity, clear, totals).
THEOREM GoodsAddUp ==
    Spec => [][\A h \in Handles :
                  Live(h) /\ Live(h)' /\ SameSettings(mem[h], mem'[h]) =>
                    /\ NoDearer(mem[h], mem'[h]) =>
                         Totals(mem'[h]).grand_total >= Totals(mem[h]).grand_total
                    /\ NoDearer(mem'[h], mem[h]) =>
                         Totals(mem[h]).grand_total >= Totals(mem'[h]).grand_total]_vars
  <1> DEFINE Fair == \A h \in Handles :
                 Live(h) /\ Live(h)' /\ SameSettings(mem[h], mem'[h]) =>
                    /\ NoDearer(mem[h], mem'[h]) =>
                         Totals(mem'[h]).grand_total >= Totals(mem[h]).grand_total
                    /\ NoDearer(mem'[h], mem[h]) =>
                         Totals(mem[h]).grand_total >= Totals(mem'[h]).grand_total
  <1>1. Inv /\ Inv' => Fair
    <2> SUFFICES ASSUME Inv, Inv', NEW h \in Handles, Live(h), Live(h)',
                        SameSettings(mem[h], mem'[h])
                 PROVE  /\ NoDearer(mem[h], mem'[h]) =>
                             Totals(mem'[h]).grand_total >= Totals(mem[h]).grand_total
                        /\ NoDearer(mem'[h], mem[h]) =>
                             Totals(mem[h]).grand_total >= Totals(mem'[h]).grand_total
      OBVIOUS
    <2>1. WellFormed(mem[h])
      BY DEF Inv, Live
    <2>2. WellFormed(mem'[h])
      BY DEF Inv, Live, WellFormed
    <2>3. SameSettings(mem'[h], mem[h])
      BY DEF SameSettings
    <2> QED BY <2>1, <2>2, <2>3, SubtotalGrows, Grows
  <1> QED BY <1>1, InvHolds, PTL
=============================================================================
