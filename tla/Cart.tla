-------------------------------- MODULE Cart ---------------------------------
(***************************************************************************)
(* Cart objects of one cart id over a store.  Each holds the whole cart in *)
(* memory, changes it there and saves it whole; a save may raise, and two  *)
(* objects, as two browser tabs make, do not see each other's changes.     *)
(* The order of lines and charges is left out: no total depends on it.     *)
(***************************************************************************)
EXTENDS Totals, FiniteSets, Functions

CONSTANTS
    Handles,       \* Cart objects
    Items,         \* item ids
    Prices,        \* unit prices the menu gives, in cents
    MaxQuantity,   \* bound on the quantity of a line
    Codes,         \* charge codes
    Fees,          \* charge amounts, in cents
    Discounts,     \* discounts callers set
    TaxRates,      \* tax rates callers set, in tenths of a percent
    SaveMayFail,   \* TRUE: store.save may raise
    None           \* Python's None

VARIABLES
    stored,        \* what store.load gives, None if there is no such cart
    mem            \* Cart object -> _data, None if there is no such object

vars == << stored, mem >>

NoDiscount == [kind |-> "none", value |-> 0]

ASSUME CartAssumption ==
    /\ IsFiniteSet(Items) /\ IsFiniteSet(Codes)
    /\ Prices \subseteq Nat
    /\ MaxQuantity \in Nat \ {0}
    /\ Fees \subseteq Int
    /\ Discounts \subseteq [kind : {"percent", "fixed"}, value : Nat]
    /\ TaxRates \subseteq Nat
    /\ 0 \in TaxRates
    /\ SaveMayFail \in BOOLEAN
    /\ None \notin Handles \cup Items \cup Codes
-----------------------------------------------------------------------------
\* A line is absent when its quantity is 0.
Line == [unit_price : Prices \cup {0}, quantity : 0..MaxQuantity]

NoLine == [unit_price |-> 0, quantity |-> 0]

CartData == [items    : [Items -> Line],
             charges  : [Codes -> [amount : Fees \cup {0}, set : BOOLEAN]],
             discount : Discounts \cup {NoDiscount},
             tax_rate : TaxRates]

NoCharge == [amount |-> 0, set |-> FALSE]

EmptyCart == [items    |-> [i \in Items |-> NoLine],
              charges  |-> [c \in Codes |-> NoCharge],
              discount |-> NoDiscount,
              tax_rate |-> 0]

Has(cart, i) == cart.items[i].quantity > 0

LineTotal(line) == line.unit_price * line.quantity

Subtotal(cart) == SumFunction([i \in Items |-> LineTotal(cart.items[i])])

ChargesTotal(charges) == SumFunction([c \in Codes |-> charges[c].amount])

Totals(cart) ==
    LET subtotal == Subtotal(cart)
        discount == DiscountTotal(subtotal, cart.discount)
    IN  [subtotal       |-> subtotal,
         discount_total |-> discount,
         tax_total      |-> TaxTotal(subtotal - discount, cart.tax_rate),
         charges_total  |-> ChargesTotal(cart.charges),
         grand_total    |-> GrandTotal(subtotal, cart.discount, cart.tax_rate,
                                       ChargesTotal(cart.charges))]

\* Mutant: a line that falls to 0 stays.
LingeringWithQuantity(cart, i, n) ==
    [cart EXCEPT !.items[i] = IF n < 0 THEN NoLine ELSE [@ EXCEPT !.quantity = n]]

\* A line with quantity n; a line that falls to 0 or below is removed.
WithQuantity(cart, i, n) ==
    [cart EXCEPT !.items[i] = IF n <= 0 THEN NoLine ELSE [@ EXCEPT !.quantity = n]]

\* The end of every mutation: the new cart in memory, then _persist.
Persist(h, cart) ==
    /\ mem' = [mem EXCEPT ![h] = cart]
    /\ \/ stored' = cart
       \/ SaveMayFail /\ UNCHANGED stored

Live(h) == mem[h] # None
-----------------------------------------------------------------------------
Init ==
    /\ stored = None
    /\ mem    = [h \in Handles |-> None]

(* Cart(cart_id, store): the stored cart, or a new one that is not saved yet. *)
Open(h) ==
    /\ mem[h] = None
    /\ mem' = [mem EXCEPT ![h] = IF stored = None THEN EmptyCart ELSE stored]
    /\ UNCHANGED stored

(* reload keeps the memory when the cart is gone. *)
Reload(h) ==
    /\ Live(h)
    /\ stored # None
    /\ mem' = [mem EXCEPT ![h] = stored]
    /\ UNCHANGED stored

Drop(h) ==
    /\ Live(h)
    /\ mem' = [mem EXCEPT ![h] = None]
    /\ UNCHANGED stored

(* store.delete, by whoever owns the store. *)
Delete ==
    /\ stored # None
    /\ stored' = None
    /\ UNCHANGED mem

(* add_item: a line that is there grows and takes the new price. *)
AddItem(h, i, price, n) ==
    /\ Live(h)
    /\ mem[h].items[i].quantity + n <= MaxQuantity
    /\ Persist(h, [mem[h] EXCEPT !.items[i] =
                      [unit_price |-> price, quantity |-> @.quantity + n]])

(* add_item with a price that is not a number raises after the quantity of *)
(* a line that is there has grown in memory.                               *)
RejectAddItem(h, i, n) ==
    /\ Live(h)
    /\ Has(mem[h], i)
    /\ mem[h].items[i].quantity + n <= MaxQuantity
    /\ mem' = [mem EXCEPT ![h] = WithQuantity(@, i, @.items[i].quantity + n)]
    /\ UNCHANGED stored

Increment(h, i, n) ==
    /\ Live(h)
    /\ Has(mem[h], i)
    /\ mem[h].items[i].quantity + n <= MaxQuantity
    /\ Persist(h, WithQuantity(mem[h], i, mem[h].items[i].quantity + n))

Decrement(h, i, n) ==
    /\ Live(h)
    /\ Has(mem[h], i)
    /\ Persist(h, WithQuantity(mem[h], i, mem[h].items[i].quantity - n))

(* set_quantity, and remove_item with 0. *)
SetQuantity(h, i, n) ==
    /\ Live(h)
    /\ Has(mem[h], i)
    /\ Persist(h, WithQuantity(mem[h], i, n))

(* clear keeps charges, discount and tax. *)
Clear(h) ==
    /\ Live(h)
    /\ Persist(h, [mem[h] EXCEPT !.items = EmptyCart.items])

AddCharge(h, c, amount) ==
    /\ Live(h)
    /\ Persist(h, [mem[h] EXCEPT !.charges[c] = [amount |-> amount, set |-> TRUE]])

(* add_charge drops the old charge from memory before it builds the new    *)
(* one, which an amount that is not a number makes raise.                  *)
RejectAddCharge(h, c) ==
    /\ Live(h)
    /\ mem' = [mem EXCEPT ![h].charges[c] = NoCharge]
    /\ UNCHANGED stored

RemoveCharge(h, c) ==
    /\ Live(h)
    /\ Persist(h, [mem[h] EXCEPT !.charges[c] = NoCharge])

ClearCharges(h) ==
    /\ Live(h)
    /\ Persist(h, [mem[h] EXCEPT !.charges = EmptyCart.charges])

(* set_discount, and clear_discount with NoDiscount. *)
SetDiscount(h, discount) ==
    /\ Live(h)
    /\ Persist(h, [mem[h] EXCEPT !.discount = discount])

SetTaxRate(h, rate) ==
    /\ Live(h)
    /\ Persist(h, [mem[h] EXCEPT !.tax_rate = rate])

Next ==
    \/ Delete
    \/ \E h \in Handles :
         \/ Open(h) \/ Reload(h) \/ Drop(h) \/ Clear(h) \/ ClearCharges(h)
         \/ \E i \in Items, n \in 1..MaxQuantity :
              \/ \E price \in Prices : AddItem(h, i, price, n)
              \/ RejectAddItem(h, i, n) \/ Increment(h, i, n) \/ Decrement(h, i, n)
         \/ \E i \in Items, n \in 0..MaxQuantity : SetQuantity(h, i, n)
         \/ \E c \in Codes :
              RemoveCharge(h, c) \/ RejectAddCharge(h, c) \/ \E fee \in Fees : AddCharge(h, c, fee)
         \/ \E discount \in Discounts \cup {NoDiscount} : SetDiscount(h, discount)
         \/ \E rate \in TaxRates : SetTaxRate(h, rate)

Spec == Init /\ [][Next]_vars
-----------------------------------------------------------------------------
Carts == {mem[h] : h \in {g \in Handles : Live(g)}} \cup ({stored} \ {None})

(***************************************************************************)
(* Carts in memory and in the store are well formed, and an item without   *)
(* quantity has no line: decrement, set_quantity and clear remove it.      *)
(***************************************************************************)
TypeOK ==
    /\ stored \in CartData \cup {None}
    /\ mem \in [Handles -> CartData \cup {None}]
    /\ \A cart \in Carts, i \in Items : ~Has(cart, i) => cart.items[i] = NoLine

(***************************************************************************)
(* A discount never makes the goods cost less than nothing, nor adds to    *)
(* their price, whatever is left of the cart it was set for: items are     *)
(* removed and prices refreshed after set_discount, and totals caps the    *)
(* rounded amount each time.                                               *)
(***************************************************************************)
DiscountIsBounded ==
    \A cart \in Carts :
        /\ Totals(cart).discount_total \in 0..Totals(cart).subtotal
        /\ Totals(cart).tax_total >= 0
        /\ Totals(cart).grand_total >= Totals(cart).charges_total

\* A total that is never rounded, in millionths of a cent: the reference.
ExactGrandTotal(cart) ==
    LET subtotal == Whole * Subtotal(cart)
        discount == CASE cart.discount.kind = "percent" -> Subtotal(cart) * cart.discount.value
                      [] cart.discount.kind = "fixed"   -> 100 * cart.discount.value
                      [] cart.discount.kind = "none"    -> 0
        taxable  == subtotal - (IF discount <= subtotal THEN discount ELSE subtotal)
    IN  taxable * (Whole + cart.tax_rate) + Whole * Whole * ChargesTotal(cart.charges)

(***************************************************************************)
(* Rounding at three places of totals, discount, tax and sum, moves the    *)
(* grand total by no more than half a cent for the discount, with the tax  *)
(* on it, and half a cent for the tax.                                     *)
(***************************************************************************)
RoundingIsBounded ==
    \A cart \in Carts :
        LET error == Whole * Whole * Totals(cart).grand_total - ExactGrandTotal(cart)
            bound == (Whole \div 2) * (Whole + cart.tax_rate) + (Whole * Whole) \div 2
        IN  -bound <= error /\ error <= bound

SameSettings(c, d) ==
    /\ c.charges  = d.charges
    /\ c.discount = d.discount
    /\ c.tax_rate = d.tax_rate

(***************************************************************************)
(* With the same charges, discount and tax rate a cart of a larger         *)
(* subtotal never has the smaller grand total: rounding the discount up    *)
(* never makes one more item cheaper than none.  A step that adds goods to *)
(* a cart, or reloads one with more of them, does not lower what is due.   *)
(***************************************************************************)
MoreNeverCostsLess ==
    [][\A h \in Handles :
          Live(h) /\ Live(h)' /\ SameSettings(mem[h], mem'[h]) =>
              \/ Subtotal(mem'[h]) < Subtotal(mem[h])
              \/ Totals(mem'[h]).grand_total >= Totals(mem[h]).grand_total]_vars
=============================================================================
