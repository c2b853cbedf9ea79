------------------------------- MODULE Payment -------------------------------
(***************************************************************************)
(* PaymentService over a payment gateway and a record store.               *)
(*                                                                         *)
(* create_order makes the order at the gateway and then saves a record;    *)
(* verify_payment reads the record, and saves it as paid or failed.  The   *)
(* gateway and the customers are external: they create orders, take        *)
(* payments and sign them.  A signature is the pair it signs, NoSignature  *)
(* is any string that verifies for no pair (HMAC taken as unforgeable).    *)
(* The store keeps the record as JSON and, in the SQL stores, a row of     *)
(* columns beside it of which a later save updates only two.               *)
(***************************************************************************)
EXTENDS Naturals, FiniteSets

CONSTANTS
    OrderIds,      \* order ids the gateway can hand out
    ForeignIds,    \* those made at the gateway by others under the same key
    PaymentIds,    \* payment ids the gateway can hand out
    Amounts,       \* order amounts in minor units
    Carts,         \* cart ids
    Workers,       \* threads, requests or processes that use the service
    None           \* Python's None

VARIABLES
    gateway,       \* the gateway's orders: id -> amount, None if there is no such order
    known,         \* order ids create_order has returned to a client
    signed,        \* <<order id, payment id>> pairs the gateway has signed
    data,          \* order id -> stored PaymentRecord, NoRecord if there is none
    columns,       \* order id -> SQL columns of the row, NoColumns if there is none
    call           \* worker -> the call it is in

vars == << gateway, known, signed, data, columns, call >>

PaymentStatus == {"created", "paid", "failed"}

ASSUME PaymentAssumption ==
    /\ ForeignIds \subseteq OrderIds
    /\ Amounts \subseteq Nat
    /\ None \notin Amounts
    /\ None \notin OrderIds \cup PaymentIds \cup Carts \cup PaymentStatus
-----------------------------------------------------------------------------
\* amount is 0 in the minimal record of an order the store does not know.
PaymentRecord == [status     : PaymentStatus \cup {None},
                  amount     : Amounts \cup {0, None},
                  cart_id    : Carts \cup {None},
                  payment_id : PaymentIds \cup {None}]

NoRecord == [status |-> None, amount |-> None, cart_id |-> None, payment_id |-> None]

CreatedRecord(amount, cart) ==
    [status |-> "created", amount |-> amount, cart_id |-> cart, payment_id |-> None]

\* The columns a save of record r inserts are those of the record itself.
NoColumns == NoRecord

NoSignature == << None, None >>

\* Mutant: the signature is checked against the order id alone.
OrderOnlyVerifySignature(o, p, signature) == signature[1] = o

\* provider.verify_signature
VerifySignature(o, p, signature) == signature = << o, p >>

\* create: between provider.create_order and the save.  verify: between the
\* get and the save, the verdict being in the record's status.
Stages == {"idle", "create", "verify"}

Calls == [pc : Stages, id : OrderIds \cup {None}, record : PaymentRecord]

Idle == [pc |-> "idle", id |-> None, record |-> NoRecord]

Return(w) == call' = [call EXCEPT ![w] = Idle]

Hold(w, pc, o, r) == call' = [call EXCEPT ![w] = [pc |-> pc, id |-> o, record |-> r]]

\* The upsert of the SQL stores: a new row takes every column, an old one only
\* status and payment_id.
Upserted(row, r) ==
    IF row = NoColumns
      THEN r
      ELSE [row EXCEPT !.status = r.status, !.payment_id = r.payment_id]

\* store.save of record r.
StoreSave(o, r) ==
    /\ data' = [data EXCEPT ![o] = r]
    /\ columns' = [columns EXCEPT ![o] = Upserted(@, r)]
-----------------------------------------------------------------------------
Init ==
    /\ gateway \in [OrderIds -> Amounts \cup {None}]
    /\ \A o \in OrderIds : gateway[o] = None <=> o \notin ForeignIds
    /\ known   = {}
    /\ signed  = {}
    /\ data    = [o \in OrderIds |-> NoRecord]
    /\ columns = [o \in OrderIds |-> NoColumns]
    /\ call    = [w \in Workers |-> Idle]

(* provider.create_order: the gateway makes an order under a fresh id. *)
CreateOrder(w, o, amount, cart) ==
    /\ call[w].pc = "idle"
    /\ gateway[o] = None
    /\ gateway' = [gateway EXCEPT ![o] = amount]
    /\ Hold(w, "create", o, CreatedRecord(amount, cart))
    /\ UNCHANGED << known, signed, data, columns >>

(* store.save of the new record; the caller learns the order id, unless the  *)
(* answer is lost.                                                            *)
CreateSave(w) ==
    LET o == call[w].id IN
    /\ call[w].pc = "create"
    /\ StoreSave(o, call[w].record)
    /\ known' \in {known, known \cup {o}}
    /\ Return(w)
    /\ UNCHANGED << gateway, signed >>

(* The customer pays the order at the gateway, which signs order and payment; *)
(* a payment id is given out once.  An order may be paid again after a        *)
(* dispute or a retry.                                                        *)
Pay(o, p) ==
    /\ o \in known \cup ForeignIds
    /\ \A pair \in signed : pair[2] # p
    /\ signed' = signed \cup {<< o, p >>}
    /\ UNCHANGED << gateway, known, data, columns, call >>

\* Mutant: the signature is checked against the payment id alone.
LooseVerifyPayment(w, o, p, signature) ==
    LET r == data[o] IN
    /\ call[w].pc = "idle"
    /\ signature[2] = p
    /\ Hold(w, "verify", o, [(IF r = NoRecord THEN CreatedRecord(0, None) ELSE r)
                               EXCEPT !.status = "paid", !.payment_id = p])
    /\ UNCHANGED << gateway, known, signed, data, columns >>

\* Mutant: the arguments are mixed up and the signature is recorded.
SwappedVerifyPayment(w, o, p, signature) ==
    /\ call[w].pc = "idle"
    /\ data[o] # NoRecord
    /\ Hold(w, "verify", o, [data[o] EXCEPT !.status = "paid", !.payment_id = signature])
    /\ UNCHANGED << gateway, known, signed, data, columns >>

\* Mutant: the paid record is built anew instead of from the one that was read.
FreshVerifyPayment(w, o, p, signature) ==
    /\ call[w].pc = "idle"
    /\ VerifySignature(o, p, signature)
    /\ Hold(w, "verify", o, [CreatedRecord(0, None)
                               EXCEPT !.status = "paid", !.payment_id = p])
    /\ UNCHANGED << gateway, known, signed, data, columns >>

(* verify_payment up to its save.  With a bad signature a known record is to  *)
(* be saved as failed, whatever its status, and an unknown order leaves no    *)
(* trace; with a good one the record, or a minimal one with amount 0, is to   *)
(* be saved as paid.                                                          *)
VerifyPayment(w, o, p, signature) ==
    LET r    == data[o]
        ok   == VerifySignature(o, p, signature)
        base == IF r = NoRecord THEN CreatedRecord(0, None) ELSE r
    IN  /\ call[w].pc = "idle"
        /\ \/ /\ ~ok
              /\ r # NoRecord
              /\ Hold(w, "verify", o, [r EXCEPT !.status = "failed"])
           \/ /\ ok
              /\ Hold(w, "verify", o,
                      [base EXCEPT !.status = "paid", !.payment_id = p])
        /\ UNCHANGED << gateway, known, signed, data, columns >>

VerifySave(w) ==
    /\ call[w].pc = "verify"
    /\ StoreSave(call[w].id, call[w].record)
    /\ Return(w)
    /\ UNCHANGED << gateway, known, signed >>

(* A save raises, or the worker dies: the order at the gateway stays, the     *)
(* client of a create never learns its id.                                    *)
Abort(w) ==
    /\ call[w].pc # "idle"
    /\ Return(w)
    /\ UNCHANGED << gateway, known, signed, data, columns >>

(* What a client can present: an order it knows or that others made, and a    *)
(* signature the gateway issued, for these ids or for others, or none.        *)
ClientVerify(w) ==
    \E o \in known \cup ForeignIds, p \in PaymentIds,
       signature \in signed \cup {NoSignature} : VerifyPayment(w, o, p, signature)

Next ==
    \/ \E w \in Workers :
         \/ \E o \in OrderIds, a \in Amounts, c \in Carts \cup {None} :
              CreateOrder(w, o, a, c)
         \/ CreateSave(w) \/ ClientVerify(w) \/ VerifySave(w) \/ Abort(w)
    \/ \E o \in OrderIds, p \in PaymentIds : Pay(o, p)

Spec == Init /\ [][Next]_vars
-----------------------------------------------------------------------------
TypeOK ==
    /\ gateway \in [OrderIds -> Amounts \cup {None}]
    /\ known \subseteq OrderIds
    /\ signed \subseteq OrderIds \X PaymentIds
    /\ data \in [OrderIds -> PaymentRecord]
    /\ columns \in [OrderIds -> PaymentRecord]
    /\ call \in [Workers -> Calls]

\* A record says paid only with a payment the gateway signed for that very
\* order, in the JSON and in the columns, however verifications interleave.
PaidImpliesSigned ==
    \A o \in OrderIds :
        /\ data[o].status = "paid" => << o, data[o].payment_id >> \in signed
        /\ columns[o].status = "paid" => << o, columns[o].payment_id >> \in signed

\* One payment settles one order.
OnePaymentOneOrder ==
    \A o1, o2 \in OrderIds :
        (/\ data[o1].status = "paid"
         /\ data[o2].status = "paid"
         /\ data[o1].payment_id = data[o2].payment_id) => o1 = o2

\* The stored amount is the one the gateway charges, or 0 when the order was
\* not made here; no verification changes it or the cart it belongs to, and the
\* columns a save leaves alone never drift from the JSON.
AmountIsCharged ==
    \A o \in OrderIds :
        data[o] # NoRecord =>
            /\ data[o].amount = IF o \in ForeignIds THEN 0 ELSE gateway[o]
            /\ columns[o] = data[o]
=============================================================================
