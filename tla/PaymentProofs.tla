---------------------------- MODULE PaymentProofs ----------------------------
(***************************************************************************)
(* Theorems of Payment, for any number of orders, payments and workers.    *)
(***************************************************************************)
EXTENDS Payment, TLAPS

\* A record is paid only by a payment the gateway signed for its order.
SignedFor(o, r) == r.status = "paid" => << o, r.payment_id >> \in signed

\* What a record of o says besides its status is fixed by the order.
Charged(o, r) ==
    /\ r.status \in PaymentStatus
    /\ r.amount = IF o \in ForeignIds THEN 0 ELSE gateway[o]
    /\ o \in ForeignIds => r.cart_id = None

\* An idle worker holds no order; a call in flight holds a record of an order that exists at the gateway.
InFlight ==
    \A w \in Workers :
      /\ call[w].pc = "idle" => call[w].id = None
      /\ call[w].pc # "idle" => /\ call[w].id \in OrderIds
                                /\ gateway[call[w].id] # None
                                /\ SignedFor(call[w].id, call[w].record)
                                /\ Charged(call[w].id, call[w].record)

\* A create is alone with its order, which has no record yet.
Creating ==
    \A w \in Workers : call[w].pc = "create" =>
        /\ call[w].id \notin ForeignIds
        /\ data[call[w].id] = NoRecord
        /\ \A v \in Workers : v # w => call[v].id # call[w].id

\* A verification of an order made here keeps the cart that is on record.
Verifying ==
    \A w \in Workers :
        (call[w].pc = "verify" /\ call[w].id \notin ForeignIds) =>
            /\ data[call[w].id] # NoRecord
            /\ call[w].record.cart_id = data[call[w].id].cart_id

\* Stored records, and their columns, are records of their orders.
Stored ==
    \A o \in OrderIds :
        /\ columns[o] = data[o]
        /\ SignedFor(o, data[o])
        /\ data[o] # NoRecord => gateway[o] # None /\ Charged(o, data[o])

\* The orders a client can name.
Origins ==
    /\ \A o \in ForeignIds : gateway[o] # None
    /\ \A o \in known : data[o] # NoRecord

PaymentsOnce == \A s1, s2 \in signed : s1[2] = s2[2] => s1 = s2

Inv == /\ TypeOK /\ InFlight /\ Creating /\ Verifying /\ Stored /\ Origins
       /\ PaymentsOnce
-----------------------------------------------------------------------------
\* The records the service builds are well typed.
LEMMA RecordFacts ==
    /\ NoRecord \in PaymentRecord
    /\ Idle \in Calls
    /\ \A a \in Amounts \cup {0}, c \in Carts \cup {None} :
         CreatedRecord(a, c) \in PaymentRecord
    /\ None \notin PaymentStatus
  <1>1. NoRecord \in PaymentRecord
    BY DEF NoRecord, PaymentRecord
  <1>2. Idle \in Calls
    BY <1>1 DEF Idle, Calls, Stages
  <1>3. \A a \in Amounts \cup {0}, c \in Carts \cup {None} :
          CreatedRecord(a, c) \in PaymentRecord
    BY DEF CreatedRecord, PaymentRecord, PaymentStatus
  <1>4. None \notin PaymentStatus
    BY PaymentAssumption
  <1> QED BY <1>1, <1>2, <1>3, <1>4

LEMMA InvInit == Init => Inv
  <1> SUFFICES ASSUME Init PROVE Inv
    OBVIOUS
  <1>1. TypeOK
    BY RecordFacts DEF Init, TypeOK, NoColumns
  <1>2. InFlight /\ Creating /\ Verifying
    BY DEF Init, InFlight, Creating, Verifying, Idle
  <1>3. Stored
    BY RecordFacts, PaymentAssumption
       DEF Init, Stored, NoColumns, SignedFor, NoRecord, PaymentStatus
  <1>4. Origins /\ PaymentsOnce
    BY PaymentAssumption DEF Init, Origins, PaymentsOnce
  <1> QED BY <1>1, <1>2, <1>3, <1>4 DEF Inv

\* A call ends without touching store or gateway.
LEMMA AbortInv == ASSUME Inv, NEW w \in Workers, Abort(w) PROVE Inv'
  <1>1. /\ \A v \in Workers : call'[v] = IF v = w THEN Idle ELSE call[v]
        /\ call' \in [Workers -> Calls]
    BY RecordFacts DEF Inv, TypeOK, Abort, Return
  <1>2. TypeOK'
    BY <1>1 DEF Inv, TypeOK, Abort
  <1>3. InFlight'
    BY <1>1 DEF Inv, InFlight, Abort, Idle, SignedFor, Charged
  <1>4. Creating' /\ Verifying'
    <2>1. \A v \in Workers : call'[v].id = call[v].id \/ call'[v].id = None
      BY <1>1 DEF Idle
    <2>2. \A v \in Workers : call[v].pc = "create" => call[v].id # None
      BY PaymentAssumption DEF Inv, InFlight
    <2> QED BY <1>1, <2>1, <2>2 DEF Inv, Creating, Verifying, Abort, Idle
  <1>5. Stored' /\ Origins' /\ PaymentsOnce'
    BY DEF Inv, Stored, Origins, PaymentsOnce, Abort, SignedFor, Charged
  <1> QED BY <1>2, <1>3, <1>4, <1>5 DEF Inv

\* provider.create_order under a fresh id.
LEMMA CreateOrderInv ==
    ASSUME Inv, NEW w \in Workers, NEW o \in OrderIds, NEW a \in Amounts,
           NEW c \in Carts \cup {None}, CreateOrder(w, o, a, c)
    PROVE  Inv'
  <1> DEFINE r == CreatedRecord(a, c)
  <1>0. /\ call[w].pc = "idle" /\ gateway[o] = None
        /\ UNCHANGED << known, signed, data, columns >>
        /\ a # None /\ r \in PaymentRecord
    BY PaymentAssumption, RecordFacts DEF CreateOrder
  <1>1. /\ \A v \in Workers :
             call'[v] = IF v = w THEN [pc |-> "create", id |-> o, record |-> r]
                                 ELSE call[v]
        /\ call' \in [Workers -> Calls]
    <2>1. [pc |-> "create", id |-> o, record |-> r] \in Calls
      BY <1>0 DEF Calls, Stages
    <2> QED BY <2>1 DEF Inv, TypeOK, CreateOrder, Hold
  <1>2. /\ gateway' \in [OrderIds -> Amounts \cup {None}]
        /\ \A x \in OrderIds : gateway'[x] = IF x = o THEN a ELSE gateway[x]
    BY DEF Inv, TypeOK, CreateOrder
  <1>3. o \notin ForeignIds /\ data[o] = NoRecord
    BY <1>0 DEF Inv, Origins, Stored
  <1>4. \A v \in Workers : v # w => (call[v].pc # "idle" => call[v].id # o)
    BY <1>0 DEF Inv, InFlight
  <1>5. TypeOK'
    BY <1>0, <1>1, <1>2 DEF Inv, TypeOK
  <1>6. InFlight'
    <2>1. SignedFor(o, r)' /\ Charged(o, r)'
      BY <1>0, <1>2, <1>3 DEF SignedFor, Charged, CreatedRecord, PaymentStatus
    <2> SUFFICES ASSUME NEW v \in Workers
                 PROVE  /\ call'[v].pc = "idle" => call'[v].id = None
                        /\ call'[v].pc # "idle" =>
                             /\ call'[v].id \in OrderIds
                             /\ gateway'[call'[v].id] # None
                             /\ SignedFor(call[v].id, call[v].record)'
                             /\ Charged(call[v].id, call[v].record)'
      BY DEF InFlight
    <2>2. CASE v = w
      BY <1>0, <1>1, <1>2, <2>1, <2>2 DEF SignedFor, Charged
    <2>3. CASE v # w
      <3>1. call'[v] = call[v]
        BY <1>1, <2>3
      <3>2. call[v].pc # "idle" => call[v].id # o /\ call[v].id \in OrderIds
        BY <1>4, <2>3 DEF Inv, InFlight
      <3> QED BY <1>0, <1>2, <3>1, <3>2 DEF Inv, InFlight, SignedFor, Charged
    <2> QED BY <2>2, <2>3
  <1>7. Creating'
    <2>1. \A v \in Workers : call[v].pc = "idle" => call[v].id # o
      BY PaymentAssumption DEF Inv, InFlight
    <2> QED BY <1>0, <1>1, <1>3, <1>4, <2>1 DEF Inv, Creating
  <1>8. Verifying'
    BY <1>0, <1>1 DEF Inv, Verifying
  <1>9. Stored'
    BY <1>0, <1>2 DEF Inv, Stored, SignedFor, Charged
  <1>10. Origins' /\ PaymentsOnce'
    BY <1>0, <1>2, PaymentAssumption DEF Inv, Origins, PaymentsOnce
  <1> QED BY <1>5, <1>6, <1>7, <1>8, <1>9, <1>10 DEF Inv

\* store.save of a new order's record.
LEMMA CreateSaveInv == ASSUME Inv, NEW w \in Workers, CreateSave(w) PROVE Inv'
  <1> DEFINE o == call[w].id
             r == call[w].record
  <1>0. /\ o \in OrderIds /\ r \in PaymentRecord /\ o \notin ForeignIds
        /\ data[o] = NoRecord /\ columns[o] = NoColumns
        /\ gateway[o] # None /\ SignedFor(o, r) /\ Charged(o, r)
        /\ r # NoRecord
        /\ \A v \in Workers : v # w => call[v].id # o
        /\ UNCHANGED << gateway, signed >>
    BY RecordFacts
       DEF CreateSave, Inv, TypeOK, InFlight, Creating, Stored, Calls, NoColumns,
           NoRecord, Charged
  <1>1. /\ \A v \in Workers : call'[v] = IF v = w THEN Idle ELSE call[v]
        /\ call' \in [Workers -> Calls]
    BY RecordFacts DEF Inv, TypeOK, CreateSave, Return
  <1>2. /\ data' \in [OrderIds -> PaymentRecord]
        /\ columns' \in [OrderIds -> PaymentRecord]
        /\ \A x \in OrderIds : data'[x] = IF x = o THEN r ELSE data[x]
        /\ \A x \in OrderIds : columns'[x] = IF x = o THEN r ELSE columns[x]
    BY <1>0 DEF Inv, TypeOK, CreateSave, StoreSave, Upserted
  <1>3. TypeOK'
    BY <1>0, <1>1, <1>2 DEF Inv, TypeOK, CreateSave
  <1>4. InFlight'
    BY <1>0, <1>1 DEF Inv, InFlight, SignedFor, Charged, Idle
  <1>5. Creating' /\ Verifying'
    <2>1. \A v \in Workers : call[v].pc = "create" => call[v].id \in OrderIds
      BY DEF Inv, InFlight
    <2>2. \A v \in Workers : call[v].pc = "verify" => call[v].id \in OrderIds
      BY DEF Inv, InFlight
    <2>3. \A v \in Workers : call'[v].id = call[v].id \/ call'[v].id = None
      BY <1>1 DEF Idle
    <2> QED BY <1>0, <1>1, <1>2, <2>1, <2>2, <2>3, PaymentAssumption
           DEF Inv, Creating, Verifying, Idle
  <1>6. Stored'
    BY <1>0, <1>2 DEF Inv, Stored, SignedFor, Charged
  <1>7. Origins' /\ PaymentsOnce'
    BY <1>0, <1>2 DEF Inv, TypeOK, Origins, PaymentsOnce, CreateSave
  <1> QED BY <1>3, <1>4, <1>5, <1>6, <1>7 DEF Inv

\* The gateway signs one more payment.
LEMMA PayInv ==
    ASSUME Inv, NEW o \in OrderIds, NEW p \in PaymentIds, Pay(o, p) PROVE Inv'
  <1>1. TypeOK'
    BY DEF Inv, TypeOK, Pay
  <1>2. InFlight'
    BY DEF Inv, InFlight, SignedFor, Charged, Pay
  <1>3. Creating' /\ Verifying' /\ Origins'
    BY DEF Inv, Creating, Verifying, Origins, Pay
  <1>4. Stored'
    BY DEF Inv, Stored, SignedFor, Charged, Pay
  <1>5. PaymentsOnce'
    BY DEF Inv, TypeOK, PaymentsOnce, Pay
  <1> QED BY <1>1, <1>2, <1>3, <1>4, <1>5 DEF Inv

\* verify_payment read the record and decided what to save.
LEMMA VerifyPaymentInv ==
    ASSUME Inv, NEW w \in Workers, NEW o \in known \cup ForeignIds,
           NEW p \in PaymentIds, NEW signature \in signed \cup {NoSignature},
           VerifyPayment(w, o, p, signature)
    PROVE  Inv'
  <1>0. /\ o \in OrderIds /\ data[o] \in PaymentRecord /\ call[w].pc = "idle"
        /\ UNCHANGED << gateway, known, signed, data, columns >>
        /\ gateway[o] # None
        /\ o \notin ForeignIds => data[o] # NoRecord
    BY PaymentAssumption DEF Inv, TypeOK, VerifyPayment, Origins, Stored
  <1>1. PICK r \in PaymentRecord :
          /\ call' = [call EXCEPT ![w] = [pc |-> "verify", id |-> o, record |-> r]]
          /\ SignedFor(o, r) /\ Charged(o, r)
          /\ o \notin ForeignIds => r.cart_id = data[o].cart_id
    <2>1. CASE /\ data[o] # NoRecord
               /\ Hold(w, "verify", o, [data[o] EXCEPT !.status = "failed"])
      <3> DEFINE r == [data[o] EXCEPT !.status = "failed"]
      <3>1. r \in PaymentRecord /\ r.status = "failed" /\ r.amount = data[o].amount
            /\ r.cart_id = data[o].cart_id
        BY <1>0 DEF PaymentRecord, PaymentStatus
      <3>2. SignedFor(o, r) /\ Charged(o, r)
        BY <1>0, <2>1, <3>1 DEF Inv, Stored, SignedFor, Charged, PaymentStatus
      <3> QED BY <2>1, <3>1, <3>2 DEF Hold
    <2>2. CASE /\ VerifySignature(o, p, signature)
               /\ Hold(w, "verify", o,
                       [(IF data[o] = NoRecord THEN CreatedRecord(0, None) ELSE data[o])
                          EXCEPT !.status = "paid", !.payment_id = p])
      <3> DEFINE base == IF data[o] = NoRecord THEN CreatedRecord(0, None) ELSE data[o]
                 r == [base EXCEPT !.status = "paid", !.payment_id = p]
      <3>1. base \in PaymentRecord
        BY <1>0, RecordFacts
      <3>2. /\ r \in PaymentRecord /\ r.status = "paid" /\ r.payment_id = p
            /\ r.amount = base.amount /\ r.cart_id = base.cart_id
        BY <3>1 DEF PaymentRecord, PaymentStatus
      <3>3. << o, p >> \in signed
        <4>1. signature = << o, p >> /\ o # None
          BY <1>0, <2>2, PaymentAssumption DEF VerifySignature
        <4> QED BY <4>1 DEF NoSignature
      <3>4. Charged(o, r)
        <4>1. CASE data[o] = NoRecord
          BY <1>0, <3>2, <4>1 DEF Charged, CreatedRecord, PaymentStatus
        <4>2. CASE data[o] # NoRecord
          BY <1>0, <3>2, <4>2 DEF Inv, Stored, Charged, PaymentStatus
        <4> QED BY <4>1, <4>2
      <3>5. o \notin ForeignIds => r.cart_id = data[o].cart_id
        BY <1>0, <3>2
      <3> QED BY <2>2, <3>2, <3>3, <3>4, <3>5 DEF Hold, SignedFor
    <2> QED BY <2>1, <2>2 DEF VerifyPayment
  <1>2. /\ \A v \in Workers :
             call'[v] = IF v = w THEN [pc |-> "verify", id |-> o, record |-> r]
                                 ELSE call[v]
        /\ call' \in [Workers -> Calls]
    <2>1. [pc |-> "verify", id |-> o, record |-> r] \in Calls
      BY <1>0, <1>1 DEF Calls, Stages
    <2> QED BY <1>1, <2>1 DEF Inv, TypeOK
  <1>3. TypeOK'
    BY <1>0, <1>2 DEF Inv, TypeOK
  <1>4. InFlight'
    BY <1>0, <1>1, <1>2 DEF Inv, InFlight, SignedFor, Charged
  <1>5. Creating'
    <2>1. \A v \in Workers : call[v].pc = "create" => call[v].id # o
      BY <1>0 DEF Inv, Creating, Origins
    <2> QED BY <1>0, <1>2, <2>1 DEF Inv, Creating
  <1>6. Verifying'
    BY <1>0, <1>1, <1>2 DEF Inv, Verifying
  <1>7. Stored' /\ Origins' /\ PaymentsOnce'
    BY <1>0 DEF Inv, Stored, Origins, PaymentsOnce, SignedFor, Charged
  <1> QED BY <1>3, <1>4, <1>5, <1>6, <1>7 DEF Inv

\* store.save of a verified record.
LEMMA VerifySaveInv == ASSUME Inv, NEW w \in Workers, VerifySave(w) PROVE Inv'
  <1> DEFINE o == call[w].id
             r == call[w].record
  <1>0. /\ o \in OrderIds /\ r \in PaymentRecord /\ call[w].pc = "verify"
        /\ data[o] \in PaymentRecord /\ columns[o] = data[o]
        /\ gateway[o] # None /\ SignedFor(o, r) /\ Charged(o, r) /\ r # NoRecord
        /\ UNCHANGED << gateway, known, signed >>
    BY RecordFacts
       DEF VerifySave, Inv, TypeOK, InFlight, Stored, Calls, NoRecord, Charged
  <1>1. /\ \A v \in Workers : call'[v] = IF v = w THEN Idle ELSE call[v]
        /\ call' \in [Workers -> Calls]
    BY RecordFacts DEF Inv, TypeOK, VerifySave, Return
  <1>2. Upserted(columns[o], r) = r
    <2>1. CASE data[o] = NoRecord
      BY <1>0, <2>1 DEF Upserted, NoColumns
    <2>2. CASE data[o] # NoRecord
      <3>1. data[o].amount = r.amount /\ data[o].cart_id = r.cart_id
        BY <1>0, <2>2 DEF Inv, Stored, Charged, Verifying
      <3> QED BY <1>0, <2>2, <3>1 DEF Upserted, NoColumns, PaymentRecord
    <2> QED BY <2>1, <2>2
  <1>3. /\ data' \in [OrderIds -> PaymentRecord]
        /\ columns' \in [OrderIds -> PaymentRecord]
        /\ \A x \in OrderIds : data'[x] = IF x = o THEN r ELSE data[x]
        /\ \A x \in OrderIds : columns'[x] = IF x = o THEN r ELSE columns[x]
    BY <1>0, <1>2 DEF Inv, TypeOK, VerifySave, StoreSave
  <1>4. TypeOK'
    BY <1>0, <1>1, <1>3 DEF Inv, TypeOK
  <1>5. InFlight'
    BY <1>0, <1>1 DEF Inv, InFlight, SignedFor, Charged, Idle
  <1>6. Creating'
    <2>1. \A v \in Workers : call[v].pc = "create" =>
             call[v].id # o /\ call[v].id \in OrderIds /\ v # w
      BY <1>0 DEF Inv, Creating, InFlight
    <2>2. \A v \in Workers : call'[v].id = call[v].id \/ call'[v].id = None
      BY <1>1 DEF Idle
    <2> QED BY <1>1, <1>3, <2>1, <2>2, PaymentAssumption DEF Inv, Creating, Idle
  <1>7. Verifying'
    <2> SUFFICES ASSUME NEW v \in Workers, v # w, call[v].pc = "verify",
                        call[v].id \notin ForeignIds
                 PROVE  /\ data'[call[v].id] # NoRecord
                        /\ call[v].record.cart_id = data'[call[v].id].cart_id
      BY <1>1 DEF Verifying, Idle
    <2>1. call[v].id \in OrderIds /\ data[call[v].id] # NoRecord
          /\ call[v].record.cart_id = data[call[v].id].cart_id
      BY DEF Inv, InFlight, Verifying
    <2>2. o \notin ForeignIds => r.cart_id = data[o].cart_id
      BY <1>0 DEF Inv, Verifying
    <2> QED BY <1>0, <1>3, <2>1, <2>2
  <1>8. Stored'
    BY <1>0, <1>3 DEF Inv, Stored, SignedFor, Charged
  <1>9. Origins' /\ PaymentsOnce'
    BY <1>0, <1>3 DEF Inv, TypeOK, Origins, PaymentsOnce
  <1> QED BY <1>4, <1>5, <1>6, <1>7, <1>8, <1>9 DEF Inv

LEMMA InvNext == Inv /\ [Next]_vars => Inv'
  <1> SUFFICES ASSUME Inv, [Next]_vars PROVE Inv'
    OBVIOUS
  <1>1. ASSUME NEW w \in Workers, ClientVerify(w) PROVE Inv'
    BY <1>1, VerifyPaymentInv DEF ClientVerify
  <1>2. CASE UNCHANGED vars
    BY <1>2 DEF vars, Inv, TypeOK, InFlight, Creating, Verifying, Stored, Origins,
           PaymentsOnce, SignedFor, Charged
  <1> QED BY <1>1, <1>2, AbortInv, CreateOrderInv, CreateSaveInv, PayInv, VerifySaveInv
         DEF Next
-----------------------------------------------------------------------------
\* Types of every reachable state.
THEOREM TypeCorrect == Spec => []TypeOK
  <1>1. Inv => TypeOK
    BY DEF Inv
  <1> QED BY <1>1, InvInit, InvNext, PTL DEF Spec

\* No interleaving of verifications, lost answers and failed saves can leave an
\* order paid, in the JSON or in the columns, without the gateway's signature.
THEOREM PaidIsSigned == Spec => []PaidImpliesSigned
  <1>1. Inv => PaidImpliesSigned
    BY DEF Inv, Stored, SignedFor, PaidImpliesSigned
  <1> QED BY <1>1, InvInit, InvNext, PTL DEF Spec

\* No payment settles two orders.
THEOREM PaymentSettlesOne == Spec => []OnePaymentOneOrder
  <1>1. Inv => OnePaymentOneOrder
    BY DEF Inv, Stored, SignedFor, PaymentsOnce, OnePaymentOneOrder
  <1> QED BY <1>1, InvInit, InvNext, PTL DEF Spec

\* The amount on record is the gateway's, and the upsert that leaves amount and
\* cart columns alone leaves nothing stale.
THEOREM AmountCharged == Spec => []AmountIsCharged
  <1>1. Inv => AmountIsCharged
    BY DEF Inv, Stored, Charged, AmountIsCharged
  <1> QED BY <1>1, InvInit, InvNext, PTL DEF Spec
=============================================================================
