--------------------------- MODULE ShippingProofs ----------------------------
(***************************************************************************)
(* Theorems of Shipping, for any number of orders, waybills and calls.     *)
(***************************************************************************)
EXTENDS Shipping, SequenceTheorems, TLAPS

\* What a call is about.
Arguments ==
    \A i \in DOMAIN calls :
        /\ calls[i].op = "ship" => calls[i].arg \in Orders
        /\ calls[i].op \in {"track", "cancel"} => calls[i].arg \in Waybills

\* The mock answers at once, and knows an order by one waybill.
MockIsPrompt ==
    provider = "mock" =>
        /\ wire = {}
        /\ \A i \in DOMAIN calls : /\ calls[i].out # "pending" /\ calls[i].answer = None
                                   /\ calls[i].op = "track" => calls[i].out # "delivered"
        /\ \A w \in Waybills : parcels[w] # NoParcel =>
             /\ parcels[w].order \in Orders \ Unserved
             /\ w = MockWaybill[parcels[w].order]
             /\ parcels[w].text \in {"manifested", "cancelled"}

\* Each parcel goes back to one ship call that was carried out.
Books ==
    \A w \in Waybills : parcels[w] # NoParcel =>
        LET i == parcels[w].call IN
        /\ i \in DOMAIN calls /\ i \notin wire
        /\ calls[i].op = "ship"
        /\ calls[i].out \in {w, "pending", "error", "raised"}
        /\ (calls[i].out = "pending" /\ calls[i].answer # None) =>
             Manifested(calls[i].answer) = w

Ended == {"cancelled", "returned"}

\* The answer to call i is still true.
AnswerHolds(i) ==
    LET a   == calls[i].answer
        arg == calls[i].arg
    IN  /\ calls[i].op = "ship" =>
             /\ a \in Manifests
             /\ Manifested(a) \in Waybills => parcels[Manifested(a)].order = arg
        /\ calls[i].op = "track" =>
             /\ a \in Tracks
             /\ a.text = "delivered" => parcels[arg].text = "delivered"
             /\ a.text \in Ended => parcels[arg].text \in Ended
        /\ calls[i].op = "cancel" =>
             /\ a \in Cancellations
             /\ a.status # "false" => parcels[arg].text = "cancelled"
        /\ calls[i].op = "pickup" =>
             /\ a \in Pickups
             /\ a.pickup_id => i \in pickups

Answers == \A i \in DOMAIN calls : calls[i].answer # None => AnswerHolds(i)

\* A request that has not arrived has no answer.
OnTheWay ==
    \A i \in wire :
        /\ calls[i].answer = None
        /\ calls[i].op = "ship" => calls[i].out \in {"pending", "error", "raised"}

Inv == /\ TypeOK /\ Arguments /\ MockIsPrompt /\ Books /\ Answers /\ OnTheWay
       /\ HeldIsManifested /\ OneParcelPerCall /\ CancelHolds /\ FinalReportsHold
       /\ PickupIsBooked
-----------------------------------------------------------------------------
LEMMA StatusFacts ==
    ASSUME NEW raw
    PROVE  /\ NormalizeStatus(raw) \in SHIPMENT_STATUSES
           /\ NormalizeStatus(raw) = "delivered" => raw = "delivered"
           /\ NormalizeStatus(raw) = "cancelled" => raw \in Ended
  <1>1. CASE \E s \in DOMAIN STATUS_MAP : raw \in STATUS_MAP[s]
    <2>1. /\ NormalizeStatus(raw) \in DOMAIN STATUS_MAP
          /\ raw \in STATUS_MAP[NormalizeStatus(raw)]
      BY <1>1, Zenon DEF NormalizeStatus
    <2>2. /\ STATUS_MAP["delivered"] = {"delivered"}
          /\ STATUS_MAP["cancelled"] = Ended
      BY DEF STATUS_MAP, Ended
    <2> QED BY <2>1, <2>2 DEF SHIPMENT_STATUSES
  <1>2. CASE ~ \E s \in DOMAIN STATUS_MAP : raw \in STATUS_MAP[s]
    BY <1>2 DEF NormalizeStatus, SHIPMENT_STATUSES
  <1> QED BY <1>1, <1>2

LEMMA ParcelFacts ==
    /\ NoParcel \notin Parcel
    /\ NoParcel.call = 0 /\ NoParcel.text = None
    /\ 0 \notin 1..MaxCalls /\ None \notin Texts /\ None \notin Ended \cup {"delivered"}
  BY ShippingAssumption DEF NoParcel, Parcel, Ended

\* A call that is added: the calls there were keep their place.
LEMMA MadeFacts ==
    ASSUME TypeOK, NEW op \in Ops, NEW arg \in Orders \cup Waybills \cup {None},
           NEW out \in Outcomes, Made(op, arg, out)
    PROVE  /\ calls' \in Seq(Call) /\ Len(calls') <= MaxCalls
           /\ Len(calls) + 1 \in 1..MaxCalls /\ Len(calls) + 1 \notin DOMAIN calls
           /\ DOMAIN calls' = DOMAIN calls \cup {Len(calls) + 1}
           /\ \A j \in DOMAIN calls : calls'[j] = calls[j] /\ j < Len(calls) + 1
           /\ calls'[Len(calls) + 1] = [op |-> op, arg |-> arg, answer |-> None, out |-> out]
  <1> DEFINE c == [op |-> op, arg |-> arg, answer |-> None, out |-> out]
  <1>1. c \in Call /\ calls \in Seq(Call) /\ Len(calls) \in Nat /\ MaxCalls \in Nat
    BY ShippingAssumption DEF Call, TypeOK
  <1>2. Len(calls) < MaxCalls /\ calls' = Append(calls, c)
    BY DEF Made
  <1> HIDE DEF c
  <1>3. /\ calls' \in Seq(Call) /\ Len(calls') = Len(calls) + 1
        /\ \A j \in 1..Len(calls) : calls'[j] = calls[j]
        /\ calls'[Len(calls) + 1] = c
    BY <1>1, <1>2, AppendProperties
  <1>4. DOMAIN calls = 1..Len(calls) /\ DOMAIN calls' = 1..Len(calls')
    BY <1>1, <1>3, LenProperties
  <1> QED BY <1>1, <1>2, <1>3, <1>4 DEF c

\* A call that is changed: the others stay as they are.
LEMMA ChangedFacts ==
    ASSUME TypeOK, NEW i \in DOMAIN calls, NEW c \in Call, calls' = [calls EXCEPT ![i] = c]
    PROVE  /\ calls' \in Seq(Call) /\ Len(calls') <= MaxCalls
           /\ DOMAIN calls' = DOMAIN calls
           /\ \A j \in DOMAIN calls : calls'[j] = IF j = i THEN c ELSE calls[j]
  <1>1. calls \in Seq(Call) /\ DOMAIN calls = 1..Len(calls)
    BY LenProperties DEF TypeOK
  <1>2. /\ calls' \in Seq(Call) /\ Len(calls') = Len(calls)
        /\ \A j \in 1..Len(calls) : calls'[j] = IF j = i THEN c ELSE calls[j]
    BY <1>1, ExceptSeq
  <1> QED BY <1>1, <1>2, LenProperties DEF TypeOK

LEMMA CallFacts ==
    ASSUME TypeOK
    PROVE  /\ DOMAIN calls \subseteq 1..MaxCalls
           /\ \A i \in DOMAIN calls : calls[i] \in Call
  BY LenProperties, ElementOfSeq, ShippingAssumption DEF TypeOK
-----------------------------------------------------------------------------
LEMMA InvInit == Init => Inv
  <1> SUFFICES ASSUME Init PROVE Inv
    OBVIOUS
  <1>1. TypeOK
    BY ShippingAssumption, EmptySeq DEF Init, TypeOK
  <1>2. DOMAIN calls = {}
    BY DEF Init
  <1>3. /\ Arguments /\ MockIsPrompt /\ Books /\ Answers /\ OnTheWay
        /\ HeldIsManifested /\ OneParcelPerCall /\ CancelHolds /\ FinalReportsHold
        /\ PickupIsBooked
    BY <1>2 DEF Init, Arguments, MockIsPrompt, Books, Answers, OnTheWay, HeldIsManifested,
                OneParcelPerCall, CancelHolds, FinalReportsHold, PickupIsBooked
  <1> QED BY <1>1, <1>3 DEF Inv

LEMMA RequestInv ==
    ASSUME Inv, NEW op \in Ops, NEW arg \in Orders \cup Waybills \cup {None},
           op = "ship" => arg \in Orders,
           op \in {"track", "cancel"} => arg \in Waybills,
           Request(op, arg)
    PROVE  Inv'
  <1> DEFINE n == Len(calls) + 1
  <1>1. /\ calls' \in Seq(Call) /\ Len(calls') <= MaxCalls
        /\ n \in 1..MaxCalls /\ n \notin DOMAIN calls
        /\ DOMAIN calls' = DOMAIN calls \cup {n}
        /\ \A j \in DOMAIN calls : calls'[j] = calls[j] /\ j < n
        /\ calls'[n] = [op |-> op, arg |-> arg, answer |-> None, out |-> "pending"]
    BY MadeFacts DEF Inv, Request, Outcomes
  <1>2. /\ provider = "delhivery" /\ wire' = wire \cup {n}
        /\ UNCHANGED << provider, parcels, pickups >>
        /\ "pending" \notin Waybills
    BY ShippingAssumption DEF Request
  <1> HIDE DEF n
  <1>3. TypeOK'
    BY <1>1, <1>2 DEF Inv, TypeOK
  <1>4. Arguments' /\ MockIsPrompt'
    BY <1>1, <1>2 DEF Inv, Arguments, MockIsPrompt
  <1>5. Books' /\ OneParcelPerCall'
    BY <1>1, <1>2 DEF Inv, Books, OneParcelPerCall
  <1>6. Answers' /\ PickupIsBooked' /\ OnTheWay'
    BY <1>1, <1>2 DEF Inv, TypeOK, Answers, AnswerHolds, PickupIsBooked, OnTheWay
  <1>7. HeldIsManifested'
    BY <1>1, <1>2 DEF Inv, HeldIsManifested
  <1>8. CancelHolds' /\ FinalReportsHold'
    BY <1>1, <1>2 DEF Inv, CancelHolds, FinalReportsHold, ShippedAgain
  <1> QED BY <1>3, <1>4, <1>5, <1>6, <1>7, <1>8 DEF Inv

\* A call that ends: what its caller is told follows from an answer that is true.
LEMMA EndInv ==
    ASSUME Inv, NEW i \in 1..MaxCalls, Return(i) \/ Fail(i)
    PROVE  Inv'
  <1> DEFINE a == calls[i].answer
             r == calls'[i].out
             c == [calls[i] EXCEPT !.out = r, !.answer = None]
  <1>0. /\ i \in DOMAIN calls /\ calls[i].out = "pending"
        /\ calls' = [calls EXCEPT ![i] = c]
        /\ UNCHANGED << provider, parcels, pickups, wire >>
        /\ \/ Return(i) /\ a # None /\ r = Result(calls[i])
           \/ Fail(i) /\ r \in Failures(calls[i])
    <2>1. i \in DOMAIN calls /\ calls[i] \in Call
      BY CallFacts DEF Return, Fail, Pending, Inv
    <2>2. CASE Return(i)
      BY <2>1, <2>2 DEF Return, Pending, Call
    <2>3. CASE Fail(i)
      BY <2>1, <2>3 DEF Fail, Pending, Call
    <2> QED BY <2>2, <2>3
  <1>1. calls[i] \in Call /\ calls[i].op \in Ops
    BY <1>0, CallFacts DEF Inv, Call
  <1>2. /\ r \in Outcomes \ {"pending"}
        /\ calls[i].op = "ship" /\ r \in Waybills => r = Manifested(a) /\ a # None
        /\ calls[i].op = "ship" /\ r \notin Waybills \cup {"error", "raised"} => 
              r = "rejected" /\ a # None /\ r = Manifested(a)
        /\ calls[i].op = "track" => r # "yes" /\ (r \in {"delivered", "cancelled"} => 
              a # None /\ r = NormalizeStatus(a.text))
        /\ calls[i].op = "cancel" => (r = "yes" => a # None /\ a.status # "false")
        /\ calls[i].op = "pickup" => (r = "booked" => a # None /\ a.pickup_id)
    <2>1. CASE a # None /\ r = Result(calls[i])
      <3>0. a # None /\ r = Result(calls[i])
        BY <2>1
      <3>1. CASE calls[i].op = "ship"
        <4>1. r = Manifested(a) /\ a \in Manifests
          BY <3>0, <3>1, <1>0 DEF Result, Inv, Answers, AnswerHolds
        <4>2. r \in Waybills \cup {"rejected"}
          BY <4>1 DEF Manifested, Manifests
        <4> QED BY <3>0, <3>1, <4>1, <4>2, ShippingAssumption DEF Outcomes
      <3>2. CASE calls[i].op = "track"
        <4>1. r = NormalizeStatus(a.text)
          BY <3>0, <3>2 DEF Result
        <4> QED BY <3>0, <3>2, <4>1, StatusFacts DEF Outcomes, SHIPMENT_STATUSES, STATUS_MAP
      <3>3. CASE calls[i].op = "cancel"
        BY <3>0, <3>3 DEF Result, Cancelled, Outcomes
      <3>4. CASE calls[i].op = "pickup"
        BY <3>0, <3>4 DEF Result, Scheduled, Outcomes
      <3> QED BY <1>1, <3>1, <3>2, <3>3, <3>4 DEF Ops
    <2>2. CASE r \in Failures(calls[i])
      BY <2>2, <1>1, ShippingAssumption DEF Failures, Ops, Outcomes
    <2> QED BY <1>0, <2>1, <2>2
  <1>3. /\ c \in Call /\ c.op = calls[i].op /\ c.arg = calls[i].arg
        /\ c.answer = None /\ c.out = r
    BY <1>1, <1>2 DEF Call
  <1> HIDE DEF r, c
  <1>4. /\ calls' \in Seq(Call) /\ Len(calls') <= MaxCalls
        /\ DOMAIN calls' = DOMAIN calls
        /\ \A j \in DOMAIN calls : calls'[j] = IF j = i THEN c ELSE calls[j]
    BY <1>0, <1>3, ChangedFacts DEF Inv
  <1>5. provider # "mock"
    BY <1>0 DEF Inv, MockIsPrompt
  <1>6. TypeOK'
    BY <1>0, <1>4 DEF Inv, TypeOK
  <1>7. Arguments' /\ MockIsPrompt'
    BY <1>0, <1>3, <1>4, <1>5 DEF Inv, Arguments, MockIsPrompt
  <1>8. Books'
    <2> SUFFICES ASSUME NEW w \in Waybills, parcels[w] # NoParcel
                 PROVE  LET k == parcels[w].call IN
                        /\ k \in DOMAIN calls' /\ k \notin wire'
                        /\ calls'[k].op = "ship"
                        /\ calls'[k].out \in {w, "pending", "error", "raised"}
                        /\ (calls'[k].out = "pending" /\ calls'[k].answer # None) =>
                             Manifested(calls'[k].answer) = w
      BY <1>0 DEF Books
    <2>1. /\ parcels[w].call \in DOMAIN calls /\ parcels[w].call \notin wire
          /\ calls[parcels[w].call].op = "ship"
          /\ calls[parcels[w].call].out \in {w, "pending", "error", "raised"}
          /\ (calls[parcels[w].call].out = "pending" /\ calls[parcels[w].call].answer # None) =>
               Manifested(calls[parcels[w].call].answer) = w
      BY DEF Inv, Books
    <2>2. CASE parcels[w].call = i
      BY <2>1, <2>2, <1>0, <1>2, <1>3, <1>4
    <2>3. CASE parcels[w].call # i
      BY <2>1, <2>3, <1>0, <1>4
    <2> QED BY <2>2, <2>3
  <1>9. OneParcelPerCall' /\ Answers' /\ OnTheWay'
    <2>1. i \in wire => r \in Failures(calls[i])
      BY <1>0 DEF Inv, OnTheWay
    <2> QED BY <2>1, <1>0, <1>3, <1>4
            DEF Inv, TypeOK, OneParcelPerCall, Answers, AnswerHolds, OnTheWay, Failures
  <1>10. HeldIsManifested'
    BY <1>0, <1>2, <1>3, <1>4 DEF Inv, HeldIsManifested, Answers, AnswerHolds
  <1>11. \A w \in Waybills, j \in Nat : ShippedAgain(w, j) => ShippedAgain(w, j)'
    BY <1>0, <1>4, ShippingAssumption DEF ShippedAgain
  <1>12. DOMAIN calls \subseteq Nat /\ \A j \in DOMAIN calls :
            calls[j].op \in {"track", "cancel"} => calls[j].arg \in Waybills
    BY CallFacts DEF Inv, Arguments
  <1>13. CancelHolds'
    BY <1>0, <1>2, <1>3, <1>4, <1>11, <1>12 DEF Inv, CancelHolds, Answers, AnswerHolds
  <1>14. FinalReportsHold'
    <2>1. calls[i].op = "track" =>
            /\ r = "delivered" => parcels[calls[i].arg].text = "delivered"
            /\ r = "cancelled" => parcels[calls[i].arg].text \in Ended
      BY <1>0, <1>2, StatusFacts DEF Inv, Answers, AnswerHolds
    <2> QED BY <2>1, <1>0, <1>3, <1>4, <1>11, <1>12 DEF Inv, FinalReportsHold, Ended
  <1>15. PickupIsBooked'
    BY <1>0, <1>2, <1>3, <1>4 DEF Inv, PickupIsBooked, Answers, AnswerHolds
  <1> QED BY <1>6, <1>7, <1>8, <1>9, <1>10, <1>13, <1>14, <1>15 DEF Inv

\* A request that arrives: the answer is kept while its call waits.
LEMMA ArriveFacts ==
    ASSUME Inv, NEW i, NEW op \in Ops, Arrive(i, op),
           NEW a \in Manifests \cup Tracks \cup Cancellations \cup Pickups, Answer(i, a)
    PROVE  /\ i \in wire /\ i \in DOMAIN calls /\ i \in 1..MaxCalls /\ calls[i].op = op
           /\ provider # "mock" /\ wire' = wire \ {i}
           /\ calls' \in Seq(Call) /\ Len(calls') <= MaxCalls
           /\ DOMAIN calls' = DOMAIN calls
           /\ \A j \in DOMAIN calls :
                /\ j # i => calls'[j] = calls[j]
                /\ calls'[j].op = calls[j].op
                /\ calls'[j].arg = calls[j].arg
                /\ calls'[j].out = calls[j].out
           /\ calls'[i].answer = IF calls[i].out = "pending" THEN a ELSE calls[i].answer
  <1> DEFINE c == [calls[i] EXCEPT !.answer = a]
  <1>1. /\ i \in wire /\ calls[i].op = op /\ wire' = wire \ {i}
        /\ i \in DOMAIN calls /\ i \in 1..MaxCalls /\ calls[i] \in Call
        /\ provider # "mock"
    BY CallFacts DEF Arrive, Inv, TypeOK, MockIsPrompt
  <1>2. /\ c \in Call /\ c.op = op /\ c.arg = calls[i].arg
        /\ c.out = calls[i].out /\ c.answer = a
    BY <1>1 DEF Call
  <1> HIDE DEF c
  <1>3. CASE calls[i].out = "pending"
    <2>1. calls' = [calls EXCEPT ![i] = c]
      BY <1>1, <1>3 DEF Answer, Pending, c
    <2>2. /\ calls' \in Seq(Call) /\ Len(calls') <= MaxCalls
          /\ DOMAIN calls' = DOMAIN calls
          /\ \A j \in DOMAIN calls : calls'[j] = IF j = i THEN c ELSE calls[j]
      BY <1>1, <1>2, <2>1, ChangedFacts DEF Inv
    <2> QED BY <1>1, <1>2, <1>3, <2>2
  <1>4. CASE calls[i].out # "pending"
    BY <1>1, <1>4 DEF Answer, Pending, Inv, TypeOK
  <1> QED BY <1>3, <1>4

\* What the courier never takes back.
Kept ==
    \A w \in Waybills :
        /\ parcels[w] # NoParcel => /\ parcels'[w].order = parcels[w].order
                                    /\ parcels'[w].call = parcels[w].call
        /\ parcels[w].text = "delivered" => parcels'[w].text = "delivered"
        /\ parcels[w].text = "cancelled" => parcels'[w].text = "cancelled"
        /\ parcels[w].text \in Ended => parcels'[w].text \in Ended

\* What callers were told, and what they are about to be told, stays true as long
\* as the courier takes nothing back.
LEMMA KeptFacts ==
    ASSUME Inv, Kept, pickups \subseteq pickups',
           DOMAIN calls' = DOMAIN calls,
           \A j \in DOMAIN calls : /\ calls'[j].op = calls[j].op
                                   /\ calls'[j].arg = calls[j].arg
                                   /\ calls'[j].out = calls[j].out
    PROVE  /\ Arguments' /\ HeldIsManifested' /\ CancelHolds' /\ FinalReportsHold'
           /\ PickupIsBooked'
           /\ \A j \in DOMAIN calls :
                (calls'[j] = calls[j] /\ calls[j].answer # None) => AnswerHolds(j)'
  <1>1. \A w, j : ShippedAgain(w, j) => ShippedAgain(w, j)'
    BY DEF ShippedAgain
  <1>3. \A w \in Waybills : parcels[w].order \in Orders => parcels[w] # NoParcel
    BY ShippingAssumption DEF NoParcel
  <1>4. HeldIsManifested'
    BY <1>3 DEF Inv, Kept, HeldIsManifested, Arguments
  <1>5. CancelHolds' /\ FinalReportsHold'
    BY <1>1 DEF Inv, Kept, CancelHolds, FinalReportsHold, Arguments, Ended
  <1>6. Arguments' /\ PickupIsBooked'
    BY DEF Inv, Arguments, PickupIsBooked
  <1>7. ASSUME NEW j \in DOMAIN calls, calls'[j] = calls[j], calls[j].answer # None
        PROVE  AnswerHolds(j)'
    <2>1. /\ AnswerHolds(j)
          /\ calls[j].op = "ship" => calls[j].arg \in Orders
          /\ calls[j].op \in {"track", "cancel"} => calls[j].arg \in Waybills
      BY <1>7 DEF Inv, Answers, Arguments
    <2> QED BY <1>3, <1>7, <2>1 DEF Kept, AnswerHolds
  <1> QED BY <1>4, <1>5, <1>6, <1>7

\* What a request that arrives changes besides the courier's own records.
LEMMA CourierManifestInv ==
    ASSUME Inv, NEW i \in 1..MaxCalls, CourierManifest(i)
    PROVE  Inv'
  <1>1. PICK a \in Manifests :
          /\ Answer(i, a)
          /\ \/ /\ calls[i].arg \notin Unserved
                /\ a.success \/ a.package
                /\ a.waybill # None
                /\ parcels[a.waybill] = NoParcel
                /\ parcels' = [parcels EXCEPT ![a.waybill] =
                      [call |-> i, order |-> calls[i].arg, text |-> "manifested"]]
             \/ /\ ~a.success /\ ~a.package
                /\ UNCHANGED parcels
    BY DEF CourierManifest
  <1>2. /\ i \in wire /\ i \in DOMAIN calls /\ calls[i].op = "ship"
        /\ provider # "mock" /\ wire' = wire \ {i}
        /\ calls' \in Seq(Call) /\ Len(calls') <= MaxCalls
        /\ DOMAIN calls' = DOMAIN calls
        /\ \A j \in DOMAIN calls :
             /\ j # i => calls'[j] = calls[j]
             /\ calls'[j].op = calls[j].op
             /\ calls'[j].arg = calls[j].arg
             /\ calls'[j].out = calls[j].out
        /\ calls'[i].answer = IF calls[i].out = "pending" THEN a ELSE calls[i].answer
    BY <1>1, ArriveFacts DEF CourierManifest, Ops
  <1>3. /\ UNCHANGED << provider, pickups >>
        /\ calls[i].answer = None /\ calls[i].out \in {"pending", "error", "raised"}
        /\ calls[i].arg \in Orders /\ "manifested" \in Texts
        /\ None \notin Waybills /\ "rejected" \notin Waybills
        /\ \A w \in Waybills : parcels[w] # NoParcel => parcels[w].call # i
    BY <1>2, ShippingAssumption DEF CourierManifest, Inv, Arguments, OnTheWay, Books
  <1>4. MockIsPrompt' /\ OnTheWay'
    BY <1>2, <1>3 DEF Inv, TypeOK, MockIsPrompt, OnTheWay
  <1>5. CASE UNCHANGED parcels /\ ~a.success /\ ~a.package
    <2>1. Manifested(a) = "rejected"
      BY <1>5 DEF Manifested
    <2>2. Kept
      BY <1>5 DEF Kept
    <2>3. /\ Arguments' /\ HeldIsManifested' /\ CancelHolds' /\ FinalReportsHold'
          /\ PickupIsBooked'
          /\ \A j \in DOMAIN calls :
               (calls'[j] = calls[j] /\ calls[j].answer # None) => AnswerHolds(j)'
      BY <1>2, <1>3, <2>2, KeptFacts
    <2>4. TypeOK'
      BY <1>2, <1>3, <1>5 DEF Inv, TypeOK
    <2>5. Books' /\ OneParcelPerCall'
      BY <1>2, <1>3, <1>5 DEF Inv, Books, OneParcelPerCall
    <2>6. calls'[i].answer # None => AnswerHolds(i)'
      BY <1>2, <1>3, <2>1 DEF AnswerHolds
    <2>7. Answers'
      BY <1>2, <2>3, <2>6 DEF Answers
    <2> QED BY <1>4, <2>3, <2>4, <2>5, <2>7 DEF Inv
  <1>6. CASE /\ a.success \/ a.package
             /\ a.waybill # None
             /\ parcels[a.waybill] = NoParcel
             /\ parcels' = [parcels EXCEPT ![a.waybill] =
                   [call |-> i, order |-> calls[i].arg, text |-> "manifested"]]
    <2> DEFINE p == [call |-> i, order |-> calls[i].arg, text |-> "manifested"]
    <2>1. p \in Parcel /\ p # NoParcel /\ p.call = i /\ p.order = calls[i].arg
      BY <1>3, ParcelFacts DEF Parcel
    <2> HIDE DEF p
    <2>2. /\ a.waybill \in Waybills /\ Manifested(a) = a.waybill
          /\ parcels' \in [Waybills -> Parcel \cup {NoParcel}]
          /\ \A w \in Waybills : parcels'[w] = IF w = a.waybill THEN p ELSE parcels[w]
      BY <1>6, <2>1 DEF Manifests, Manifested, Inv, TypeOK, p
    <2>3. Kept
      <3>1. \A w \in Waybills : parcels[w] = NoParcel => parcels[w].text = None
        BY ParcelFacts
      <3>2. \A w \in Waybills : w # a.waybill => parcels'[w] = parcels[w]
        BY <2>2
      <3> QED BY <1>6, <3>1, <3>2, ParcelFacts DEF Kept, Ended
    <2>4. /\ Arguments' /\ HeldIsManifested' /\ CancelHolds' /\ FinalReportsHold'
          /\ PickupIsBooked'
          /\ \A j \in DOMAIN calls :
               (calls'[j] = calls[j] /\ calls[j].answer # None) => AnswerHolds(j)'
      BY <1>2, <1>3, <2>3, KeptFacts
    <2>5. TypeOK'
      BY <1>2, <1>3, <2>2 DEF Inv, TypeOK
    <2>6. Books'
      <3> SUFFICES ASSUME NEW w \in Waybills, parcels'[w] # NoParcel
                   PROVE  LET k == parcels'[w].call IN
                          /\ k \in DOMAIN calls' /\ k \notin wire'
                          /\ calls'[k].op = "ship"
                          /\ calls'[k].out \in {w, "pending", "error", "raised"}
                          /\ (calls'[k].out = "pending" /\ calls'[k].answer # None) =>
                               Manifested(calls'[k].answer) = w
        BY DEF Books
      <3>1. CASE w = a.waybill
        BY <3>1, <1>2, <1>3, <2>1, <2>2
      <3>2. CASE w # a.waybill
        BY <3>2, <1>2, <1>3, <2>2 DEF Inv, Books
      <3> QED BY <3>1, <3>2
    <2>7. OneParcelPerCall'
      <3>1. \A w \in Waybills : parcels[w].call # i
        BY <1>3, ParcelFacts
      <3> QED BY <2>1, <2>2, <3>1 DEF Inv, OneParcelPerCall
    <2>8. calls'[i].answer # None => AnswerHolds(i)'
      BY <1>2, <1>3, <2>1, <2>2 DEF AnswerHolds
    <2>9. Answers'
      BY <1>2, <2>4, <2>8 DEF Answers
    <2> QED BY <1>4, <2>4, <2>5, <2>6, <2>7, <2>9 DEF Inv
  <1> QED BY <1>1, <1>5, <1>6

\* A request that makes no parcel: the courier takes nothing back, and answers
\* what is true of its records.
LEMMA OtherRequestInv ==
    ASSUME Inv, NEW i \in 1..MaxCalls, NEW op \in Ops \ {"ship"}, Arrive(i, op),
           NEW a \in Tracks \cup Cancellations \cup Pickups, Answer(i, a),
           UNCHANGED provider, pickups' \subseteq 1..MaxCalls, pickups \subseteq pickups',
           parcels' \in [Waybills -> Parcel \cup {NoParcel}], Kept,
           \A w \in Waybills : parcels'[w] = NoParcel <=> parcels[w] = NoParcel,
           calls'[i].answer = a => AnswerHolds(i)'
    PROVE  Inv'
  <1>1. /\ i \in wire /\ i \in DOMAIN calls /\ calls[i].op = op
        /\ provider # "mock" /\ wire' = wire \ {i}
        /\ calls' \in Seq(Call) /\ Len(calls') <= MaxCalls
        /\ DOMAIN calls' = DOMAIN calls
        /\ \A j \in DOMAIN calls :
             /\ j # i => calls'[j] = calls[j]
             /\ calls'[j].op = calls[j].op
             /\ calls'[j].arg = calls[j].arg
             /\ calls'[j].out = calls[j].out
        /\ calls'[i].answer = IF calls[i].out = "pending" THEN a ELSE calls[i].answer
    BY ArriveFacts
  <1>2. /\ Arguments' /\ HeldIsManifested' /\ CancelHolds' /\ FinalReportsHold'
        /\ PickupIsBooked'
        /\ \A j \in DOMAIN calls :
             (calls'[j] = calls[j] /\ calls[j].answer # None) => AnswerHolds(j)'
    BY <1>1, KeptFacts
  <1>3. calls[i].answer = None
    BY <1>1 DEF Inv, OnTheWay
  <1>4. TypeOK' /\ MockIsPrompt' /\ OnTheWay'
    BY <1>1 DEF Inv, TypeOK, MockIsPrompt, OnTheWay
  <1>5. Books'
    BY <1>1 DEF Inv, Books, Kept
  <1>6. OneParcelPerCall'
    BY ParcelFacts DEF Inv, TypeOK, OneParcelPerCall, Kept
  <1>7. Answers'
    BY <1>1, <1>2, <1>3 DEF Answers
  <1> QED BY <1>2, <1>4, <1>5, <1>6, <1>7 DEF Inv

LEMMA CourierTrackInv == ASSUME Inv, NEW i \in 1..MaxCalls, CourierTrack(i) PROVE Inv'
  <1> DEFINE w == calls[i].arg
             a == [text |-> parcels[w].text]
  <1>1. /\ Arrive(i, "track") /\ Answer(i, a) /\ i \in wire
        /\ UNCHANGED << provider, parcels, pickups >>
    BY DEF CourierTrack, Arrive
  <1>2. w \in Waybills /\ i \in DOMAIN calls /\ calls[i].op = "track"
    BY <1>1 DEF Arrive, Inv, TypeOK, Arguments
  <1>3. a \in Tracks
    BY <1>2, ParcelFacts DEF Inv, TypeOK, Parcel, Tracks
  <1>4. calls'[i].op = "track" /\ calls'[i].arg = w
    BY <1>1, <1>3, ArriveFacts DEF Ops
  <1>5. calls'[i].answer = a => AnswerHolds(i)'
    BY <1>1, <1>3, <1>4 DEF AnswerHolds
  <1>6. Kept
    BY <1>1 DEF Kept
  <1> HIDE DEF a
  <1> QED BY <1>1, <1>3, <1>5, <1>6, OtherRequestInv DEF Ops, Inv, TypeOK

LEMMA CourierCancelInv == ASSUME Inv, NEW i \in 1..MaxCalls, CourierCancel(i) PROVE Inv'
  <1> DEFINE w == calls[i].arg
  <1>1. /\ Arrive(i, "cancel") /\ i \in wire /\ UNCHANGED << provider, pickups >>
    BY DEF CourierCancel, Arrive
  <1>2. w \in Waybills /\ i \in DOMAIN calls /\ calls[i].op = "cancel"
    BY <1>1 DEF Arrive, Inv, TypeOK, Arguments
  <1>3. CASE /\ parcels[w] # NoParcel
             /\ parcels[w].text \notin Final \ {"cancelled"}
             /\ parcels' = [parcels EXCEPT ![w].text = "cancelled"]
             /\ \E s \in {"true", "string", None} : Answer(i, [status |-> s])
    <2>1. PICK s \in {"true", "string", None} : Answer(i, [status |-> s])
      BY <1>3
    <2>2. [status |-> s] \in Cancellations
      BY DEF Cancellations
    <2>3. calls'[i].op = "cancel" /\ calls'[i].arg = w
      BY <1>1, <2>1, <2>2, ArriveFacts DEF Ops
    <2>4. /\ parcels' \in [Waybills -> Parcel \cup {NoParcel}]
          /\ parcels'[w].text = "cancelled"
          /\ Kept
          /\ \A v \in Waybills : parcels'[v] = NoParcel <=> parcels[v] = NoParcel
      <3> DEFINE p == [parcels[w] EXCEPT !.text = "cancelled"]
      <3>1. parcels[w] \in Parcel
        BY <1>2, <1>3 DEF Inv, TypeOK
      <3>2. /\ p \in Parcel /\ p # NoParcel /\ p.text = "cancelled"
            /\ p.order = parcels[w].order /\ p.call = parcels[w].call
        BY <3>1, ShippingAssumption, ParcelFacts DEF Parcel
      <3> HIDE DEF p
      <3>3. /\ parcels' \in [Waybills -> Parcel \cup {NoParcel}]
            /\ \A v \in Waybills : parcels'[v] = IF v = w THEN p ELSE parcels[v]
        BY <1>2, <1>3, <3>2 DEF Inv, TypeOK, p
      <3> QED BY <1>2, <1>3, <3>2, <3>3 DEF Kept, Final, Ended
    <2>5. calls'[i].answer = [status |-> s] => AnswerHolds(i)'
      BY <2>2, <2>3, <2>4 DEF AnswerHolds
    <2>6. pickups' \subseteq 1..MaxCalls /\ pickups \subseteq pickups' /\ UNCHANGED provider
      BY <1>1 DEF Inv, TypeOK
    <2> QED BY <1>1, <2>1, <2>2, <2>4, <2>5, <2>6, OtherRequestInv DEF Ops
  <1>4. CASE Answer(i, [status |-> "false"]) /\ UNCHANGED parcels
    <2>1. [status |-> "false"] \in Cancellations
      BY DEF Cancellations
    <2>2. calls'[i].op = "cancel"
      BY <1>1, <1>4, <2>1, ArriveFacts DEF Ops
    <2>3. calls'[i].answer = [status |-> "false"] => AnswerHolds(i)'
      BY <2>1, <2>2 DEF AnswerHolds
    <2>4. Kept
      BY <1>4 DEF Kept
    <2> QED BY <1>1, <1>4, <2>1, <2>3, <2>4, OtherRequestInv DEF Ops, Inv, TypeOK
  <1> QED BY <1>3, <1>4 DEF CourierCancel

LEMMA CourierPickupInv == ASSUME Inv, NEW i \in 1..MaxCalls, CourierPickup(i) PROVE Inv'
  <1>1. /\ Arrive(i, "pickup") /\ UNCHANGED << provider, parcels >>
        /\ pickups' \subseteq 1..MaxCalls /\ pickups \subseteq pickups'
    BY DEF CourierPickup, Inv, TypeOK
  <1>2. PICK id \in BOOLEAN : Answer(i, [pickup_id |-> id]) /\ (id => i \in pickups')
    BY DEF CourierPickup
  <1> DEFINE a == [pickup_id |-> id]
  <1>3. a \in Pickups /\ a.pickup_id = id
    BY DEF Pickups
  <1>4. calls'[i].op = "pickup"
    BY <1>1, <1>2, <1>3, ArriveFacts DEF Ops
  <1>5. calls'[i].answer = a => AnswerHolds(i)'
    BY <1>2, <1>3, <1>4 DEF AnswerHolds
  <1>6. Kept
    BY <1>1 DEF Kept
  <1> HIDE DEF a
  <1> QED BY <1>1, <1>2, <1>3, <1>5, <1>6, OtherRequestInv DEF Ops, Inv, TypeOK, a

\* A parcel travels: one that has come to an end stays where it is.
LEMMA CourierMoveInv == ASSUME Inv, NEW w \in Waybills, CourierMove(w) PROVE Inv'
  <1>1. PICK text \in Texts \ {"cancelled"} : parcels' = [parcels EXCEPT ![w].text = text]
    BY DEF CourierMove
  <1>2. /\ UNCHANGED << provider, pickups, calls, wire >> /\ provider # "mock"
        /\ parcels[w] # NoParcel /\ parcels[w].text \notin Final
    BY DEF CourierMove
  <1> DEFINE p == [parcels[w] EXCEPT !.text = text]
  <1>3. parcels[w] \in Parcel
    BY <1>2 DEF Inv, TypeOK
  <1>4. /\ p \in Parcel /\ p # NoParcel
        /\ p.order = parcels[w].order /\ p.call = parcels[w].call
    BY <1>3, ParcelFacts DEF Parcel
  <1> HIDE DEF p
  <1>5. /\ parcels' \in [Waybills -> Parcel \cup {NoParcel}]
        /\ \A v \in Waybills : parcels'[v] = IF v = w THEN p ELSE parcels[v]
    BY <1>1, <1>4 DEF Inv, TypeOK, p
  <1>6. Kept
    BY <1>2, <1>4, <1>5 DEF Kept, Final, Ended
  <1>7. /\ Arguments' /\ HeldIsManifested' /\ CancelHolds' /\ FinalReportsHold'
        /\ PickupIsBooked'
        /\ \A j \in DOMAIN calls :
             (calls'[j] = calls[j] /\ calls[j].answer # None) => AnswerHolds(j)'
    BY <1>2, <1>6, KeptFacts
  <1>8. TypeOK' /\ MockIsPrompt' /\ OnTheWay' /\ Answers'
    BY <1>2, <1>5, <1>7 DEF Inv, TypeOK, MockIsPrompt, OnTheWay, Answers
  <1>9. Books' /\ OneParcelPerCall'
    BY <1>2, <1>4, <1>5, ParcelFacts DEF Inv, Books, OneParcelPerCall
  <1> QED BY <1>7, <1>8, <1>9 DEF Inv

LEMMA MockShipInv == ASSUME Inv, NEW o \in Orders, MockShip(o) PROVE Inv'
  <1> DEFINE n == Len(calls) + 1
             w == MockWaybill[o]
  <1>0. /\ provider = "mock" /\ UNCHANGED << provider, pickups, wire >> /\ wire = {}
        /\ \A j \in DOMAIN calls : calls[j].out # "pending" /\ calls[j].answer = None
    BY DEF MockShip, Inv, MockIsPrompt
  <1>1. CASE o \in Unserved /\ Made("ship", o, "rejected") /\ UNCHANGED parcels
    <2>1. /\ calls' \in Seq(Call) /\ Len(calls') <= MaxCalls
          /\ n \in 1..MaxCalls /\ n \notin DOMAIN calls
          /\ DOMAIN calls' = DOMAIN calls \cup {n}
          /\ \A j \in DOMAIN calls : calls'[j] = calls[j] /\ j < n
          /\ calls'[n] = [op |-> "ship", arg |-> o, answer |-> None, out |-> "rejected"]
      BY <1>1, MadeFacts DEF Inv, Ops, Outcomes
    <2>2. "rejected" \notin Waybills
      BY ShippingAssumption
    <2> HIDE DEF n
    <2>3. TypeOK' /\ Arguments' /\ MockIsPrompt' /\ OnTheWay'
      BY <1>0, <1>1, <2>1 DEF Inv, TypeOK, Arguments, MockIsPrompt, OnTheWay
    <2>4. Books' /\ OneParcelPerCall'
      BY <1>0, <1>1, <2>1 DEF Inv, Books, OneParcelPerCall
    <2>5. Answers' /\ PickupIsBooked' /\ HeldIsManifested'
      BY <1>0, <1>1, <2>1, <2>2 DEF Inv, Answers, PickupIsBooked, HeldIsManifested
    <2>6. CancelHolds' /\ FinalReportsHold'
      BY <1>1, <2>1 DEF Inv, CancelHolds, FinalReportsHold, ShippedAgain
    <2> QED BY <2>3, <2>4, <2>5, <2>6 DEF Inv
  <1>2. CASE /\ o \notin Unserved
             /\ Made("ship", o, w)
             /\ parcels' = [parcels EXCEPT ![w] =
                   [call |-> n, order |-> o, text |-> "manifested"]]
    <2> DEFINE p == [call |-> n, order |-> o, text |-> "manifested"]
    <2>0. w \in Waybills
      BY <1>2, ShippingAssumption
    <2>1. /\ calls' \in Seq(Call) /\ Len(calls') <= MaxCalls
          /\ n \in 1..MaxCalls /\ n \notin DOMAIN calls
          /\ DOMAIN calls' = DOMAIN calls \cup {n}
          /\ \A j \in DOMAIN calls : calls'[j] = calls[j] /\ j < n
          /\ calls'[n] = [op |-> "ship", arg |-> o, answer |-> None, out |-> w]
      BY <1>2, <2>0, MadeFacts DEF Inv, Ops, Outcomes
    <2>2. p \in Parcel /\ p # NoParcel /\ p.call = n /\ p.order = o /\ p.text = "manifested"
      BY <2>1, ShippingAssumption, ParcelFacts DEF Parcel
    <2>3. /\ parcels' \in [Waybills -> Parcel \cup {NoParcel}]
          /\ \A v \in Waybills : parcels'[v] = IF v = w THEN p ELSE parcels[v]
      BY <1>2, <2>0, <2>2 DEF Inv, TypeOK
    <2> HIDE DEF n, p, w
    <2>4. TypeOK' /\ Arguments' /\ OnTheWay'
      BY <1>0, <2>1, <2>3 DEF Inv, TypeOK, Arguments, OnTheWay
    <2>5. MockIsPrompt'
      <3>1. \A j \in DOMAIN calls' :
               /\ calls'[j].out # "pending" /\ calls'[j].answer = None
               /\ calls'[j].op = "track" => calls'[j].out # "delivered"
        BY <1>0, <2>0, <2>1, ShippingAssumption DEF Inv, MockIsPrompt
      <3>2. \A v \in Waybills : parcels'[v] # NoParcel =>
               /\ parcels'[v].order \in Orders \ Unserved
               /\ v = MockWaybill[parcels'[v].order]
               /\ parcels'[v].text \in {"manifested", "cancelled"}
        BY <1>0, <1>2, <2>2, <2>3 DEF Inv, MockIsPrompt, w
      <3> QED BY <1>0, <3>1, <3>2 DEF MockIsPrompt
    <2>6. \A v \in Waybills : parcels[v] # NoParcel =>
             /\ parcels[v].call \in DOMAIN calls
             /\ calls[parcels[v].call].op = "ship" /\ calls[parcels[v].call].out \in {v, "error", "raised"}
      BY <1>0 DEF Inv, Books
    <2>7. Books'
      <3> SUFFICES ASSUME NEW v \in Waybills, parcels'[v] # NoParcel
                   PROVE  LET k == parcels'[v].call IN
                          /\ k \in DOMAIN calls' /\ k \notin wire'
                          /\ calls'[k].op = "ship"
                          /\ calls'[k].out \in {v, "pending", "error", "raised"}
                          /\ (calls'[k].out = "pending" /\ calls'[k].answer # None) =>
                               Manifested(calls'[k].answer) = v
        BY DEF Books
      <3>1. CASE v = w
        BY <3>1, <1>0, <2>1, <2>2, <2>3
      <3>2. CASE v # w
        BY <3>2, <1>0, <2>1, <2>3, <2>6
      <3> QED BY <3>1, <3>2
    <2>8. OneParcelPerCall'
      <3>1. \A v \in Waybills : parcels[v].call # n
        BY <2>1, <2>6, ParcelFacts
      <3> QED BY <2>1, <2>2, <2>3, <3>1 DEF Inv, OneParcelPerCall
    <2>9. Answers' /\ PickupIsBooked'
      BY <1>0, <2>1 DEF Inv, Answers, PickupIsBooked
    <2>10. HeldIsManifested'
      <3>1. ASSUME NEW j \in DOMAIN calls, calls[j].op = "ship", calls[j].out = w
            PROVE  calls[j].arg = o
        <4>1. /\ parcels[w].order = calls[j].arg /\ calls[j].arg \in Orders
              /\ parcels[w] # NoParcel
          BY <2>0, <3>1, ShippingAssumption DEF Inv, HeldIsManifested, Arguments, NoParcel
        <4>2. parcels[w].order \in Orders \ Unserved /\ w = MockWaybill[parcels[w].order]
          BY <1>0, <2>0, <4>1 DEF Inv, MockIsPrompt
        <4> QED BY <1>2, <4>1, <4>2, ShippingAssumption DEF w
      <3> QED BY <2>1, <2>2, <2>3, <3>1 DEF Inv, HeldIsManifested
    <2>11. \A v \in Waybills, j \in DOMAIN calls :
              /\ ShippedAgain(v, j) => ShippedAgain(v, j)'
              /\ v = w => ShippedAgain(v, j)'
      BY <2>1 DEF ShippedAgain
    <2>12. \A v \in Waybills : v # w => parcels'[v] = parcels[v]
      BY <2>3
    <2>13. CancelHolds'
      BY <2>1, <2>11, <2>12 DEF Inv, CancelHolds, Arguments
    <2>14. FinalReportsHold'
      <3>1. \A j \in DOMAIN calls : calls[j].op = "track" => calls[j].out # "delivered"
        BY <1>0 DEF Inv, MockIsPrompt
      <3> QED BY <2>1, <2>11, <2>12, <3>1 DEF Inv, FinalReportsHold, Arguments
    <2> QED BY <2>4, <2>5, <2>7, <2>8, <2>9, <2>10, <2>13, <2>14 DEF Inv
  <1> QED BY <1>1, <1>2 DEF MockShip

\* A call of the mock that makes no parcel.
LEMMA MockCallInv ==
    ASSUME Inv, NEW op \in Ops \ {"ship"}, NEW arg \in Orders \cup Waybills \cup {None},
           op # "pickup" => arg \in Waybills,
           NEW out \in Outcomes \ {"pending"}, Made(op, arg, out),
           provider = "mock", UNCHANGED << provider, wire >>,
           parcels' \in [Waybills -> Parcel \cup {NoParcel}], Kept,
           \A w \in Waybills : /\ parcels'[w] = NoParcel <=> parcels[w] = NoParcel
                               /\ parcels[w].text \in {"manifested", "cancelled"} =>
                                    parcels'[w].text \in {"manifested", "cancelled"},
           pickups' \subseteq 1..MaxCalls, pickups \subseteq pickups',
           op = "pickup" => Len(calls) + 1 \in pickups',
           op = "cancel" /\ out = "yes" => parcels'[arg].text = "cancelled",
           op = "track" => /\ out # "delivered"
                           /\ out = "cancelled" => parcels'[arg].text = "cancelled"
    PROVE  Inv'
  <1> DEFINE n == Len(calls) + 1
  <1>1. /\ calls' \in Seq(Call) /\ Len(calls') <= MaxCalls
        /\ n \in 1..MaxCalls /\ n \notin DOMAIN calls
        /\ DOMAIN calls' = DOMAIN calls \cup {n}
        /\ \A j \in DOMAIN calls : calls'[j] = calls[j] /\ j < n
        /\ calls'[n] = [op |-> op, arg |-> arg, answer |-> None, out |-> out]
    BY MadeFacts DEF Inv
  <1> HIDE DEF n
  <1>2. TypeOK' /\ Arguments' /\ OnTheWay'
    BY <1>1 DEF Inv, TypeOK, Arguments, OnTheWay, Ops
  <1>3. MockIsPrompt' /\ Answers'
    BY <1>1 DEF Inv, MockIsPrompt, Answers, Kept
  <1>4. Books' /\ OneParcelPerCall'
    <2>1. \A w \in Waybills : parcels'[w].call = parcels[w].call
      BY DEF Kept
    <2>2. \A w \in Waybills : parcels[w] # NoParcel => parcels[w].call \in DOMAIN calls
      BY DEF Inv, Books
    <2>3. Books'
      BY <1>1, <2>1, <2>2 DEF Inv, Books
    <2> QED BY <2>1, <2>3 DEF Inv, OneParcelPerCall
  <1>5. \A w \in Waybills : parcels[w].order \in Orders => parcels[w] # NoParcel
    BY ShippingAssumption DEF NoParcel
  <1>6. HeldIsManifested'
    BY <1>1, <1>5 DEF Inv, HeldIsManifested, Arguments, Kept
  <1>7. \A w, j : ShippedAgain(w, j) => ShippedAgain(w, j)'
    BY <1>1 DEF ShippedAgain
  <1>8. CancelHolds' /\ FinalReportsHold'
    BY <1>1, <1>7 DEF Inv, CancelHolds, FinalReportsHold, Arguments, Kept, Ended
  <1>9. PickupIsBooked'
    BY <1>1 DEF Inv, PickupIsBooked, n
  <1> QED BY <1>2, <1>3, <1>4, <1>6, <1>8, <1>9 DEF Inv

LEMMA MockTrackInv == ASSUME Inv, NEW w \in Waybills, MockTrack(w) PROVE Inv'
  <1> DEFINE out == IF parcels[w] = NoParcel THEN "unknown" ELSE parcels[w].text
  <1>1. /\ provider = "mock" /\ Made("track", w, out)
        /\ UNCHANGED << provider, parcels, pickups, wire >>
    BY DEF MockTrack
  <1>2. /\ out \in {"unknown", "manifested", "cancelled"}
        /\ out = "cancelled" => parcels[w].text = "cancelled"
    BY <1>1 DEF Inv, MockIsPrompt
  <1>3. {"unknown", "manifested", "cancelled"} \subseteq Outcomes \ {"pending"}
    BY DEF Outcomes, SHIPMENT_STATUSES, STATUS_MAP
  <1>4. Kept
    BY <1>1 DEF Kept
  <1> HIDE DEF out
  <1> QED BY <1>1, <1>2, <1>3, <1>4, MockCallInv DEF Ops, Inv, TypeOK

LEMMA MockCancelInv == ASSUME Inv, NEW w \in Waybills, MockCancel(w) PROVE Inv'
  <1>1. provider = "mock" /\ UNCHANGED << provider, pickups, wire >>
    BY DEF MockCancel
  <1>2. CASE Made("cancel", w, "no") /\ UNCHANGED parcels
    <2>1. Kept
      BY <1>2 DEF Kept
    <2> QED BY <1>1, <1>2, <2>1, MockCallInv DEF Ops, Outcomes, Inv, TypeOK
  <1>3. CASE /\ parcels[w] # NoParcel /\ Made("cancel", w, "yes")
             /\ parcels' = [parcels EXCEPT ![w].text = "cancelled"]
    <2> DEFINE p == [parcels[w] EXCEPT !.text = "cancelled"]
    <2>1. parcels[w] \in Parcel /\ parcels[w].text \in {"manifested", "cancelled"}
      BY <1>1, <1>3 DEF Inv, TypeOK, MockIsPrompt
    <2>2. /\ p \in Parcel /\ p # NoParcel /\ p.text = "cancelled"
          /\ p.order = parcels[w].order /\ p.call = parcels[w].call
      BY <2>1, ShippingAssumption, ParcelFacts DEF Parcel
    <2>3. /\ parcels' \in [Waybills -> Parcel \cup {NoParcel}]
          /\ \A v \in Waybills : parcels'[v] = IF v = w THEN p ELSE parcels[v]
      BY <1>3, <2>2 DEF Inv, TypeOK
    <2> HIDE DEF p
    <2>4. Kept
      BY <2>1, <2>2, <2>3 DEF Kept, Ended
    <2>5. \A v \in Waybills : /\ parcels'[v] = NoParcel <=> parcels[v] = NoParcel
                              /\ parcels[v].text \in {"manifested", "cancelled"} =>
                                   parcels'[v].text \in {"manifested", "cancelled"}
      BY <1>3, <2>2, <2>3
    <2>6. "yes" \in Outcomes \ {"pending"} /\ "cancel" \in Ops \ {"ship"} /\ parcels'[w].text = "cancelled"
      BY <2>2, <2>3 DEF Outcomes, Ops
    <2> QED BY <1>1, <1>3, <2>3, <2>4, <2>5, <2>6, MockCallInv DEF Inv, TypeOK
  <1> QED BY <1>2, <1>3 DEF MockCancel

LEMMA MockPickupInv == ASSUME Inv, MockPickup PROVE Inv'
  <1>1. /\ provider = "mock" /\ Made("pickup", None, "booked")
        /\ pickups' = pickups \cup {Len(calls) + 1}
        /\ UNCHANGED << provider, parcels, wire >>
    BY DEF MockPickup
  <1>2. "booked" \in Outcomes \ {"pending"} /\ "pickup" \in Ops \ {"ship"}
    BY DEF Outcomes, Ops
  <1>3. pickups' \subseteq 1..MaxCalls
    BY <1>1, <1>2, MadeFacts DEF Inv, TypeOK
  <1>4. Kept
    BY <1>1 DEF Kept
  <1> QED BY <1>1, <1>2, <1>3, <1>4, MockCallInv DEF Inv, TypeOK
-----------------------------------------------------------------------------
LEMMA InvNext == Inv /\ [Next]_vars => Inv'
  <1> SUFFICES ASSUME Inv, [Next]_vars PROVE Inv'
    OBVIOUS
  <1>1. ASSUME NEW o \in Orders, Request("ship", o) PROVE Inv'
    BY <1>1, RequestInv DEF Ops
  <1>2. ASSUME NEW o \in Orders, MockShip(o) PROVE Inv'
    BY <1>2, MockShipInv
  <1>3. ASSUME NEW w \in Waybills, Request("track", w) \/ Request("cancel", w) PROVE Inv'
    BY <1>3, RequestInv DEF Ops
  <1>4. ASSUME NEW w \in Waybills, MockTrack(w) \/ MockCancel(w) \/ CourierMove(w) PROVE Inv'
    BY <1>4, MockTrackInv, MockCancelInv, CourierMoveInv
  <1>5. ASSUME Request("pickup", None) \/ MockPickup PROVE Inv'
    BY <1>5, RequestInv, MockPickupInv DEF Ops
  <1>6. ASSUME NEW i \in 1..MaxCalls, Return(i) \/ Fail(i) PROVE Inv'
    BY <1>6, EndInv
  <1>7. ASSUME NEW i \in 1..MaxCalls,
               \/ CourierManifest(i) \/ CourierTrack(i) \/ CourierCancel(i) \/ CourierPickup(i)
        PROVE  Inv'
    BY <1>7, CourierManifestInv, CourierTrackInv, CourierCancelInv, CourierPickupInv
  <1>8. ASSUME UNCHANGED vars PROVE Inv'
    BY <1>8 DEF vars, Inv, TypeOK, Arguments, MockIsPrompt, Books, Answers, AnswerHolds,
                OnTheWay, HeldIsManifested, OneParcelPerCall, CancelHolds, FinalReportsHold,
                PickupIsBooked, ShippedAgain
  <1> QED BY <1>1, <1>2, <1>3, <1>4, <1>5, <1>6, <1>7, <1>8 DEF Next

LEMMA InvHolds == Spec => []Inv
  BY InvInit, InvNext, PTL DEF Spec

\* Every reachable state of the shipping calls is well typed.
THEOREM TypeCorrect == Spec => []TypeOK
  <1>1. Inv => TypeOK
    BY DEF Inv
  <1> QED BY InvHolds, <1>1, PTL

\* A waybill that ship returned is on the courier's books for the order that was
\* shipped (create_shipment of both providers).
THEOREM HeldShipmentsAreReal == Spec => []HeldIsManifested
  <1>1. Inv => HeldIsManifested
    BY DEF Inv
  <1> QED BY InvHolds, <1>1, PTL

\* A parcel its caller does not know of comes of a call that is running or ended
\* in an exception, never of one that was rejected.
THEOREM RejectionsLeaveNothing == Spec => []NoStrayParcel
  <1>1. Inv => NoStrayParcel
    BY DEF Inv, Books, NoStrayParcel
  <1> QED BY InvHolds, <1>1, PTL

\* A ship call makes one parcel at most, though its request outlives the timeout
\* of _http.
THEOREM ShippedOnce == Spec => []OneParcelPerCall
  <1>1. Inv => OneParcelPerCall
    BY DEF Inv
  <1> QED BY InvHolds, <1>1, PTL

\* What cancel confirmed stays cancelled until the order is shipped again.
THEOREM CancelsStay == Spec => []CancelHolds
  <1>1. Inv => CancelHolds
    BY DEF Inv
  <1> QED BY InvHolds, <1>1, PTL

\* A tracked status that ends an order is true and stays so, whatever other
\* requests are still under way.
THEOREM FinalReportsStay == Spec => []FinalReportsHold
  <1>1. Inv => FinalReportsHold
    BY DEF Inv
  <1> QED BY InvHolds, <1>1, PTL

\* The pickup of a pickup_id that schedule_pickup returned is on the courier's
\* books, although its ok is true of any HTTP 200.
THEOREM PickupIdsAreReal == Spec => []PickupIsBooked
  <1>1. Inv => PickupIsBooked
    BY DEF Inv
  <1> QED BY InvHolds, <1>1, PTL
=============================================================================
