--------------------------- MODULE DeliveryProofs ----------------------------
(***************************************************************************)
(* Theorems of Delivery, for any orders, workers, couriers, ETAs and any   *)
(* number of calls, whether or not the callers serialise them.             *)
(***************************************************************************)
EXTENDS Delivery, TLAPS

\* A call between its first read and its return names an order; while its local
\* copy waits to be saved or announced that copy is a real order, and the order
\* an advance will read a second time exists.
CallShape ==
    \A w \in Workers :
        /\ call[w].pc # "idle" => call[w].id \in Orders
        /\ call[w].pc \in {"create", "set", "edit", "emit"} => call[w].order # NoOrder
        /\ call[w].pc = "advance" => /\ call[w].target \in Status
                                     /\ store[call[w].id] # NoOrder

\* The inductive invariant behind LawfulTimelines.
Lawful == TypeOK /\ CallShape /\ LawfulTimelines
-----------------------------------------------------------------------------
(* The operators the actions are built from. *)

\* The statuses are the six of DeliveryStatus and None is none of them.
LEMMA StatusFacts ==
    /\ Status = {"placed", "confirmed", "preparing", "out_for_delivery",
                 "delivered", "cancelled"}
    /\ None \notin Status
    /\ \A s \in Status : ALLOWED[s] \subseteq Status
    /\ \A i \in 1..Len(FLOW) : FLOW[i] \in Status
  <1>1. Status = {"placed", "confirmed", "preparing", "out_for_delivery",
                  "delivered", "cancelled"}
    BY DEF Status, Table!Status
  <1>2. None \notin Status
    BY DeliveryAssumption
  <1>3. ASSUME NEW s \in Status PROVE ALLOWED[s] \subseteq Status
    BY <1>1, <1>3 DEF ALLOWED, Table!ALLOWED, Status
  <1>4. \A i \in 1..Len(FLOW) : FLOW[i] \in Status
    BY <1>1 DEF FLOW, Table!FLOW
  <1> QED BY <1>1, <1>2, <1>3, <1>4

\* The values an order can start from: the absent one and the placed one.
LEMMA OrderFacts ==
    /\ NoOrder \in Order
    /\ PlacedOrder \in Order
    /\ PlacedOrder # NoOrder
    /\ LawfulOrder(PlacedOrder)
  <1>1. "placed" \in Status
    BY StatusFacts
  <1>2. NoOrder \in Order
    BY DEF NoOrder, Order
  <1>3. PlacedOrder \in Order
    BY <1>1 DEF PlacedOrder, Order
  <1>4. PlacedOrder # NoOrder
    BY DEF PlacedOrder, NoOrder
  <1>5. LawfulOrder(PlacedOrder)
    BY DEF PlacedOrder, LawfulOrder, Table!Lawful
  <1> QED BY <1>2, <1>3, <1>4, <1>5

\* An allowed move keeps an order well typed and its timeline lawful.
LEMMA MovedLawful ==
    ASSUME NEW order \in Order, LawfulOrder(order),
           NEW s \in ALLOWED[order.status]
    PROVE  /\ Moved(order, s) \in Order
           /\ Moved(order, s) # NoOrder
           /\ LawfulOrder(Moved(order, s))
  <1> DEFINE t == order.timeline
             n == Len(t)
             m == Moved(order, s)
  <1>1. /\ t \in Seq(Status) /\ n \in Nat /\ n > 0
        /\ order.status = t[n] /\ order.status \in Status
    BY DEF Order, LawfulOrder, Table!Lawful
  <1>2. s \in Status
    BY <1>1, StatusFacts
  <1>3. /\ m.status = s /\ m.timeline = Append(t, s)
        /\ m.courier = order.courier /\ m.eta = order.eta
    BY DEF Moved, Order
  <1>4. m \in Order
    <2>1. Append(t, s) \in Seq(Status)
      BY <1>1, <1>2
    <2> QED BY <2>1, <1>2 DEF Moved, Order
  <1>5. /\ Len(m.timeline) = n + 1 /\ m.timeline[n + 1] = s
        /\ \A i \in 1..n : m.timeline[i] = t[i]
    BY <1>1, <1>2, <1>3
  <1>6. m # NoOrder
    BY <1>5, <1>1 DEF NoOrder
  <1>7. Table!Lawful(m.timeline)
    <2>1. m.timeline # <<>> /\ m.timeline[1] = "placed"
      BY <1>1, <1>5 DEF LawfulOrder, Table!Lawful
    <2>2. ASSUME NEW i \in 1..n
          PROVE  m.timeline[i + 1] \in Table!ALLOWED[m.timeline[i]]
      <3>1. CASE i = n
        BY <3>1, <1>1, <1>5 DEF ALLOWED
      <3>2. CASE i # n
        BY <3>2, <1>1, <1>5 DEF LawfulOrder, Table!Lawful
      <3> QED BY <3>1, <3>2
    <2> QED BY <2>1, <2>2, <1>1, <1>5 DEF Table!Lawful
  <1>8. LawfulOrder(m)
    BY <1>3, <1>5, <1>7, <1>1 DEF LawfulOrder
  <1> QED BY <1>4, <1>6, <1>8

\* Courier and ETA edits leave status and timeline alone.
LEMMA EditLawful ==
    ASSUME NEW order \in Order, NEW edited \in Order,
           edited.status = order.status, edited.timeline = order.timeline,
           LawfulOrder(order)
    PROVE  edited # NoOrder /\ LawfulOrder(edited)
  BY DEF LawfulOrder, Table!Lawful, NoOrder
-----------------------------------------------------------------------------
\* The initial state satisfies the invariant.
LEMMA LawfulInit == Init => Lawful
  <1> SUFFICES ASSUME Init PROVE Lawful
    OBVIOUS
  <1>1. TypeOK
    <2>1. Returned("none") \in Calls
      BY OrderFacts DEF Returned, Calls, Stages, Results
    <2> QED BY <2>1, OrderFacts, DeliveryAssumption DEF Init, TypeOK
  <1>2. CallShape
    BY DEF Init, CallShape, Returned
  <1>3. LawfulTimelines
    BY DEF Init, LawfulTimelines, Returned
  <1> QED BY <1>1, <1>2, <1>3 DEF Lawful

\* A call that returns leaves nothing behind but its result: the common case of
\* refusals, faults and the last step of a call.
LEMMA ReturnLawful ==
    ASSUME Lawful, NEW w \in Workers, NEW r \in Results,
           Return(w, r), store' = store, calls' = calls, 
           events' \in Seq([id : Orders, status : Status, entry : Nat])
    PROVE  Lawful'
  <1>1. Returned(r) \in Calls
    BY OrderFacts DEF Returned, Calls, Stages
  <1>2. /\ call' \in [Workers -> Calls]
        /\ \A v \in Workers : call'[v] = IF v = w THEN Returned(r) ELSE call[v]
    BY <1>1 DEF Lawful, TypeOK, Return
  <1>3. TypeOK'
    BY <1>2 DEF Lawful, TypeOK
  <1>4. CallShape'
    BY <1>2 DEF Lawful, CallShape, Returned
  <1>5. LawfulTimelines'
    BY <1>2 DEF Lawful, LawfulTimelines, Returned
  <1> QED BY <1>3, <1>4, <1>5 DEF Lawful

\* A call moves on to a stage with a lawful copy, or to the second read of an
\* advance, while the store stays as it is.
LEMMA InCallLawful ==
    ASSUME Lawful, NEW w \in Workers, NEW o \in Orders,
           NEW pc \in Stages, NEW target \in Status \cup {None}, NEW order \in Order,
           call' = [call EXCEPT ![w] = InCall(pc, o, target, order)],
           calls' \in 0..MaxCalls, store' = store, events' = events,
           order # NoOrder => LawfulOrder(order),
           pc \in {"create", "set", "edit", "emit"} => order # NoOrder,
           pc = "advance" => target \in Status /\ store[o] # NoOrder
    PROVE  Lawful'
  <1>1. InCall(pc, o, target, order) \in Calls
    BY DEF InCall, Calls, Results
  <1>2. /\ call' \in [Workers -> Calls]
        /\ \A v \in Workers :
             call'[v] = IF v = w THEN InCall(pc, o, target, order) ELSE call[v]
    BY <1>1 DEF Lawful, TypeOK
  <1>3. TypeOK'
    BY <1>2 DEF Lawful, TypeOK
  <1>4. CallShape'
    BY <1>2 DEF Lawful, CallShape, InCall
  <1>5. LawfulTimelines'
    BY <1>2 DEF Lawful, LawfulTimelines, InCall
  <1> QED BY <1>3, <1>4, <1>5 DEF Lawful
-----------------------------------------------------------------------------
\* Every step of a worker preserves the invariant.
LEMMA LawfulNext == Lawful /\ [Next]_vars => Lawful'
  <1> SUFFICES ASSUME Lawful, [Next]_vars PROVE Lawful'
    OBVIOUS
  <1> USE DEF Stages, Results
  <1>0. /\ store \in [Orders -> Order] /\ call \in [Workers -> Calls]
        /\ calls \in 0..MaxCalls /\ MaxCalls \in Nat
        /\ events \in Seq([id : Orders, status : Status, entry : Nat])
    BY DeliveryAssumption DEF Lawful, TypeOK
  <1>1. ASSUME NEW w \in Workers, AdvanceSetGet(w) PROVE Lawful'
    <2> DEFINE o == call[w].id
               s == call[w].target
    <2>1. /\ o \in Orders /\ s \in Status /\ store[o] \in Order
          /\ store[o] # NoOrder /\ LawfulOrder(store[o])
      BY <1>0, <1>1 DEF AdvanceSetGet, Lawful, CallShape, LawfulTimelines
    <2>2. CASE s \in ALLOWED[store[o].status]
      <3>1. /\ Moved(store[o], s) \in Order /\ Moved(store[o], s) # NoOrder
            /\ LawfulOrder(Moved(store[o], s))
        BY <2>1, <2>2, MovedLawful
      <3>2. call' = [call EXCEPT ![w] = InCall("set", o, s, Moved(store[o], s))]
        BY <1>1, <2>2 DEF AdvanceSetGet
      <3> QED BY <1>0, <1>1, <2>1, <3>1, <3>2, InCallLawful DEF AdvanceSetGet
    <2>3. CASE s \notin ALLOWED[store[o].status]
      BY <1>0, <1>1, <2>3, ReturnLawful DEF AdvanceSetGet
    <2> QED BY <2>2, <2>3
  <1>2. ASSUME NEW w \in Workers, Save(w) PROVE Lawful'
    <2> DEFINE c == call[w]
    <2>1. /\ c \in Calls /\ c.id \in Orders /\ c.order \in Order
          /\ c.order # NoOrder /\ LawfulOrder(c.order)
      BY <1>0, <1>2 DEF Save, Lawful, CallShape, LawfulTimelines, Calls
    <2>2. /\ store' \in [Orders -> Order]
          /\ \A o \in Orders : store'[o] = IF o = c.id THEN c.order ELSE store[o]
      BY <1>0, <1>2, <2>1 DEF Save
    <2>3. PICK d \in Calls :
            /\ call' = [call EXCEPT ![w] = d]
            /\ \/ d = Returned("ok")
               \/ d = [c EXCEPT !.pc = "emit"]
      <3>1. Returned("ok") \in Calls /\ [c EXCEPT !.pc = "emit"] \in Calls
        BY <2>1, OrderFacts DEF Returned, Calls
      <3>2. \/ call' = [call EXCEPT ![w] = Returned("ok")]
            \/ call' = [call EXCEPT ![w] = [c EXCEPT !.pc = "emit"]]
        BY <1>2 DEF Save, Return
      <3> QED BY <3>1, <3>2
    <2>4. /\ call' \in [Workers -> Calls]
          /\ \A v \in Workers : call'[v] = IF v = w THEN d ELSE call[v]
      BY <1>0, <2>3
    <2>5. \/ d.pc = "idle" /\ d.order = NoOrder
          \/ d.pc = "emit" /\ d.id = c.id /\ d.order = c.order
      BY <2>1, <2>3 DEF Returned, Calls
    <2>6. TypeOK'
      BY <1>0, <1>2, <2>2, <2>4 DEF TypeOK, Save
    <2>7. CallShape'
      BY <2>1, <2>2, <2>4, <2>5 DEF Lawful, CallShape
    <2>8. LawfulTimelines'
      BY <2>1, <2>2, <2>4, <2>5 DEF Lawful, LawfulTimelines
    <2> QED BY <2>6, <2>7, <2>8 DEF Lawful
  <1>3. ASSUME NEW w \in Workers, Emit(w) PROVE Lawful'
    <2> DEFINE c == call[w]
    <2>1. c.id \in Orders /\ c.order \in Order /\ LawfulOrder(c.order)
      BY <1>0, <1>3 DEF Emit, Lawful, CallShape, LawfulTimelines, Calls
    <2>2. c.order.status \in Status /\ Len(c.order.timeline) \in Nat
      BY <2>1 DEF Order, LawfulOrder, Table!Lawful
    <2>3. events' \in Seq([id : Orders, status : Status, entry : Nat])
      BY <1>0, <1>3, <2>1, <2>2 DEF Emit
    <2> QED BY <1>3, <2>3, ReturnLawful DEF Emit
  <1>4. ASSUME NEW w \in Workers, Fault(w) PROVE Lawful'
    BY <1>0, <1>4, ReturnLawful DEF Fault, SaveFails, EmitFails, Crash
  <1>5. ASSUME NEW w \in Workers, NEW o \in Orders, Start(w, o) PROVE Lawful'
    <2>1. ASSUME NEW r \in Results, Refuse(w, r) PROVE Lawful'
      BY <1>0, <2>1, ReturnLawful DEF Refuse
    <2>2. ASSUME MayCall(w, o) PROVE calls + 1 \in 0..MaxCalls
      BY <1>0, <2>2 DEF MayCall
    <2>3. store[o] \in Order /\ (store[o] # NoOrder => LawfulOrder(store[o]))
      BY <1>0 DEF Lawful, LawfulTimelines
    <2>4. CASE CreateGet(w, o)
      BY <2>4, <2>1, <2>2, OrderFacts, InCallLawful DEF CreateGet, Begin
    <2>5. CASE AdvanceGet(w, o)
      <3>1. CASE \E r \in Results : Refuse(w, r)
        BY <3>1, <2>1
      <3>2. ASSUME NEW i \in 1..(Len(FLOW) - 1), FLOW[i] = store[o].status,
                   Begin(w, "advance", o, FLOW[i + 1], NoOrder)
            PROVE  Lawful'
        <4>1. FLOW[i] \in Status /\ FLOW[i + 1] \in Status
          BY StatusFacts DEF FLOW, Table!FLOW
        <4>2. store[o] # NoOrder
          BY <3>2, <4>1, StatusFacts DEF NoOrder
        <4> QED BY <2>5, <2>2, <3>2, <4>1, <4>2, OrderFacts, InCallLawful
               DEF AdvanceGet, Begin
      <3> QED BY <2>5, <3>1, <3>2 DEF AdvanceGet
    <2>6. ASSUME NEW s \in Status, SetStatusGet(w, o, s) PROVE Lawful'
      <3>1. CASE \E r \in Results : Refuse(w, r)
        BY <3>1, <2>1
      <3>2. CASE /\ store[o] # NoOrder /\ s \in ALLOWED[store[o].status]
                 /\ Begin(w, "set", o, s, Moved(store[o], s))
        <4>1. /\ Moved(store[o], s) \in Order /\ Moved(store[o], s) # NoOrder
              /\ LawfulOrder(Moved(store[o], s))
          BY <2>3, <3>2, MovedLawful
        <4> QED BY <2>6, <2>2, <3>2, <4>1, InCallLawful DEF SetStatusGet, Begin
      <3> QED BY <2>6, <3>1, <3>2 DEF SetStatusGet
    <2>7. ASSUME NEW edited \in Order, MayCall(w, o), store[o] # NoOrder,
                 edited.status = store[o].status,
                 edited.timeline = store[o].timeline,
                 Begin(w, "edit", o, None, edited)
          PROVE  Lawful'
      <3>1. edited # NoOrder /\ LawfulOrder(edited)
        BY <2>3, <2>7, EditLawful
      <3> QED BY <2>2, <2>7, <3>1, InCallLawful DEF Begin
    <2>8. ASSUME NEW c \in Couriers, AssignCourierGet(w, o, c) PROVE Lawful'
      <3>1. /\ [store[o] EXCEPT !.courier = c] \in Order
            /\ [store[o] EXCEPT !.courier = c].status = store[o].status
            /\ [store[o] EXCEPT !.courier = c].timeline = store[o].timeline
        BY <2>3 DEF Order
      <3> QED BY <2>8, <2>1, <2>7, <3>1 DEF AssignCourierGet
    <2>9. ASSUME NEW e \in Etas, SetEtaGet(w, o, e) PROVE Lawful'
      <3>1. /\ [store[o] EXCEPT !.eta = e] \in Order
            /\ [store[o] EXCEPT !.eta = e].status = store[o].status
            /\ [store[o] EXCEPT !.eta = e].timeline = store[o].timeline
        BY <2>3 DEF Order
      <3> QED BY <2>9, <2>1, <2>7, <3>1 DEF SetEtaGet
    <2> QED BY <1>5, <2>4, <2>5, <2>6, <2>8, <2>9 DEF Start
  <1>6. ASSUME UNCHANGED vars PROVE Lawful'
    BY <1>6 DEF vars, Lawful, TypeOK, CallShape, LawfulTimelines
  <1> QED BY <1>1, <1>2, <1>3, <1>4, <1>5, <1>6 DEF Next, Step
-----------------------------------------------------------------------------
\* Types of every reachable state, for any number of orders and workers.
THEOREM TypeCorrect == Spec => []TypeOK
  <1>1. Lawful => TypeOK
    BY DEF Lawful
  <1> QED BY <1>1, LawfulInit, LawfulNext, PTL DEF Spec

\* No interleaving, failed save, failed callback or crash can store, or leave a
\* call about to store, an order whose timeline breaks the transition table.
THEOREM TimelinesLawful == Spec => []LawfulTimelines
  <1>1. Lawful => LawfulTimelines
    BY DEF Lawful
  <1> QED BY <1>1, LawfulInit, LawfulNext, PTL DEF Spec
=============================================================================
