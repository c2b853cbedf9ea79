----------------------------- MODULE NotifyProofs -----------------------------
(***************************************************************************)
(* What Delivery and Notify promise when the callers serialise the calls   *)
(* on one order, for any orders, workers and number of calls: the service  *)
(* implements its abstract lifecycle, and texts follow the timelines.      *)
(***************************************************************************)
EXTENDS Notify, DeliveryProofs

InProgress(w) == call[w].pc # "idle"

\* The calls on one order are serialised.
Alone ==
    \A w, v \in Workers :
        (InProgress(w) /\ InProgress(v) /\ call[w].id = call[v].id) => w = v

\* What a call has read is still what is stored, and its copy is one edit away.
FreshCall(w) ==
    LET c   == call[w]
        old == store[c.id]
    IN  /\ c.pc = "create" => old = NoOrder /\ c.order = PlacedOrder
        /\ c.pc = "set" => /\ old # NoOrder
                           /\ c.target \in ALLOWED[old.status]
                           /\ c.order = Moved(old, c.target)
        /\ c.pc = "edit" => /\ old # NoOrder
                            /\ \/ \E x \in Couriers : c.order = [old EXCEPT !.courier = x]
                               \/ \E e \in Etas : c.order = [old EXCEPT !.eta = e]
        /\ c.pc = "emit" => old = c.order

Fresh == \A w \in Workers : FreshCall(w)

Serial == Alone /\ Fresh
-----------------------------------------------------------------------------
\* One call is replaced, and the store may change for its order only.
LEMMA SerialStep ==
    ASSUME Lawful, Serial, NEW w \in Workers,
           \A v \in Workers \ {w} : call'[v] = call[v],
           \A v \in Workers \ {w} :
               (InProgress(v) /\ InProgress(w)') => call[v].id # call'[w].id,
           \A v \in Workers \ {w} : InProgress(v) => store'[call[v].id] = store[call[v].id],
           FreshCall(w)'
    PROVE  Serial'
  <1>1. Alone'
    BY DEF Serial, Alone, InProgress
  <1>2. ASSUME NEW v \in Workers \ {w} PROVE FreshCall(v)'
    <2>1. CASE ~InProgress(v)
      BY <2>1 DEF FreshCall, InProgress
    <2>2. CASE InProgress(v)
      <3>1. FreshCall(v) /\ call'[v] = call[v] /\ store'[call[v].id] = store[call[v].id]
        BY <2>2 DEF Serial, Fresh
      <3> QED BY <3>1 DEF FreshCall
    <2> QED BY <2>1, <2>2
  <1> QED BY <1>1, <1>2 DEF Serial, Fresh

LEMMA ReturnSerial ==
    ASSUME Lawful, Serial, NEW w \in Workers, NEW r \in Results, Return(w, r), store' = store
    PROVE  Serial'
  <1>1. call'[w].pc = "idle" /\ \A v \in Workers \ {w} : call'[v] = call[v]
    BY DEF Return, Returned, Lawful, TypeOK
  <1> QED BY <1>1, SerialStep DEF FreshCall, InProgress

\* A call that begins: the callers let no other one run on its order.
LEMMA BeginSerial ==
    ASSUME Exclusive, Lawful, Serial, NEW w \in Workers, NEW o \in Orders,
           NEW pc \in {"create", "advance", "set", "edit"}, NEW target, NEW order,
           MayCall(w, o), Begin(w, pc, o, target, order),
           pc = "create" => store[o] = NoOrder /\ order = PlacedOrder,
           pc = "set" => /\ store[o] # NoOrder /\ target \in ALLOWED[store[o].status]
                         /\ order = Moved(store[o], target),
           pc = "edit" => /\ store[o] # NoOrder
                          /\ \/ \E x \in Couriers : order = [store[o] EXCEPT !.courier = x]
                             \/ \E e \in Etas : order = [store[o] EXCEPT !.eta = e]
    PROVE  Serial'
  <1>1. /\ call'[w] = InCall(pc, o, target, order) /\ store' = store
        /\ \A v \in Workers \ {w} : call'[v] = call[v]
    BY DEF Begin, Lawful, TypeOK
  <1>2. \A v \in Workers : call[v].id # o
    BY DEF MayCall
  <1>3. FreshCall(w)'
    BY <1>1 DEF FreshCall, InCall
  <1> QED BY <1>1, <1>2, <1>3, SerialStep DEF InCall

LEMMA StartSerial ==
    ASSUME Exclusive, Lawful, Serial, NEW w \in Workers, NEW o \in Orders, Start(w, o)
    PROVE  Serial'
  <1>1. ASSUME NEW r \in Results, Refuse(w, r) PROVE Serial'
    BY <1>1, ReturnSerial DEF Refuse
  <1>2. CASE CreateGet(w, o)
    BY <1>1, <1>2, BeginSerial DEF CreateGet, Results
  <1>3. CASE AdvanceGet(w, o)
    BY <1>1, <1>3, BeginSerial DEF AdvanceGet, Results
  <1>4. ASSUME NEW s \in Status, SetStatusGet(w, o, s) PROVE Serial'
    BY <1>1, <1>4, BeginSerial DEF SetStatusGet, Results
  <1>5. ASSUME NEW c \in Couriers, AssignCourierGet(w, o, c) PROVE Serial'
    BY <1>1, <1>5, BeginSerial DEF AssignCourierGet, Results
  <1>6. ASSUME NEW e \in Etas, SetEtaGet(w, o, e) PROVE Serial'
    BY <1>1, <1>6, BeginSerial DEF SetEtaGet, Results
  <1> QED BY <1>2, <1>3, <1>4, <1>5, <1>6 DEF Start

LEMMA AdvanceSerial ==
    ASSUME Lawful, Serial, NEW w \in Workers, AdvanceSetGet(w)
    PROVE  Serial'
  <1> DEFINE o == call[w].id
             s == call[w].target
  <1>1. /\ call[w].pc = "advance" /\ o \in Orders /\ store' = store /\ store[o] # NoOrder
    BY DEF AdvanceSetGet, Lawful, CallShape
  <1>2. CASE s \in ALLOWED[store[o].status]
    <2>1. /\ call'[w] = InCall("set", o, s, Moved(store[o], s))
          /\ \A v \in Workers \ {w} : call'[v] = call[v]
      BY <1>2 DEF AdvanceSetGet, Lawful, TypeOK
    <2>2. FreshCall(w)'
      BY <1>1, <1>2, <2>1 DEF FreshCall, InCall
    <2> QED BY <1>1, <2>1, <2>2, SerialStep DEF InCall, InProgress, Serial, Alone
  <1>3. CASE s \notin ALLOWED[store[o].status]
    BY <1>1, <1>3, ReturnSerial DEF AdvanceSetGet, Results
  <1> QED BY <1>2, <1>3

\* A save, seen from the store: its order becomes the copy of the call.
LEMMA SaveFacts ==
    ASSUME Lawful, NEW w \in Workers, Save(w)
    PROVE  /\ call[w].pc \in {"create", "set", "edit"} /\ call[w].id \in Orders
           /\ store'[call[w].id] = call[w].order
           /\ \A o \in Orders \ {call[w].id} : store'[o] = store[o]
           /\ \A v \in Workers \ {w} : call'[v] = call[v]
           /\ call[w].pc = "edit" => call'[w].pc = "idle"
           /\ call[w].pc # "edit" => /\ call'[w].pc = "emit" /\ call'[w].id = call[w].id
                                     /\ call'[w].order = call[w].order
  <1>1. call[w].pc \in {"create", "set", "edit"} /\ call[w].id \in Orders /\ call[w] \in Calls
    BY DEF Save, Lawful, CallShape, TypeOK
  <1>2. /\ store'[call[w].id] = call[w].order
        /\ \A o \in Orders \ {call[w].id} : store'[o] = store[o]
    BY <1>1 DEF Save, Lawful, TypeOK
  <1>3. CASE call[w].pc = "edit"
    BY <1>1, <1>2, <1>3 DEF Save, Return, Returned, Lawful, TypeOK
  <1>4. CASE call[w].pc # "edit"
    <2>1. call' = [call EXCEPT ![w] = [call[w] EXCEPT !.pc = "emit"]]
      BY <1>4 DEF Save, Lawful, TypeOK
    <2> QED BY <1>1, <1>2, <1>4, <2>1 DEF Lawful, TypeOK, Calls
  <1> QED BY <1>3, <1>4

LEMMA SaveSerial ==
    ASSUME Lawful, Serial, NEW w \in Workers, Save(w)
    PROVE  Serial'
  <1>1. /\ call[w].pc \in {"create", "set", "edit"} /\ call[w].id \in Orders
        /\ store'[call[w].id] = call[w].order
        /\ \A o \in Orders \ {call[w].id} : store'[o] = store[o]
        /\ \A v \in Workers \ {w} : call'[v] = call[v]
        /\ call[w].pc = "edit" => call'[w].pc = "idle"
        /\ call[w].pc # "edit" => /\ call'[w].pc = "emit" /\ call'[w].id = call[w].id
                                  /\ call'[w].order = call[w].order
    BY SaveFacts
  <1>2. FreshCall(w)'
    BY <1>1 DEF FreshCall
  <1>3. \A v \in Workers \ {w} : InProgress(v) => /\ call[v].id \in Orders
                                                  /\ call[v].id # call[w].id
    BY <1>1 DEF Serial, Alone, InProgress, Lawful, CallShape
  <1>4. \A v \in Workers \ {w} : (InProgress(v) /\ InProgress(w)') => call[v].id # call'[w].id
    BY <1>1, <1>3 DEF InProgress
  <1>5. \A v \in Workers \ {w} : InProgress(v) => store'[call[v].id] = store[call[v].id]
    BY <1>1, <1>3
  <1> QED BY <1>1, <1>2, <1>4, <1>5, SerialStep

LEMMA SerialInit == Init => Serial
  <1> SUFFICES ASSUME Init PROVE Serial
    OBVIOUS
  <1>1. \A w \in Workers : call[w].pc = "idle"
    BY DEF Init, Returned
  <1> QED BY <1>1 DEF Serial, Alone, Fresh, FreshCall, InProgress

LEMMA SerialNext == Exclusive /\ Lawful /\ Serial /\ [Next]_vars => Serial'
  <1> SUFFICES ASSUME Exclusive, Lawful, Serial, [Next]_vars PROVE Serial'
    OBVIOUS
  <1>1. ASSUME NEW w \in Workers, Emit(w) \/ Fault(w) PROVE Serial'
    BY <1>1, ReturnSerial DEF Emit, Fault, SaveFails, EmitFails, Crash, Results
  <1>2. CASE UNCHANGED vars
    BY <1>2 DEF vars, Serial, Alone, Fresh, FreshCall, InProgress
  <1> QED BY <1>1, <1>2, AdvanceSerial, SaveSerial, StartSerial DEF Next, Step

LEMMA SerialHolds == ASSUME Exclusive PROVE Spec => [](Lawful /\ Serial)
  <1>1. Init => Lawful /\ Serial
    BY LawfulInit, SerialInit
  <1>2. Lawful /\ Serial /\ [Next]_vars => (Lawful /\ Serial)'
    BY LawfulNext, SerialNext
  <1> QED BY <1>1, <1>2, PTL DEF Spec
-----------------------------------------------------------------------------
LEMMA OnlySaveStores ==
    ASSUME [Next]_vars, store' # store
    PROVE  \E w \in Workers : Save(w)
  BY DEF vars, Next, Step, Fault, Start, AdvanceSetGet, Emit, SaveFails, EmitFails, Crash,
         CreateGet, AdvanceGet, SetStatusGet, AssignCourierGet, SetEtaGet, Refuse, Begin

\* How the order of a save changes: it is placed, moved or edited.
LEMMA SaveEffect ==
    ASSUME Lawful, Serial, NEW w \in Workers, Save(w)
    PROVE  LET o   == call[w].id
               old == store[o]
               new == store'[o]
           IN  /\ o \in Orders /\ old \in Order
               /\ \A p \in Orders \ {o} : store'[p] = store[p]
               /\ \/ call[w].pc = "create" /\ old = NoOrder /\ new = PlacedOrder
                  \/ /\ call[w].pc = "set" /\ old # NoOrder
                     /\ \E s \in ALLOWED[old.status] : new = Moved(old, s)
                  \/ /\ call[w].pc = "edit" /\ old # NoOrder
                     /\ \/ \E x \in Couriers : new = [old EXCEPT !.courier = x]
                        \/ \E e \in Etas : new = [old EXCEPT !.eta = e]
  <1>1. /\ call[w].pc \in {"create", "set", "edit"} /\ call[w].id \in Orders
        /\ store'[call[w].id] = call[w].order
        /\ \A p \in Orders \ {call[w].id} : store'[p] = store[p]
    BY SaveFacts
  <1>2. FreshCall(w) /\ store[call[w].id] \in Order
    BY <1>1 DEF Serial, Fresh, Lawful, TypeOK
  <1> QED BY <1>1, <1>2 DEF FreshCall

\* An edit keeps status and timeline; a move keeps courier and ETA.
LEMMA EditFacts ==
    ASSUME NEW old \in Order
    PROVE  /\ \A x \in Couriers :
                LET new == [old EXCEPT !.courier = x]
                IN  new.status = old.status /\ new.timeline = old.timeline /\ new.courier = x
           /\ \A e \in Etas :
                LET new == [old EXCEPT !.eta = e]
                IN  new.status = old.status /\ new.timeline = old.timeline /\ new.eta = e
           /\ \A s \in Status : /\ Moved(old, s).status = s
                                /\ Moved(old, s).timeline = Append(old.timeline, s)
  BY DEF Order, Moved

Final == \A o \in Orders :
    store[o].status \in TERMINAL => store'[o].status = store[o].status

NoneLost == \A o \in Orders :
    (store[o] # NoOrder /\ store'[o] # store[o]) =>
        LET old == store[o]
            new == store'[o]
        IN  \/ new = [old EXCEPT !.courier = new.courier]
            \/ new = [old EXCEPT !.eta = new.eta]
            \/ \E s \in Status : new = [old EXCEPT !.status = s, !.timeline = Append(@, s)]

LEMMA SaveIsFinal ==
    ASSUME Lawful, Serial, NEW w \in Workers, Save(w)
    PROVE  Final /\ NoneLost
  <1> DEFINE o   == call[w].id
             old == store[o]
             new == store'[o]
  <1>1. /\ o \in Orders /\ old \in Order
        /\ \A p \in Orders \ {o} : store'[p] = store[p]
        /\ \/ call[w].pc = "create" /\ old = NoOrder /\ new = PlacedOrder
           \/ /\ call[w].pc = "set" /\ old # NoOrder
              /\ \E s \in ALLOWED[old.status] : new = Moved(old, s)
           \/ /\ call[w].pc = "edit" /\ old # NoOrder
              /\ \/ \E x \in Couriers : new = [old EXCEPT !.courier = x]
                 \/ \E e \in Etas : new = [old EXCEPT !.eta = e]
    BY SaveEffect
  <1> HIDE DEF o, old, new
  <1>2. CASE old = NoOrder
    <2>1. old.status \notin TERMINAL
      BY <1>2, StatusFacts DEF NoOrder, TERMINAL, Table!TERMINAL
    <2> QED BY <1>1, <1>2, <2>1 DEF Final, NoneLost, old
  <1>3. CASE \E s \in ALLOWED[old.status] : old # NoOrder /\ new = Moved(old, s)
    <2>1. PICK s \in ALLOWED[old.status] : new = Moved(old, s)
      BY <1>3
    <2>2. old.status \in Status
      BY <1>1, <1>3 DEF Lawful, LawfulTimelines, LawfulOrder, Table!Lawful, Order, old, o
    <2>3. s \in Status /\ old.status \notin TERMINAL
      BY <2>2, StatusFacts DEF TERMINAL, Table!TERMINAL, ALLOWED, Table!ALLOWED, Status
    <2> QED BY <1>1, <2>1, <2>3 DEF Final, NoneLost, Moved, old, new
  <1>4. CASE \/ \E x \in Couriers : new = [old EXCEPT !.courier = x]
             \/ \E e \in Etas : new = [old EXCEPT !.eta = e]
    <2>1. /\ new.status = old.status
          /\ new = [old EXCEPT !.courier = new.courier] \/ new = [old EXCEPT !.eta = new.eta]
      <3>1. ASSUME NEW x \in Couriers, new = [old EXCEPT !.courier = x]
            PROVE  new.status = old.status /\ new.courier = x
        BY <1>1, <3>1, EditFacts
      <3>2. ASSUME NEW e \in Etas, new = [old EXCEPT !.eta = e]
            PROVE  new.status = old.status /\ new.eta = e
        BY <1>1, <3>2, EditFacts
      <3> QED BY <1>4, <3>1, <3>2
    <2> QED BY <1>1, <2>1 DEF Final, NoneLost, old, new
  <1> QED BY <1>1, <1>2, <1>3, <1>4

Timelines == [o \in Orders |-> store[o].timeline]

\* The timelines of the abstract lifecycle change as it allows.
LEMMA SaveRefines ==
    ASSUME Lawful, Serial, NEW w \in Workers, Save(w)
    PROVE  Table!Next \/ UNCHANGED Timelines
  <1> DEFINE o   == call[w].id
             old == store[o]
             new == store'[o]
  <1>1. /\ o \in Orders /\ old \in Order
        /\ \A p \in Orders \ {o} : store'[p] = store[p]
        /\ \/ old = NoOrder /\ new = PlacedOrder
           \/ old # NoOrder /\ \E s \in ALLOWED[old.status] : new = Moved(old, s)
           \/ \E x \in Couriers : new = [old EXCEPT !.courier = x]
           \/ \E e \in Etas : new = [old EXCEPT !.eta = e]
    BY SaveEffect
  <1> HIDE DEF o, old, new
  <1>2. Timelines' = [Timelines EXCEPT ![o] = new.timeline]
    BY <1>1 DEF Timelines, new
  <1>3. CASE old = NoOrder /\ new = PlacedOrder
    <2>1. PICK p \in Orders : p = o
      BY <1>1
    <2>2. Table!Place(p)
      BY <1>1, <1>2, <1>3, <2>1 DEF Table!Place, Timelines, NoOrder, PlacedOrder, old
    <2> QED BY <2>2 DEF Table!Next
  <1>4. CASE \E s \in ALLOWED[old.status] : old # NoOrder /\ new = Moved(old, s)
    <2>1. PICK s \in ALLOWED[old.status] : new = Moved(old, s)
      BY <1>4
    <2>2. /\ old.timeline # << >> /\ old.status = old.timeline[Len(old.timeline)]
          /\ old.status \in Status
      BY <1>1, <1>4 DEF Lawful, LawfulTimelines, LawfulOrder, Table!Lawful, Order, old
    <2>3. s \in Status /\ Status = Table!Status
      BY <2>1, <2>2, StatusFacts DEF Status
    <2>4. new.timeline = Append(old.timeline, s)
      BY <1>1, <2>1, <2>3, EditFacts
    <2>5. Table!Move(o, s)
      BY <1>1, <1>2, <2>1, <2>2, <2>4 DEF Table!Move, Timelines, ALLOWED, old
    <2> QED BY <1>1, <2>3, <2>5 DEF Table!Next
  <1>5. CASE \/ \E x \in Couriers : new = [old EXCEPT !.courier = x]
             \/ \E e \in Etas : new = [old EXCEPT !.eta = e]
    <2>1. new.timeline = old.timeline
      <3>1. ASSUME NEW x \in Couriers, new = [old EXCEPT !.courier = x]
            PROVE  new.timeline = old.timeline
        BY <1>1, <3>1, EditFacts
      <3>2. ASSUME NEW e \in Etas, new = [old EXCEPT !.eta = e]
            PROVE  new.timeline = old.timeline
        BY <1>1, <3>2, EditFacts
      <3> QED BY <1>5, <3>1, <3>2
    <2> QED BY <1>1, <1>2, <2>1 DEF Timelines, old
  <1> QED BY <1>1, <1>3, <1>4, <1>5

LEMMA StepFacts ==
    ASSUME Lawful, Serial, [Next]_vars
    PROVE  /\ Final /\ NoneLost
           /\ Table!Next \/ UNCHANGED Timelines
  <1>1. CASE store' = store
    BY <1>1 DEF Final, NoneLost, Timelines
  <1>2. CASE store' # store
    BY <1>2, OnlySaveStores, SaveIsFinal, SaveRefines
  <1> QED BY <1>1, <1>2
-----------------------------------------------------------------------------
\* Where the callers serialise the calls on one order, a delivered or cancelled
\* order stays so (set_status, assign_courier, set_eta).
THEOREM TerminalStays == ASSUME Exclusive PROVE Spec => TerminalIsFinal
  <1>1. Lawful /\ Serial /\ [Next]_vars => Final
    BY StepFacts
  <1> QED BY <1>1, SerialHolds, PTL DEF Spec, TerminalIsFinal, Final

\* There no save of an operation undoes what another saved.
THEOREM NothingIsLost == ASSUME Exclusive PROVE Spec => NoLostUpdate
  <1>1. Lawful /\ Serial /\ [Next]_vars => NoneLost
    BY StepFacts
  <1> QED BY <1>1, SerialHolds, PTL DEF Spec, NoLostUpdate, NoneLost

\* There DeliveryService implements the abstract lifecycle: every step of it
\* places an order, moves one along the table, or leaves all timelines alone.
THEOREM Refines == ASSUME Exclusive PROVE Spec => ImplementsLifecycle
  <1>1. Init => Table!Init
    BY DEF Init, Table!Init, NoOrder
  <1>2. Lawful /\ Serial /\ [Next]_vars => Table!Next \/ UNCHANGED Timelines
    BY StepFacts
  <1> QED BY <1>1, <1>2, SerialHolds, PTL DEF Spec, ImplementsLifecycle, Table!Spec, Timelines
-----------------------------------------------------------------------------
(* The callback. *)

Texts == [id : Orders, status : Status, entry : Nat]

\* A call that has yet to hand over its text announces an entry later than any
\* its customer was told of.
Untold ==
    \A w \in Workers : (call[w].pc = "emit" /\ ~handed[w]) =>
        \A i \in 1..Len(texts) :
            texts[i].id = call[w].id => texts[i].entry < Len(call[w].order.timeline)

\* A step of Notify is a step of Delivery or, for Send, of the provider alone.
LEMMA ServiceFacts ==
    ASSUME Lawful, NEW w \in Workers, ServiceStep(w)
    PROVE  /\ Next /\ UNCHANGED << phone, handed, texts >> /\ call[w].pc # "emit"
           /\ \A v \in Workers \ {w} : call'[v] = call[v]
  <1>1. call \in [Workers -> Calls] /\ UNCHANGED << phone, handed, texts >>
    BY DEF Lawful, TypeOK, ServiceStep
  <1>2. CASE AdvanceSetGet(w) \/ Save(w) \/ SaveFails(w)
    BY <1>1, <1>2 DEF Next, Step, Fault, AdvanceSetGet, Save, SaveFails, Return
  <1>3. ASSUME NEW o \in Orders, Start(w, o)
        PROVE  call[w].pc = "idle" /\ \E c : call' = [call EXCEPT ![w] = c]
    BY <1>3 DEF Start, CreateGet, AdvanceGet, SetStatusGet, AssignCourierGet, SetEtaGet,
                MayCall, Refuse, Return, Begin
  <1> QED BY <1>1, <1>2, <1>3 DEF ServiceStep, Next

LEMMA EndFacts ==
    ASSUME Lawful, NotifyTypeOK, NEW w \in Workers,
           Notified(w) \/ SendRaises(w) \/ NotifyCrash(w)
    PROVE  /\ Next /\ UNCHANGED << store, phone, texts >>
           /\ handed' = [handed EXCEPT ![w] = FALSE]
           /\ call'[w].pc = "idle" /\ \A v \in Workers \ {w} : call'[v] = call[v]
  <1>1. Emit(w) \/ EmitFails(w) \/ Crash(w)
    BY DEF Notified, SendRaises, NotifyCrash
  <1>2. UNCHANGED store /\ \E r : Return(w, r)
    BY <1>1 DEF Emit, EmitFails, Crash
  <1>3. call'[w].pc = "idle" /\ \A v \in Workers \ {w} : call'[v] = call[v]
    BY <1>2 DEF Return, Returned, Lawful, TypeOK
  <1> QED BY <1>1, <1>2, <1>3 DEF Next, Step, Fault, Notified, SendRaises, NotifyCrash

LEMMA NotifyIsDelivery ==
    Lawful /\ NotifyTypeOK /\ [NotifyNext]_notifyVars => [Next]_vars
  BY ServiceFacts, EndFacts DEF NotifyNext, Send, notifyVars, vars

\* What Send appends is a text, and the texts there were stay.
LEMMA SendFacts ==
    ASSUME Lawful, NotifyTypeOK, NEW w \in Workers, Send(w)
    PROVE  /\ call[w].pc = "emit" /\ ~handed[w] /\ UNCHANGED << store, call, events, calls, phone >>
           /\ \A v \in Workers : handed'[v] = (v = w \/ handed[v])
           /\ handed' \in [Workers -> BOOLEAN]
           /\ texts \in Seq(Texts) /\ texts' \in Seq(Texts) /\ Len(texts') = Len(texts) + 1
           /\ \A i \in 1..Len(texts) : texts'[i] = texts[i]
           /\ texts'[Len(texts) + 1] = StatusText(w)
           /\ LawfulOrder(call[w].order) /\ call[w].order \in Order /\ call[w].id \in Orders
  <1>1. /\ call[w].pc = "emit" /\ call[w] \in Calls /\ call[w].id \in Orders
        /\ call[w].order \in Order /\ LawfulOrder(call[w].order)
    BY DEF Send, Lawful, CallShape, LawfulTimelines, TypeOK, Calls
  <1>2. StatusText(w) \in Texts
    BY <1>1 DEF StatusText, Texts, Order, LawfulOrder, Table!Lawful
  <1>3. texts \in Seq(Texts) /\ texts' = Append(texts, StatusText(w))
    BY DEF NotifyTypeOK, Texts, Send
  <1>4. /\ texts' \in Seq(Texts) /\ Len(texts') = Len(texts) + 1
        /\ \A i \in 1..Len(texts) : texts'[i] = texts[i]
        /\ texts'[Len(texts) + 1] = StatusText(w)
    BY <1>2, <1>3
  <1>5. /\ ~handed[w] /\ UNCHANGED << store, call, events, calls, phone >>
        /\ \A v \in Workers : handed'[v] = (v = w \/ handed[v])
        /\ handed' \in [Workers -> BOOLEAN]
    BY DEF Send, NotifyTypeOK
  <1> QED BY <1>1, <1>3, <1>4, <1>5

LEMMA NotifyTypeInit == NotifyInit => NotifyTypeOK
  BY LawfulInit DEF NotifyInit, NotifyTypeOK, Lawful

LEMMA NotifyTypeNext ==
    Lawful /\ Lawful' /\ NotifyTypeOK /\ [NotifyNext]_notifyVars => NotifyTypeOK'
  <1> SUFFICES ASSUME Lawful, Lawful', NotifyTypeOK, [NotifyNext]_notifyVars
               PROVE  NotifyTypeOK'
    OBVIOUS
  <1>1. ASSUME NEW w \in Workers, Send(w) PROVE NotifyTypeOK'
    BY <1>1, SendFacts DEF NotifyTypeOK, Lawful, Texts
  <1>2. ASSUME NEW w \in Workers, ServiceStep(w) PROVE NotifyTypeOK'
    BY <1>2, ServiceFacts DEF NotifyTypeOK, Lawful
  <1>3. ASSUME NEW w \in Workers, Notified(w) \/ SendRaises(w) \/ NotifyCrash(w)
        PROVE  NotifyTypeOK'
    BY <1>3, EndFacts DEF NotifyTypeOK, Lawful
  <1>4. CASE UNCHANGED notifyVars
    BY <1>4 DEF notifyVars, NotifyTypeOK, Lawful
  <1> QED BY <1>1, <1>2, <1>3, <1>4 DEF NotifyNext
-----------------------------------------------------------------------------
\* A save only adds to a timeline, and one that will be announced adds an entry.
LEMMA SaveGrows ==
    ASSUME Lawful, Serial, NEW w \in Workers, Save(w)
    PROVE  LET old == store[call[w].id].timeline
               new == store'[call[w].id].timeline
           IN  /\ old \in Seq(Status) /\ new \in Seq(Status)
               /\ Len(old) <= Len(new)
               /\ call[w].pc # "edit" => Len(old) < Len(new)
               /\ \A k \in 1..Len(old) : new[k] = old[k]
  <1> DEFINE old == store[call[w].id]
             new == store'[call[w].id]
  <1>1. /\ old \in Order
        /\ \/ old = NoOrder /\ new = PlacedOrder
           \/ \E s \in ALLOWED[old.status] : old # NoOrder /\ new = Moved(old, s)
           \/ /\ call[w].pc = "edit"
              /\ \/ \E x \in Couriers : new = [old EXCEPT !.courier = x]
                 \/ \E e \in Etas : new = [old EXCEPT !.eta = e]
    BY SaveEffect
  <1>2. old.timeline \in Seq(Status)
    BY <1>1 DEF Order
  <1>3. old # NoOrder => old.status \in Status
    BY SaveEffect DEF Lawful, LawfulTimelines, LawfulOrder, Table!Lawful, Order
  <1> HIDE DEF old, new
  <1>4. CASE old = NoOrder /\ new = PlacedOrder
    BY <1>4, StatusFacts DEF NoOrder, PlacedOrder, old, new
  <1>5. CASE \E s \in ALLOWED[old.status] : old # NoOrder /\ new = Moved(old, s)
    <2>1. PICK s \in Status : new.timeline = Append(old.timeline, s)
      BY <1>1, <1>3, <1>5, StatusFacts, EditFacts
    <2>2. /\ new.timeline \in Seq(Status) /\ Len(new.timeline) = Len(old.timeline) + 1
          /\ Len(old.timeline) <= Len(new.timeline) /\ Len(old.timeline) < Len(new.timeline)
          /\ \A k \in 1..Len(old.timeline) : new.timeline[k] = old.timeline[k]
      BY <1>2, <2>1
    <2> QED BY <1>2, <2>2 DEF old, new
  <1>6. ASSUME call[w].pc = "edit", NEW x \in Couriers, new = [old EXCEPT !.courier = x]
        PROVE  new.timeline = old.timeline
    BY <1>1, <1>6, EditFacts
  <1>7. ASSUME call[w].pc = "edit", NEW e \in Etas, new = [old EXCEPT !.eta = e]
        PROVE  new.timeline = old.timeline
    BY <1>1, <1>7, EditFacts
  <1>8. CASE call[w].pc = "edit" /\ new.timeline = old.timeline
    BY <1>2, <1>8 DEF old, new
  <1> QED BY <1>1, <1>4, <1>5, <1>6, <1>7, <1>8

Told == TextsFollowTimeline /\ Untold

LEMMA TextFacts ==
    ASSUME NotifyTypeOK, NEW i \in 1..Len(texts)
    PROVE  texts[i].id \in Orders /\ texts[i].entry \in Nat /\ Len(texts) \in Nat
  <1>1. texts \in Seq(Texts)
    BY DEF NotifyTypeOK, Texts
  <1>2. texts[i] \in Texts /\ Len(texts) \in Nat
    <2> HIDE DEF Texts
    <2> QED BY <1>1
  <1> QED BY <1>2 DEF Texts

LEMMA SendTold ==
    ASSUME Lawful, Serial, NotifyTypeOK, Told, NEW w \in Workers, Send(w)
    PROVE  Told'
  <1> DEFINE n == Len(texts) + 1
             order == call[w].order
  <1>1. /\ call[w].pc = "emit" /\ ~handed[w] /\ UNCHANGED << store, call >>
        /\ \A v \in Workers : handed'[v] = (v = w \/ handed[v])
        /\ Len(texts') = n /\ Len(texts) \in Nat
        /\ \A i \in 1..Len(texts) : texts'[i] = texts[i]
        /\ texts'[n] = StatusText(w)
        /\ LawfulOrder(order) /\ order \in Order /\ call[w].id \in Orders
    BY SendFacts
  <1>2. store[call[w].id] = order
    BY <1>1 DEF Serial, Fresh, FreshCall
  <1>3. /\ texts'[n].id = call[w].id /\ texts'[n].status = order.status
        /\ texts'[n].entry = Len(order.timeline)
    BY <1>1 DEF StatusText
  <1>4. /\ Len(order.timeline) \in DOMAIN order.timeline
        /\ order.timeline[Len(order.timeline)] = order.status
    BY <1>1 DEF LawfulOrder, Table!Lawful, Order
  <1>5. \A j \in 1..Len(texts) : texts[j].id = call[w].id => texts[j].entry < Len(order.timeline)
    BY <1>1 DEF Told, Untold
  <1> HIDE DEF n, order
  <1>6. TextsFollowTimeline'
    <2> SUFFICES ASSUME NEW i \in 1..n
                 PROVE  /\ texts'[i].entry \in DOMAIN store[texts'[i].id].timeline
                        /\ store[texts'[i].id].timeline[texts'[i].entry] = texts'[i].status
                        /\ \A j \in 1..(i - 1) :
                             texts'[j].id = texts'[i].id => texts'[j].entry < texts'[i].entry
      BY <1>1 DEF TextsFollowTimeline
    <2>1. CASE i = n
      BY <1>1, <1>2, <1>3, <1>4, <1>5, <2>1 DEF n
    <2>2. CASE i # n
      <3>1. i \in 1..Len(texts) /\ \A j \in 1..(i - 1) : j \in 1..Len(texts)
        BY <1>1, <2>2 DEF n
      <3> QED BY <1>1, <3>1 DEF Told, TextsFollowTimeline
    <2> QED BY <2>1, <2>2
  <1>7. Untold'
    <2> SUFFICES ASSUME NEW v \in Workers, call[v].pc = "emit", ~handed'[v],
                        NEW i \in 1..n, texts'[i].id = call[v].id
                 PROVE  texts'[i].entry < Len(call[v].order.timeline)
      BY <1>1 DEF Untold
    <2>1. v # w /\ ~handed[v] /\ call[v].id # call[w].id
      BY <1>1 DEF Serial, Alone, InProgress
    <2>2. i \in 1..Len(texts)
      BY <1>1, <1>3, <2>1 DEF n
    <2> QED BY <1>1, <2>1, <2>2 DEF Told, Untold
  <1> QED BY <1>6, <1>7 DEF Told

LEMMA SaveTold ==
    ASSUME Lawful, Serial, NotifyTypeOK, Told, NEW w \in Workers, Save(w),
           UNCHANGED << handed, texts >>
    PROVE  Told'
  <1> DEFINE o == call[w].id
  <1>1. /\ \A p \in Orders \ {o} : store'[p] = store[p]
        /\ store'[o] = call[w].order
        /\ \A v \in Workers \ {w} : call'[v] = call[v]
        /\ call'[w].pc = "emit" => /\ call[w].pc # "edit" /\ call'[w].id = o
                                   /\ call'[w].order = call[w].order
    BY SaveFacts
  <1> DEFINE old == store[o].timeline
             new == store'[o].timeline
  <1>0. /\ old \in Seq(Status) /\ new \in Seq(Status)
        /\ Len(old) <= Len(new)
        /\ call[w].pc # "edit" => Len(old) < Len(new)
        /\ \A k \in 1..Len(old) : new[k] = old[k]
    BY SaveGrows
  <1> HIDE DEF o, old, new
  <1>2. /\ Len(old) \in Nat /\ Len(new) \in Nat
        /\ DOMAIN old = 1..Len(old) /\ DOMAIN new = 1..Len(new)
        /\ \A k \in DOMAIN old : k \in DOMAIN new /\ new[k] = old[k]
        /\ call[w].pc # "edit" => \A k \in DOMAIN old : k < Len(new)
    <2>1. /\ Len(old) \in Nat /\ Len(new) \in Nat
          /\ DOMAIN old = 1..Len(old) /\ DOMAIN new = 1..Len(new)
      BY <1>0
    <2>2. \A k \in 1..Len(old) : k \in 1..Len(new) /\ new[k] = old[k]
      BY <1>0, <2>1
    <2>3. ASSUME call[w].pc # "edit", NEW k \in 1..Len(old) PROVE k < Len(new)
      BY <1>0, <2>1, <2>3
    <2> QED BY <2>1, <2>2, <2>3
  <1>3. TextsFollowTimeline'
    <2> SUFFICES ASSUME NEW i \in 1..Len(texts)
                 PROVE  /\ texts[i].entry \in DOMAIN store'[texts[i].id].timeline
                        /\ store'[texts[i].id].timeline[texts[i].entry] = texts[i].status
                        /\ \A j \in 1..(i - 1) :
                             texts[j].id = texts[i].id => texts[j].entry < texts[i].entry
      BY DEF TextsFollowTimeline
    <2>1. /\ texts[i].entry \in DOMAIN store[texts[i].id].timeline
          /\ store[texts[i].id].timeline[texts[i].entry] = texts[i].status
          /\ \A j \in 1..(i - 1) : texts[j].id = texts[i].id => texts[j].entry < texts[i].entry
      BY DEF Told, TextsFollowTimeline
    <2>2. CASE texts[i].id # o
      BY <1>1, <2>1, <2>2, TextFacts
    <2>3. CASE texts[i].id = o
      BY <1>2, <2>1, <2>3 DEF old, new
    <2> QED BY <2>2, <2>3
  <1>4. Untold'
    <2> SUFFICES ASSUME NEW v \in Workers, call'[v].pc = "emit", ~handed[v],
                        NEW i \in 1..Len(texts), texts[i].id = call'[v].id
                 PROVE  texts[i].entry < Len(call'[v].order.timeline)
      BY DEF Untold
    <2>1. CASE v # w
      BY <1>1, <2>1 DEF Told, Untold
    <2>2. CASE v = w
      <3>1. texts[i].entry \in DOMAIN old
        BY <1>1, <2>2 DEF Told, TextsFollowTimeline, old
      <3>2. call[w].pc # "edit" /\ call'[v].order.timeline = new
        BY <1>1, <2>2 DEF new
      <3> QED BY <1>2, <3>1, <3>2
    <2> QED BY <2>1, <2>2
  <1> QED BY <1>3, <1>4 DEF Told

\* The steps that leave the store and the texts alone and bring no call to its
\* callback.
LEMMA QuietTold ==
    ASSUME Told, NEW w \in Workers, UNCHANGED << store, texts >>, call'[w].pc # "emit",
           \A v \in Workers \ {w} : call'[v] = call[v] /\ handed'[v] = handed[v]
    PROVE  Told'
  <1>1. TextsFollowTimeline'
    BY DEF Told, TextsFollowTimeline
  <1> QED BY <1>1 DEF Told, Untold

LEMMA ToldInit == NotifyInit => Told
  BY DEF NotifyInit, Told, TextsFollowTimeline, Untold

LEMMA ToldNext ==
    Lawful /\ Serial /\ NotifyTypeOK /\ Told /\ [NotifyNext]_notifyVars => Told'
  <1> SUFFICES ASSUME Lawful, Serial, NotifyTypeOK, Told, [NotifyNext]_notifyVars
               PROVE  Told'
    OBVIOUS
  <1>1. ASSUME NEW w \in Workers, ServiceStep(w) PROVE Told'
    <2>1. CASE Save(w)
      BY <1>1, <2>1, ServiceFacts, SaveTold
    <2>2. CASE ~Save(w)
      <3>1. UNCHANGED store /\ \E c : c.pc # "emit" /\ call' = [call EXCEPT ![w] = c]
        BY <1>1, <2>2 DEF ServiceStep, AdvanceSetGet, SaveFails, Return, Returned, InCall, Start,
              CreateGet, AdvanceGet, SetStatusGet, AssignCourierGet, SetEtaGet, Refuse, Begin
      <3>2. call'[w].pc # "emit"
        BY <3>1 DEF Lawful, TypeOK
      <3> QED BY <1>1, <3>1, <3>2, ServiceFacts, QuietTold
    <2> QED BY <2>1, <2>2
  <1>2. ASSUME NEW w \in Workers, Notified(w) \/ SendRaises(w) \/ NotifyCrash(w) PROVE Told'
    BY <1>2, EndFacts, QuietTold DEF NotifyTypeOK
  <1>3. CASE UNCHANGED notifyVars
    BY <1>3 DEF notifyVars, Told, TextsFollowTimeline, Untold
  <1> QED BY <1>1, <1>2, <1>3, SendTold DEF NotifyNext
-----------------------------------------------------------------------------
LEMMA NotifyHolds == NotifySpec => [](Lawful /\ NotifyTypeOK) /\ Spec
  <1>1. NotifyInit => Init /\ Lawful /\ NotifyTypeOK
    BY LawfulInit, NotifyTypeInit DEF NotifyInit
  <1>2. Lawful /\ NotifyTypeOK /\ [NotifyNext]_notifyVars => [Next]_vars
    BY NotifyIsDelivery
  <1>3. Lawful /\ NotifyTypeOK /\ [NotifyNext]_notifyVars => (Lawful /\ NotifyTypeOK)'
    BY NotifyIsDelivery, LawfulNext, NotifyTypeNext
  <1> QED BY <1>1, <1>2, <1>3, PTL DEF NotifySpec, Spec

\* DeliveryService with notify_status as its callback is still DeliveryService:
\* the callback adds no behaviour to it.
THEOREM NotifyRefinesDelivery == NotifySpec => Spec
  BY NotifyHolds, PTL

\* The provider has a text of a call only during that call's callback.
THEOREM NotifyTypeCorrect == NotifySpec => []NotifyTypeOK
  BY NotifyHolds, PTL

\* Where the callers serialise the calls on one order, a customer's texts tell
\* entries of the timeline, in its order, and none twice, however often callers
\* try again what failed.
THEOREM TextsAreInOrder == ASSUME Exclusive PROVE NotifySpec => []TextsFollowTimeline
  <1>1. NotifyInit => Told
    BY ToldInit
  <1>2. Lawful /\ Serial /\ NotifyTypeOK /\ Told /\ [NotifyNext]_notifyVars => Told'
    BY ToldNext
  <1>3. Told => TextsFollowTimeline
    BY DEF Told
  <1> QED BY <1>1, <1>2, <1>3, NotifyHolds, SerialHolds, PTL DEF NotifySpec
=============================================================================
