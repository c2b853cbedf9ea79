------------------------------ MODULE Delivery -------------------------------
(***************************************************************************)
(* DeliveryService over a shared order store.                              *)
(*                                                                         *)
(* Every operation is a read of the whole order, an edit of the local copy *)
(* and a save of the whole order; the service holds no lock.  A store get  *)
(* and a store save are the atomic steps, so an operation is two to four   *)
(* steps and the steps of different workers interleave.  The first step of *)
(* an operation is its first get.                                          *)
(***************************************************************************)
EXTENDS Integers, Sequences

CONSTANTS
    Orders,      \* order ids
    Workers,     \* threads, requests or processes that use the service
    Couriers,    \* courier names
    Etas,        \* delivery estimates
    None,        \* Python's None
    Exclusive,   \* TRUE: the callers serialise the calls on one order
    MaxCalls     \* bound on the calls that get past their first guard

VARIABLES
    store,       \* order id -> stored order, NoOrder if store.get gives None
    call,        \* worker -> the call it is in
    events,      \* history of the on_event callbacks that returned
    calls        \* number of calls begun, for the bound

vars == << store, call, events, calls >>

Table == INSTANCE Lifecycle
            WITH timeline <- [o \in Orders |-> store[o].timeline]

Status   == Table!Status
FLOW     == Table!FLOW
ALLOWED  == Table!ALLOWED
TERMINAL == Table!TERMINAL

ASSUME DeliveryAssumption ==
    /\ Exclusive \in BOOLEAN
    /\ MaxCalls \in Nat
    /\ None \notin Status \cup Couriers \cup Etas \cup Orders
-----------------------------------------------------------------------------
(* Orders and calls. *)

Order == [status   : Status \cup {None},
          timeline : Seq(Status),
          courier  : Couriers \cup {None},
          eta      : Etas \cup {None}]

NoOrder == [status |-> None, timeline |-> <<>>, courier |-> None, eta |-> None]

PlacedOrder ==
    [status |-> "placed", timeline |-> << "placed" >>, courier |-> None, eta |-> None]

\* Mutants: the entry built before the status is assigned; the order rebuilt
\* from its status and timeline alone.
StaleEntryMoved(order, target) ==
    [order EXCEPT !.status = target, !.timeline = Append(@, order.status)]

RebuiltMoved(order, target) ==
    [NoOrder EXCEPT !.status = target, !.timeline = Append(order.timeline, target)]

\* The edit set_status makes to its local copy.
Moved(order, target) ==
    [order EXCEPT !.status = target, !.timeline = Append(@, target)]

\* How the last call ended: what its caller was told.
Results == {"none", "ok", "exists", "not_found", "invalid",
            "save_failed", "callback_failed", "crashed"}

\* advance: between its own get and the get of the set_status it calls.
\* create, set, edit: between the get and the save.  emit: saved, on_event next.
Stages == {"idle", "advance", "create", "set", "edit", "emit"}

Calls == [pc     : Stages,
          id     : Orders \cup {None},
          target : Status \cup {None},
          order  : Order,
          result : Results]

Returned(result) ==
    [pc |-> "idle", id |-> None, target |-> None, order |-> NoOrder, result |-> result]

InCall(pc, o, target, order) ==
    [pc |-> pc, id |-> o, target |-> target, order |-> order, result |-> "none"]

Return(w, result) == call' = [call EXCEPT ![w] = Returned(result)]

\* A call on o may begin.  With Exclusive the callers keep one call per order.
MayCall(w, o) ==
    /\ call[w].pc = "idle"
    /\ calls < MaxCalls
    /\ Exclusive => \A v \in Workers : call[v].id # o

Begin(w, pc, o, target, order) ==
    /\ call' = [call EXCEPT ![w] = InCall(pc, o, target, order)]
    /\ calls' = calls + 1
    /\ UNCHANGED << store, events >>

\* A call that is refused at its first read.
Refuse(w, result) ==
    /\ Return(w, result)
    /\ UNCHANGED << store, events, calls >>
-----------------------------------------------------------------------------
Init ==
    /\ store  = [o \in Orders |-> NoOrder]
    /\ call   = [w \in Workers |-> Returned("none")]
    /\ events = << >>
    /\ calls  = 0

(* create_order *)
CreateGet(w, o) ==
    /\ MayCall(w, o)
    /\ IF store[o] # NoOrder
         THEN Refuse(w, "exists")
         ELSE Begin(w, "create", o, None, PlacedOrder)

(* advance: its own get, the terminal check and the successor in FLOW.  The  *)
(* status itself is read again by set_status.                                *)
AdvanceGet(w, o) ==
    /\ MayCall(w, o)
    /\ \/ /\ store[o] = NoOrder
          /\ Refuse(w, "not_found")
       \/ /\ store[o] # NoOrder
          /\ store[o].status \in TERMINAL
          /\ Refuse(w, "invalid")
       \/ \E i \in 1..(Len(FLOW) - 1) :
            /\ FLOW[i] = store[o].status
            /\ Begin(w, "advance", o, FLOW[i + 1], NoOrder)

\* Mutant: set_status without the ALLOWED check.
UncheckedSetStatusGet(w, o, s) ==
    /\ MayCall(w, o)
    /\ store[o] # NoOrder
    /\ Begin(w, "set", o, s, Moved(store[o], s))

(* set_status up to its save, called by a client (cancel is set_status with  *)
(* cancelled) ...                                                            *)
SetStatusGet(w, o, s) ==
    /\ MayCall(w, o)
    /\ \/ /\ store[o] = NoOrder
          /\ Refuse(w, "not_found")
       \/ /\ store[o] # NoOrder
          /\ s \notin ALLOWED[store[o].status]
          /\ Refuse(w, "invalid")
       \/ /\ store[o] # NoOrder
          /\ s \in ALLOWED[store[o].status]
          /\ Begin(w, "set", o, s, Moved(store[o], s))

\* Mutant: advance writes the successor it computed without set_status's check.
UncheckedAdvanceSetGet(w) ==
    LET o == call[w].id
        s == call[w].target
    IN  /\ call[w].pc = "advance"
        /\ call' = [call EXCEPT ![w] = InCall("set", o, s, Moved(store[o], s))]
        /\ UNCHANGED << store, events, calls >>

(* ... and called by advance with the successor it computed. *)
AdvanceSetGet(w) ==
    LET o == call[w].id
        s == call[w].target
    IN  /\ call[w].pc = "advance"
        /\ IF s \in ALLOWED[store[o].status]
             THEN call' = [call EXCEPT ![w] = InCall("set", o, s, Moved(store[o], s))]
             ELSE Return(w, "invalid")
        /\ UNCHANGED << store, events, calls >>

(* assign_courier and set_eta: no status check. *)
AssignCourierGet(w, o, c) ==
    /\ MayCall(w, o)
    /\ IF store[o] = NoOrder
         THEN Refuse(w, "not_found")
         ELSE Begin(w, "edit", o, None, [store[o] EXCEPT !.courier = c])

SetEtaGet(w, o, e) ==
    /\ MayCall(w, o)
    /\ IF store[o] = NoOrder
         THEN Refuse(w, "not_found")
         ELSE Begin(w, "edit", o, None, [store[o] EXCEPT !.eta = e])

(* store.save: the local copy replaces the stored order.  create_order and   *)
(* set_status go on to the callback, the edits return.                       *)
Save(w) ==
    /\ call[w].pc \in {"create", "set", "edit"}
    /\ store' = [store EXCEPT ![call[w].id] = call[w].order]
    /\ IF call[w].pc = "edit"
         THEN Return(w, "ok")
         ELSE call' = [call EXCEPT ![w].pc = "emit"]
    /\ UNCHANGED << events, calls >>

\* Mutant: the exception of a failed save is swallowed.
SwallowedSaveFails(w) ==
    /\ call[w].pc \in {"create", "set", "edit"}
    /\ call' = [call EXCEPT ![w].pc = "emit"]
    /\ UNCHANGED << store, events, calls >>

(* store.save raises: nothing was written (the file store removes its        *)
(* temporary file, a database rolls back).                                   *)
SaveFails(w) ==
    /\ call[w].pc \in {"create", "set", "edit"}
    /\ Return(w, "save_failed")
    /\ UNCHANGED << store, events, calls >>

\* Mutant: create_order forgets to announce the opening entry.
MovesOnlyEmit(w) ==
    LET c == call[w] IN
    /\ c.pc = "emit"
    /\ events' = IF Len(c.order.timeline) = 1
                   THEN events
                   ELSE Append(events, [id     |-> c.id,
                                        status |-> c.order.status,
                                        entry  |-> Len(c.order.timeline)])
    /\ Return(w, "ok")
    /\ UNCHANGED << store, calls >>

(* _emit: on_event returns, or its exception reaches the caller although the *)
(* transition is stored.                                                     *)
Emit(w) ==
    LET c == call[w] IN
    /\ c.pc = "emit"
    /\ events' = Append(events, [id     |-> c.id,
                                 status |-> c.order.status,
                                 entry  |-> Len(c.order.timeline)])
    /\ Return(w, "ok")
    /\ UNCHANGED << store, calls >>

EmitFails(w) ==
    /\ call[w].pc = "emit"
    /\ Return(w, "callback_failed")
    /\ UNCHANGED << store, events, calls >>

(* The worker's process dies inside a call; a durable store keeps what was   *)
(* saved.                                                                    *)
Crash(w) ==
    /\ call[w].pc # "idle"
    /\ Return(w, "crashed")
    /\ UNCHANGED << store, events, calls >>

\* The next step of the call w is in.
Step(w) == AdvanceSetGet(w) \/ Save(w) \/ Emit(w)

Fault(w) == SaveFails(w) \/ EmitFails(w) \/ Crash(w)

Start(w, o) ==
    \/ CreateGet(w, o)
    \/ AdvanceGet(w, o)
    \/ \E s \in Status : SetStatusGet(w, o, s)
    \/ \E c \in Couriers : AssignCourierGet(w, o, c)
    \/ \E e \in Etas : SetEtaGet(w, o, e)

Next == \E w \in Workers : Step(w) \/ Fault(w) \/ \E o \in Orders : Start(w, o)

Spec == Init /\ [][Next]_vars

\* The interpreter runs a call that has begun to its end.
FairSpec == Spec /\ \A w \in Workers : WF_vars(Step(w))
-----------------------------------------------------------------------------
TypeOK ==
    /\ store  \in [Orders -> Order]
    /\ call   \in [Workers -> Calls]
    /\ events \in Seq([id : Orders, status : Status, entry : Nat])
    /\ calls  \in 0..MaxCalls

\* An order whose timeline obeys the transition table and ends in its status.
LawfulOrder(order) ==
    /\ Table!Lawful(order.timeline)
    /\ order.status = order.timeline[Len(order.timeline)]

\* However the calls interleave and fail, every stored order and every copy a
\* call is about to save has a timeline the table allows, that starts at placed
\* and ends in the order's status (set_status checks and edits one copy).
LawfulTimelines ==
    /\ \A o \in Orders : store[o] # NoOrder => LawfulOrder(store[o])
    /\ \A w \in Workers : call[w].order # NoOrder => LawfulOrder(call[w].order)
-----------------------------------------------------------------------------
(* What holds when the callers serialise the calls on one order, and what    *)
(* the documentation says without that condition.                            *)

\* delivered and cancelled are terminal: no step takes an order out of them.
TerminalIsFinal ==
    [][\A o \in Orders :
         store[o].status \in TERMINAL => store'[o].status = store[o].status]_vars

\* A save changes the one thing its operation is about: a move extends the
\* timeline and keeps courier and ETA, an edit keeps the timeline, and neither
\* edit undoes the other.
NoLostUpdate ==
    [][\A o \in Orders :
         (store[o] # NoOrder /\ store'[o] # store[o]) =>
            LET old == store[o]
                new == store'[o]
            IN  \/ new = [old EXCEPT !.courier = new.courier]
                \/ new = [old EXCEPT !.eta = new.eta]
                \/ \E s \in Status :
                     new = [old EXCEPT !.status = s, !.timeline = Append(@, s)]]_vars

\* The service implements the abstract lifecycle, edits being stutters.
ImplementsLifecycle == Table!Spec

\* A transition whose save went through is announced, entry by entry, unless
\* the callback raises or the worker dies: the call never ends quietly.
SavedIsAnnounced ==
    \A w \in Workers, o \in Orders, n \in 1..Len(FLOW) :
        (/\ call[w].pc = "emit"
         /\ call[w].id = o
         /\ Len(call[w].order.timeline) = n)
        ~> \/ call[w].result \in {"callback_failed", "crashed"}
           \/ \E i \in 1..Len(events) : events[i].id = o /\ events[i].entry = n
=============================================================================
