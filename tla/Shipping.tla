------------------------------ MODULE Shipping -------------------------------
(***************************************************************************)
(* ShippingService over one of its two couriers: Delhivery, reached over   *)
(* HTTP, and the mock, which keeps the parcels in memory.                  *)
(*                                                                         *)
(* A call of the mock is one step.  A call of Delhivery sends a request,   *)
(* which the courier carries out at some later time or never, and ends     *)
(* when the answer is read or when an exception ends it; the request of a  *)
(* call that has ended may still be carried out.  The courier itself is    *)
(* external: it is free within what the provider relies on, stated at its  *)
(* actions.                                                                *)
(***************************************************************************)
EXTENDS Naturals, Sequences

CONSTANTS
    Orders,          \* order ids
    Unserved,        \* the orders to a pincode that is not serviceable
    Waybills,        \* waybill numbers
    MockWaybill,     \* order -> the waybill the mock makes of its id by a hash
    Providers,       \* the providers to consider, of "delhivery" and "mock"
    Texts,           \* the status texts of the courier, stripped, in lower case
    MaxCalls,        \* bound on the calls made
    None             \* Python's None, and a key that an answer does not have

VARIABLES
    provider,        \* the ShippingProvider in use
    parcels,         \* waybill -> the courier's record (_shipments of the mock)
    pickups,         \* the schedule_pickup calls the courier has booked
    calls,           \* the calls made, with what their callers were told
    wire             \* the calls whose request has not reached the courier

vars == << provider, parcels, pickups, calls, wire >>

ASSUME ShippingAssumption ==
    /\ Unserved \subseteq Orders
    /\ MockWaybill \in [Orders \ Unserved -> Waybills]
    /\ \A o, p \in Orders \ Unserved : MockWaybill[o] = MockWaybill[p] => o = p
    /\ Providers \subseteq {"delhivery", "mock"}
    /\ {"manifested", "delivered", "cancelled"} \subseteq Texts
    /\ MaxCalls \in Nat
    /\ None \notin Orders \cup Texts \cup Waybills \cup {"true", "false", "returned"}
    /\ Waybills \cap {"pending", "error", "raised", "rejected"} = {}
-----------------------------------------------------------------------------
STATUS_MAP ==
    [manifested       |-> {"manifested", "not picked", "pending", "pickup scheduled"},
     in_transit       |-> {"in transit", "dispatched"},
     out_for_delivery |-> {"out for delivery"},
     delivered        |-> {"delivered"},
     failed           |-> {"rto", "undelivered"},
     cancelled        |-> {"cancelled", "returned"}]

SHIPMENT_STATUSES == DOMAIN STATUS_MAP \cup {"unknown"}

\* Mutants: a text that is not listed is passed on; a text that ends in
\* "delivered" is taken for it.
LaxNormalizeStatus(raw) ==
    IF \E s \in DOMAIN STATUS_MAP : raw \in STATUS_MAP[s]
      THEN CHOOSE s \in DOMAIN STATUS_MAP : raw \in STATUS_MAP[s]
      ELSE raw

SuffixNormalizeStatus(raw) ==
    IF raw \in {"delivered", "undelivered"} THEN "delivered"
    ELSE IF \E s \in DOMAIN STATUS_MAP : raw \in STATUS_MAP[s]
      THEN CHOOSE s \in DOMAIN STATUS_MAP : raw \in STATUS_MAP[s]
      ELSE "unknown"

NormalizeStatus(raw) ==
    IF \E s \in DOMAIN STATUS_MAP : raw \in STATUS_MAP[s]
      THEN CHOOSE s \in DOMAIN STATUS_MAP : raw \in STATUS_MAP[s]
      ELSE "unknown"

\* call: the ship call that made the parcel.
Parcel == [call : 1..MaxCalls, order : Orders, text : Texts]

NoParcel == [call |-> 0, order |-> None, text |-> None]

\* The texts a parcel keeps for good.
Final == {"delivered", "cancelled", "returned"}

\* What the courier's JSON says: success and the status of the first package
\* for a manifest, the text for a track, status for a cancel ("true", "false" and
\* null or a missing status are JSON's, "string" is any text), and whether there is
\* a pickup_id.
Manifests     == [success : BOOLEAN, package : BOOLEAN, waybill : Waybills \cup {None}]
Tracks        == [text : Texts \cup {None}]
Cancellations == [status : {"true", "false", "string", None}]
Pickups       == [pickup_id : BOOLEAN]

Ops == {"ship", "track", "cancel", "pickup"}

\* A ShippingError is "error", ShipmentCreationError and NotServiceableError are
\* "rejected", any other exception is "raised".  A boolean result, and the ok of a
\* PickupResult, is "yes" or "no"; a PickupResult with a pickup_id is "booked".
Outcomes == Waybills \cup SHIPMENT_STATUSES
              \cup {"pending", "error", "raised", "rejected", "yes", "no", "booked"}

Call == [op     : Ops,
         arg    : Orders \cup Waybills \cup {None},
         answer : Manifests \cup Tracks \cup Cancellations \cup Pickups \cup {None},
         out    : Outcomes]

Pending(i) == i \in DOMAIN calls /\ calls[i].out = "pending"

Made(op, arg, out) ==
    /\ Len(calls) < MaxCalls
    /\ calls' = Append(calls, [op |-> op, arg |-> arg, answer |-> None, out |-> out])
-----------------------------------------------------------------------------
(* What DelhiveryProvider makes of an answer. *)

\* Mutants: only the top-level flag counts; any waybill in the answer will do.
StrictManifested(a) ==
    IF a.success /\ a.waybill # None THEN a.waybill ELSE "rejected"

EagerManifested(a) ==
    IF a.waybill # None THEN a.waybill ELSE "rejected"

Manifested(a) ==
    IF (a.success \/ a.package) /\ a.waybill # None THEN a.waybill ELSE "rejected"

\* Mutant: an answer is a success.
TrustingCancelled(a) == "yes"

\* bool() of the status, True where there is none: a string is True whatever it
\* says, and an empty body has no status.
Cancelled(a) == IF a.status # "false" THEN "yes" ELSE "no"

\* Mutant: str() of a pickup_id that is not there.
NumberedScheduled(a) == "booked"

\* Any body of an HTTP 200 is ok; the pickup_id may be missing.
Scheduled(a) == IF a.pickup_id THEN "booked" ELSE "yes"

Result(c) ==
    CASE c.op = "ship"   -> Manifested(c.answer)
      [] c.op = "track"  -> NormalizeStatus(c.answer.text)
      [] c.op = "cancel" -> Cancelled(c.answer)
      [] c.op = "pickup" -> Scheduled(c.answer)

\* schedule_pickup alone turns the ShippingError into a result.  What goes wrong
\* outside _http's try is no ShippingError: the read of an error's body, and .get
\* on JSON that is not an object.
Failures(c) == {"raised", IF c.op = "pickup" THEN "no" ELSE "error"}
-----------------------------------------------------------------------------
Init ==
    /\ provider \in Providers
    /\ parcels = [w \in Waybills |-> NoParcel]
    /\ pickups = {}
    /\ calls   = << >>
    /\ wire    = {}

(* A call of DelhiveryProvider: _http sends its request. *)
Request(op, arg) ==
    /\ provider = "delhivery"
    /\ Made(op, arg, "pending")
    /\ wire' = wire \cup {Len(calls) + 1}
    /\ UNCHANGED << provider, parcels, pickups >>

(* The answer is read, and the call returns or raises. *)
Return(i) ==
    /\ Pending(i)
    /\ calls[i].answer # None
    /\ calls' = [calls EXCEPT ![i].out = Result(calls[i]), ![i].answer = None]
    /\ UNCHANGED << provider, parcels, pickups, wire >>

\* Mutant: _http sends the request again before it gives up.
RetryingFail(i) ==
    /\ Pending(i)
    /\ \E out \in Failures(calls[i]) :
         calls' = [calls EXCEPT ![i].out = out, ![i].answer = None]
    /\ wire' = wire \cup {i}
    /\ UNCHANGED << provider, parcels, pickups >>

(* The call raises: the request or its answer is lost, late, refused, not JSON *)
(* or of another shape.                                                        *)
Fail(i) ==
    /\ Pending(i)
    /\ \E out \in Failures(calls[i]) :
         calls' = [calls EXCEPT ![i].out = out, ![i].answer = None]
    /\ UNCHANGED << provider, parcels, pickups, wire >>
-----------------------------------------------------------------------------
(* The courier.  A request that arrives is carried out once. *)

Arrive(i, op) ==
    /\ i \in wire
    /\ calls[i].op = op
    /\ wire' = wire \ {i}

Answer(i, a) ==
    calls' = IF Pending(i) THEN [calls EXCEPT ![i].answer = a] ELSE calls

(* A new parcel gets a new waybill, which the answer names as a success in one *)
(* of two places; a rejection names no success, but may name a waybill.  The   *)
(* provider relies on it: it takes a success without a waybill, and an empty   *)
(* body, for a rejection, so neither may be about a parcel.                    *)
CourierManifest(i) ==
    /\ Arrive(i, "ship")
    /\ \E a \in Manifests :
         /\ Answer(i, a)
         /\ \/ /\ calls[i].arg \notin Unserved
               /\ a.success \/ a.package
               /\ a.waybill # None
               /\ parcels[a.waybill] = NoParcel
               /\ parcels' = [parcels EXCEPT ![a.waybill] =
                     [call |-> i, order |-> calls[i].arg, text |-> "manifested"]]
            \/ /\ ~a.success /\ ~a.package
               /\ UNCHANGED parcels
    /\ UNCHANGED << provider, pickups >>

CourierTrack(i) ==
    /\ Arrive(i, "track")
    /\ Answer(i, [text |-> parcels[calls[i].arg].text])
    /\ UNCHANGED << provider, parcels, pickups >>

(* A parcel that is not delivered may be cancelled, and the answer need not    *)
(* say so; a refusal is a status that is false.  The provider relies on it: it *)
(* takes a refusal in words, or without a status, for a cancel.                *)
CourierCancel(i) ==
    LET w == calls[i].arg IN
    /\ Arrive(i, "cancel")
    /\ \/ /\ parcels[w] # NoParcel
          /\ parcels[w].text \notin Final \ {"cancelled"}
          /\ parcels' = [parcels EXCEPT ![w].text = "cancelled"]
          /\ \E s \in {"true", "string", None} : Answer(i, [status |-> s])
       \/ /\ Answer(i, [status |-> "false"])
          /\ UNCHANGED parcels
    /\ UNCHANGED << provider, pickups >>

(* A pickup that is booked may be answered with its pickup_id; one that is not *)
(* gets none, though the answer may be an HTTP 200 like any other.             *)
CourierPickup(i) ==
    /\ Arrive(i, "pickup")
    /\ \/ /\ \E id \in BOOLEAN : Answer(i, [pickup_id |-> id])
          /\ pickups' = pickups \cup {i}
       \/ /\ Answer(i, [pickup_id |-> FALSE])
          /\ UNCHANGED pickups
    /\ UNCHANGED << provider, parcels >>

(* The parcel travels. *)
CourierMove(w) ==
    /\ provider = "delhivery"
    /\ parcels[w] # NoParcel
    /\ parcels[w].text \notin Final
    /\ \E text \in Texts \ {"cancelled"} : parcels' = [parcels EXCEPT ![w].text = text]
    /\ UNCHANGED << provider, pickups, calls, wire >>
-----------------------------------------------------------------------------
(* The mock courier: a pincode that is not serviceable is refused, and the    *)
(* waybill of an order is the same each time it is shipped.                   *)
MockShip(o) ==
    LET w == MockWaybill[o] IN
    /\ provider = "mock"
    /\ \/ o \in Unserved /\ Made("ship", o, "rejected") /\ UNCHANGED parcels
       \/ /\ o \notin Unserved
          /\ Made("ship", o, w)
          /\ parcels' = [parcels EXCEPT ![w] =
                [call |-> Len(calls) + 1, order |-> o, text |-> "manifested"]]
    /\ UNCHANGED << provider, pickups, wire >>

MockTrack(w) ==
    /\ provider = "mock"
    /\ Made("track", w, IF parcels[w] = NoParcel THEN "unknown" ELSE parcels[w].text)
    /\ UNCHANGED << provider, parcels, pickups, wire >>

MockCancel(w) ==
    /\ provider = "mock"
    /\ \/ parcels[w] = NoParcel /\ Made("cancel", w, "no") /\ UNCHANGED parcels
       \/ /\ parcels[w] # NoParcel
          /\ Made("cancel", w, "yes")
          /\ parcels' = [parcels EXCEPT ![w].text = "cancelled"]
    /\ UNCHANGED << provider, pickups, wire >>

MockPickup ==
    /\ provider = "mock"
    /\ Made("pickup", None, "booked")
    /\ pickups' = pickups \cup {Len(calls) + 1}
    /\ UNCHANGED << provider, parcels, wire >>
-----------------------------------------------------------------------------
Next ==
    \/ \E o \in Orders : Request("ship", o) \/ MockShip(o)
    \/ \E w \in Waybills :
         \/ Request("track", w) \/ Request("cancel", w)
         \/ MockTrack(w) \/ MockCancel(w) \/ CourierMove(w)
    \/ Request("pickup", None) \/ MockPickup
    \/ \E i \in 1..MaxCalls :
         \/ Return(i) \/ Fail(i)
         \/ CourierManifest(i) \/ CourierTrack(i) \/ CourierCancel(i) \/ CourierPickup(i)

Spec == Init /\ [][Next]_vars
-----------------------------------------------------------------------------
TypeOK ==
    /\ provider \in Providers
    /\ parcels \in [Waybills -> Parcel \cup {NoParcel}]
    /\ pickups \subseteq 1..MaxCalls
    /\ calls \in Seq(Call) /\ Len(calls) <= MaxCalls
    /\ wire \subseteq DOMAIN calls

\* What the caller of ship holds is real: its waybill is on the courier's books
\* for the order that was shipped, whatever the answer looked like.
HeldIsManifested ==
    \A i \in DOMAIN calls :
        (calls[i].op = "ship" /\ calls[i].out \in Waybills) =>
            parcels[calls[i].out].order = calls[i].arg

\* A parcel nobody knows of comes only of a call that is running or ended in a
\* plain ShippingError or another exception: a ship call that was rejected left
\* nothing with the courier and may be tried again.
NoStrayParcel ==
    \A w \in Waybills : parcels[w] # NoParcel =>
        calls[parcels[w].call].out \in {w, "pending", "error", "raised"}

\* A ship call makes one parcel at most, however it ends: an order is sent twice
\* only when the caller ships it twice.
OneParcelPerCall ==
    \A w, v \in Waybills :
        (parcels[w] # NoParcel /\ parcels[w].call = parcels[v].call) => w = v

\* The parcel of w was shipped, under the same waybill, after call i.
ShippedAgain(w, i) ==
    \E j \in DOMAIN calls : j > i /\ calls[j].op = "ship" /\ calls[j].out = w

\* "Cancel a shipment that hasn't been delivered yet": a parcel whose cancel was
\* confirmed is cancelled and stays so, until the mock ships its order again.
CancelHolds ==
    \A i \in DOMAIN calls :
        (calls[i].op = "cancel" /\ calls[i].out = "yes") =>
            \/ parcels[calls[i].arg].text = "cancelled"
            \/ ShippedAgain(calls[i].arg, i)

\* A status that ends the order is true and stays true: a parcel tracked as
\* delivered was delivered, one tracked as cancelled came back or was cancelled.
FinalReportsHold ==
    \A i \in DOMAIN calls :
        calls[i].op = "track" =>
            LET text == parcels[calls[i].arg].text IN
            /\ calls[i].out = "delivered" => text = "delivered"
            /\ calls[i].out = "cancelled" =>
                  text \in {"cancelled", "returned"} \/ ShippedAgain(calls[i].arg, i)

\* A pickup_id the caller was given is of a pickup on the courier's books, though
\* schedule_pickup is ok with any body of an HTTP 200.  ok alone shows nothing, and
\* a pickup whose call failed may be booked, now or later.
PickupIsBooked ==
    \A i \in DOMAIN calls :
        (calls[i].op = "pickup" /\ calls[i].out = "booked") => i \in pickups
=============================================================================
