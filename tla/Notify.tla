------------------------------- MODULE Notify --------------------------------
(***************************************************************************)
(* NotifyService as the on_event callback of DeliveryService.  The         *)
(* application hands every status event to notify_status with the phone of *)
(* the order's customer; notify_status renders a text and gives it to the  *)
(* provider, or does nothing without a phone.  Whether the provider took   *)
(* the text and whether its answer comes back are two things: the request  *)
(* may be refused, or accepted and then time out.  Nothing sends again.    *)
(***************************************************************************)
EXTENDS Delivery

VARIABLES
    phone,       \* the orders whose customer gave a phone number
    handed,      \* worker -> TRUE once the provider has the text of its call
    texts        \* history of the texts the provider took

notifyVars == << store, call, events, calls, phone, handed, texts >>

StatusText(w) ==
    [id     |-> call[w].id,
     status |-> call[w].order.status,
     entry  |-> Len(call[w].order.timeline)]
-----------------------------------------------------------------------------
NotifyInit ==
    /\ Init
    /\ phone  \in SUBSET Orders
    /\ handed = [w \in Workers |-> FALSE]
    /\ texts  = << >>

\* Mutant: a request without an answer is sent again.
RetriedSend(w) ==
    /\ call[w].pc = "emit"
    /\ call[w].id \in phone
    /\ Len(texts) < MaxCalls
    /\ texts' = Append(texts, StatusText(w))
    /\ handed' = [handed EXCEPT ![w] = TRUE]
    /\ UNCHANGED << store, call, events, calls, phone >>

(* notify_status and the provider's send: the provider takes the text ... *)
Send(w) ==
    /\ call[w].pc = "emit"
    /\ call[w].id \in phone
    /\ ~handed[w]
    /\ texts' = Append(texts, StatusText(w))
    /\ handed' = [handed EXCEPT ![w] = TRUE]
    /\ UNCHANGED << store, call, events, calls, phone >>

\* Mutant: the flag of a call outlives it.
UnresetNotified(w) ==
    /\ call[w].id \in phone => handed[w]
    /\ Emit(w)
    /\ UNCHANGED << phone, handed, texts >>

(* ... and the callback returns; without a phone it returned at once. *)
Notified(w) ==
    /\ call[w].id \in phone => handed[w]
    /\ Emit(w)
    /\ handed' = [handed EXCEPT ![w] = FALSE]
    /\ UNCHANGED << phone, texts >>

(* The provider refused the text, or its answer was lost: ProviderError. *)
SendRaises(w) ==
    /\ call[w].id \in phone
    /\ EmitFails(w)
    /\ handed' = [handed EXCEPT ![w] = FALSE]
    /\ UNCHANGED << phone, texts >>

NotifyCrash(w) ==
    /\ Crash(w)
    /\ handed' = [handed EXCEPT ![w] = FALSE]
    /\ UNCHANGED << phone, texts >>

\* The steps of a call that have nothing to do with its callback.
ServiceStep(w) ==
    /\ AdvanceSetGet(w) \/ Save(w) \/ SaveFails(w) \/ \E o \in Orders : Start(w, o)
    /\ UNCHANGED << phone, handed, texts >>

NotifyNext == \E w \in Workers :
    ServiceStep(w) \/ Send(w) \/ Notified(w) \/ SendRaises(w) \/ NotifyCrash(w)

NotifySpec == NotifyInit /\ [][NotifyNext]_notifyVars
-----------------------------------------------------------------------------
\* A text is with the provider only during the callback it belongs to.
NotifyTypeOK ==
    /\ TypeOK
    /\ phone  \subseteq Orders
    /\ handed \in [Workers -> BOOLEAN]
    /\ texts  \in Seq([id : Orders, status : Status, entry : Nat])
    /\ \A w \in Workers : handed[w] => call[w].pc = "emit"

\* A customer's texts follow the timeline of the order: each tells a status that
\* is stored, in order, and none comes twice, however often callers try again
\* what failed after the provider had the text.  Texts may be missing where the
\* callback raised or a worker died.
TextsFollowTimeline ==
    \A i \in 1..Len(texts) :
        LET t == texts[i] IN
        /\ t.entry \in DOMAIN store[t.id].timeline
        /\ store[t.id].timeline[t.entry] = t.status
        /\ \A j \in 1..(i - 1) : texts[j].id = t.id => texts[j].entry < t.entry
=============================================================================
