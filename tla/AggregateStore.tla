--------------------------- MODULE AggregateStore ----------------------------
(***************************************************************************)
(* What the SDKs take a store to be: save replaces the aggregate of a key  *)
(* at once or raises and changes nothing, get answers with the aggregate   *)
(* that is stored, or None, and delete removes it.  The other models use   *)
(* stores in this form.                                                    *)
(***************************************************************************)
CONSTANTS Keys, Values, Workers, None

VARIABLES content,     \* key -> stored aggregate, None if there is none
          answer       \* worker -> how its last call ended

Answers == Values \cup {None} \cup {"none", "saved", "deleted", "listed", "raised", "crashed"}

Answer(w, a) == answer' = [answer EXCEPT ![w] = a]

Init ==
    /\ content = [k \in Keys |-> None]
    /\ answer  = [w \in Workers |-> "none"]

Save(w, k, v) == content' = [content EXCEPT ![k] = v] /\ Answer(w, "saved")

Delete(w, k) == content' = [content EXCEPT ![k] = None] /\ Answer(w, "deleted")

Get(w, k) == Answer(w, content[k]) /\ UNCHANGED content

End(w, a) == Answer(w, a) /\ UNCHANGED content

Next == \E w \in Workers :
    \/ \E k \in Keys : Delete(w, k) \/ Get(w, k) \/ \E v \in Values : Save(w, k, v)
    \/ \E a \in {"listed", "raised", "crashed"} : End(w, a)

Spec == Init /\ [][Next]_<< content, answer >>
=============================================================================
