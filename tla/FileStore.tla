------------------------------ MODULE FileStore ------------------------------
(***************************************************************************)
(* The JSON-file stores: one file per key.  save writes a temporary file   *)
(* in the same directory and renames it over the file; get and delete look *)
(* whether the file exists and then open or unlink it; list takes the      *)
(* names that match and opens them one by one.  Each call to the operating *)
(* system is a step.  An open file is read whole: a rename does not touch  *)
(* what is being read.  Temporary files have names of their own and do not *)
(* match what list looks for, so only their writer ever sees them.         *)
(***************************************************************************)
EXTENDS Naturals, FiniteSets

CONSTANTS
    Keys,        \* cart, order or record ids; one for a menu
    Values,      \* aggregates
    Workers,     \* threads, requests or processes that use the store
    Offers,      \* what the stores offer besides get and save: "list", "delete"
    Partial,     \* a file that is not written to its end
    None         \* Python's None, and a file that does not exist

VARIABLES
    offer,       \* the operations of the store in use
    files,       \* key -> content of its file
    temp,        \* worker -> content of its temporary file
    call,        \* worker -> the call it is in
    answer,      \* worker -> how its last call ended
    seen         \* history: worker -> key -> contents since its listing began

vars == << offer, files, temp, call, answer, seen >>

Abstract == INSTANCE AggregateStore WITH content <- files

ASSUME FileStoreAssumption ==
    /\ \A o \in Offers : o \subseteq {"list", "delete"}
    /\ {Partial, None} \cap (Keys \cup Values) = {}
    /\ Partial # None
-----------------------------------------------------------------------------
\* made, written: in save.  read: in get.  unlink: in delete.
Stages == {"idle", "made", "written", "read", "unlink", "list"}

\* todo: the names list has not opened yet; listed: what it has read.
Calls == [pc : Stages, key : Keys \cup {None}, value : Values \cup {None},
          todo : SUBSET Keys, listed : [Keys -> Values \cup {Partial, None}]]

Nothing == [k \in Keys |-> None]

Idle == [pc |-> "idle", key |-> None, value |-> None, todo |-> {}, listed |-> Nothing]

At(w, pc) == call[w].pc = pc

Hold(w, c) == call' = [call EXCEPT ![w] = c] /\ UNCHANGED answer

Return(w, a) ==
    /\ call' = [call EXCEPT ![w] = Idle]
    /\ answer' = [answer EXCEPT ![w] = a]

\* Histories of listings in progress take in the files as they are next.
Seen == [w \in Workers |-> [k \in Keys |->
            IF At(w, "list") THEN seen[w][k] \cup {files'[k]} ELSE {}]]
-----------------------------------------------------------------------------
Init ==
    /\ offer \in Offers
    /\ files  = Nothing
    /\ temp   = [w \in Workers |-> None]
    /\ call   = [w \in Workers |-> Idle]
    /\ answer = [w \in Workers |-> "none"]
    /\ seen   = [w \in Workers |-> [k \in Keys |-> {}]]

(* save: mkstemp ... *)
MakeTemp(w, k, v) ==
    /\ At(w, "idle")
    /\ temp' = [temp EXCEPT ![w] = Partial]
    /\ Hold(w, [Idle EXCEPT !.pc = "made", !.key = k, !.value = v])
    /\ UNCHANGED << offer, files, seen >>

(* ... the payload is written and the file closed ... *)
WriteTemp(w) ==
    /\ At(w, "made")
    /\ temp' = [temp EXCEPT ![w] = call[w].value]
    /\ Hold(w, [call[w] EXCEPT !.pc = "written"])
    /\ UNCHANGED << offer, files, seen >>

\* Mutant: the rename inside the with block, before the file is closed.
EarlyReplace(w) ==
    /\ At(w, "made") \/ At(w, "written")
    /\ files' = [files EXCEPT ![call[w].key] = temp[w]]
    /\ temp' = [temp EXCEPT ![w] = None]
    /\ Return(w, "saved")
    /\ seen' = Seen
    /\ UNCHANGED offer

(* ... and os.replace puts it in the place of the old file. *)
Replace(w) ==
    /\ At(w, "written")
    /\ files' = [files EXCEPT ![call[w].key] = temp[w]]
    /\ temp' = [temp EXCEPT ![w] = None]
    /\ Return(w, "saved")
    /\ seen' = Seen
    /\ UNCHANGED offer

\* Mutants: the temporary file is left behind; the exception is swallowed.
LeakySaveRaises(w) ==
    /\ At(w, "made") \/ At(w, "written")
    /\ Return(w, "raised")
    /\ UNCHANGED << offer, files, temp, seen >>

SwallowedSaveRaises(w) ==
    /\ At(w, "made") \/ At(w, "written")
    /\ temp' = [temp EXCEPT ![w] = None]
    /\ Return(w, "saved")
    /\ UNCHANGED << offer, files, seen >>

(* The write or the rename raises: the temporary file is removed. *)
SaveRaises(w) ==
    /\ At(w, "made") \/ At(w, "written")
    /\ temp' = [temp EXCEPT ![w] = None]
    /\ Return(w, "raised")
    /\ UNCHANGED << offer, files, seen >>

(* get: path.exists ... *)
Exists(w, k) ==
    /\ At(w, "idle")
    /\ IF files[k] = None
         THEN Return(w, None)
         ELSE Hold(w, [Idle EXCEPT !.pc = "read", !.key = k])
    /\ UNCHANGED << offer, files, temp, seen >>

(* ... and read_text, of a file that may be gone by now. *)
Read(w) ==
    /\ At(w, "read")
    /\ LET content == files[call[w].key]
       IN  Return(w, IF content = None THEN "raised" ELSE content)
    /\ UNCHANGED << offer, files, temp, seen >>

(* delete, the same way. *)
DeleteExists(w, k) ==
    /\ "delete" \in offer
    /\ At(w, "idle")
    /\ IF files[k] = None
         THEN Return(w, "deleted")
         ELSE Hold(w, [Idle EXCEPT !.pc = "unlink", !.key = k])
    /\ UNCHANGED << offer, files, temp, seen >>

Unlink(w) ==
    /\ At(w, "unlink")
    /\ files' = [files EXCEPT ![call[w].key] = None]
    /\ Return(w, IF files[call[w].key] = None THEN "raised" ELSE "deleted")
    /\ seen' = Seen
    /\ UNCHANGED << offer, temp >>

(* list: the names are taken at once ... *)
Glob(w) ==
    /\ "list" \in offer
    /\ At(w, "idle")
    /\ Hold(w, [Idle EXCEPT !.pc = "list", !.todo = {k \in Keys : files[k] # None}])
    /\ seen' = [seen EXCEPT ![w] = [k \in Keys |-> {files[k]}]]
    /\ UNCHANGED << offer, files, temp >>

(* ... and the files are read in any order. *)
ReadNext(w, k) ==
    /\ At(w, "list")
    /\ k \in call[w].todo
    /\ Hold(w, [call[w] EXCEPT !.todo = @ \ {k}, !.listed[k] = files[k]])
    /\ UNCHANGED << offer, files, temp, seen >>

\* Mutant: the loop ends before the last name.
EarlyListReturn(w) ==
    /\ At(w, "list")
    /\ Cardinality(call[w].todo) < 2
    /\ Return(w, "listed")
    /\ UNCHANGED << offer, files, temp, seen >>

ListReturn(w) ==
    /\ At(w, "list")
    /\ call[w].todo = {}
    /\ Return(w, "listed")
    /\ UNCHANGED << offer, files, temp, seen >>

(* The worker's process dies.  A temporary file stays in the directory, where *)
(* nothing reads it.                                                          *)
Crash(w) ==
    /\ ~At(w, "idle")
    /\ temp' = [temp EXCEPT ![w] = None]
    /\ Return(w, "crashed")
    /\ UNCHANGED << offer, files, seen >>

Next == \E w \in Workers :
    \/ \E k \in Keys :
         \/ \E v \in Values : MakeTemp(w, k, v)
         \/ Exists(w, k) \/ DeleteExists(w, k) \/ ReadNext(w, k)
    \/ WriteTemp(w) \/ Replace(w) \/ SaveRaises(w)
    \/ Read(w) \/ Unlink(w)
    \/ Glob(w) \/ ListReturn(w)
    \/ Crash(w)

Spec == Init /\ [][Next]_vars
-----------------------------------------------------------------------------
\* A save owns a temporary file from mkstemp to its rename or its clean-up and
\* never after.  The file of a process that died stays on disk, since the clean-up
\* of save never runs; it belongs to no save, and its name is no key's.
TypeOK ==
    /\ offer \in Offers
    /\ files \in [Keys -> Values \cup {Partial, None}]
    /\ temp \in [Workers -> Values \cup {Partial, None}]
    /\ call \in [Workers -> Calls]
    /\ answer \in [Workers -> Abstract!Answers \cup {Partial}]
    /\ \A w \in Workers : temp[w] # None <=> At(w, "made") \/ At(w, "written")

\* "A crash mid-save can never leave a half-written, corrupt menu file": no file
\* a reader can open is ever partial.
FilesAreWhole == \A k \in Keys : files[k] # Partial

\* The file steps of a store add up to calls that take effect at once: a save
\* that raised or died before its rename has changed nothing, and an answer is
\* what was stored at one moment of the call.
ImplementsAggregateStore == Abstract!Spec

\* What list returns for a key is what its file held at some moment of the
\* listing: no order that was there throughout is missing.
ListIsPlausible ==
    [][\A w \in Workers :
         (At(w, "list") /\ answer'[w] = "listed" /\ At(w, "idle")') =>
            \A k \in Keys : call[w].listed[k] \in seen[w][k]]_vars
=============================================================================
