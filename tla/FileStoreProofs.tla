--------------------------- MODULE FileStoreProofs ---------------------------
(***************************************************************************)
(* Theorems of FileStore, for any keys, values, workers and stores.        *)
(***************************************************************************)
EXTENDS FileStore, TLAPS

\* What the stage of a call says of its key, its value and its temporary file.
CallShape ==
    \A w \in Workers :
        /\ call[w].pc \in {"made", "written"} =>
              call[w].key \in Keys /\ call[w].value \in Values
        /\ call[w].pc = "written" => temp[w] = call[w].value
        /\ call[w].pc \in {"read", "unlink"} => call[w].key \in Keys

\* FilesAreWhole is not inductive: Replace puts a temporary file in the place of
\* the key's, which is whole because CallShape says what a written one holds.
Inv == TypeOK /\ CallShape /\ FilesAreWhole

\* During a listing, what the files hold is in its history, and so is what it
\* has read of the names that are done and the None of those it never saw.
ListShape ==
    \A w \in Workers : call[w].pc = "list" => \A k \in Keys :
        /\ files[k] \in seen[w][k]
        /\ k \notin call[w].todo => call[w].listed[k] \in seen[w][k]

SeenOK == seen \in [Workers -> [Keys -> SUBSET (Values \cup {Partial, None})]]

Ends == Abstract!Answers \cup {Partial}
-----------------------------------------------------------------------------
LEMMA IdleIsACall == Idle \in Calls /\ Idle.pc = "idle"
BY DEF Idle, Calls, Stages, Nothing

LEMMA InitInv == Init => Inv
<1> SUFFICES ASSUME Init PROVE Inv
    OBVIOUS
<1>1. TypeOK
    BY IdleIsACall DEF Init, TypeOK, Nothing, At, Idle, Abstract!Answers
<1>2. CallShape
    BY IdleIsACall DEF Init, CallShape
<1>3. FilesAreWhole
    BY FileStoreAssumption DEF Init, FilesAreWhole, Nothing
<1> QED BY <1>1, <1>2, <1>3 DEF Inv

\* Every action replaces the call, the temporary file and the answer of one
\* worker: the invariant is kept if it holds of the new ones and files stay whole.
LEMMA LocalStep ==
    ASSUME Inv, NEW w \in Workers, NEW c \in Calls,
           NEW x \in Values \cup {Partial, None},
           offer' = offer,
           call' = [call EXCEPT ![w] = c],
           temp' = [temp EXCEPT ![w] = x],
           answer' \in [Workers -> Ends],
           files' \in [Keys -> Values \cup {None}],
           x # None <=> c.pc \in {"made", "written"},
           c.pc \in {"made", "written"} => c.key \in Keys /\ c.value \in Values,
           c.pc = "written" => x = c.value,
           c.pc \in {"read", "unlink"} => c.key \in Keys
    PROVE  Inv'
<1>1. /\ call' \in [Workers -> Calls]
      /\ temp' \in [Workers -> Values \cup {Partial, None}]
      /\ call'[w] = c
      /\ temp'[w] = x
      /\ \A v \in Workers \ {w} : call'[v] = call[v] /\ temp'[v] = temp[v]
    BY DEF Inv, TypeOK
<1>2. TypeOK'
    <2>1. \A v \in Workers : temp'[v] # None <=> call'[v].pc \in {"made", "written"}
        BY <1>1 DEF Inv, TypeOK, At
    <2> QED BY <1>1, <2>1 DEF Inv, TypeOK, At, Ends
<1>3. CallShape'
    BY <1>1 DEF Inv, CallShape
<1>4. FilesAreWhole'
    BY FileStoreAssumption DEF FilesAreWhole
<1> QED BY <1>2, <1>3, <1>4 DEF Inv

\* An answer for one worker keeps the answers well typed.
LEMMA AnswerOK ==
    ASSUME Inv, NEW w \in Workers, NEW a \in Ends,
           answer' = [answer EXCEPT ![w] = a]
    PROVE  answer' \in [Workers -> Ends]
BY DEF Inv, TypeOK, Ends

LEMMA FilesOK == Inv => files \in [Keys -> Values \cup {None}]
BY DEF Inv, TypeOK, FilesAreWhole
-----------------------------------------------------------------------------
\* Holding a call that is not in a save: its worker had no temporary file.
LEMMA HoldKeepsInv ==
    ASSUME Inv, NEW w \in Workers, NEW c \in Calls,
           ~(At(w, "made") \/ At(w, "written")),
           c.pc \notin {"made", "written"},
           c.pc \in {"read", "unlink"} => c.key \in Keys,
           Hold(w, c), UNCHANGED << offer, files, temp >>
    PROVE  Inv'
<1>1. temp' = [temp EXCEPT ![w] = None]
    BY DEF Inv, TypeOK
<1>2. answer' \in [Workers -> Ends]
    BY DEF Hold, Inv, TypeOK, Ends
<1>3. call' = [call EXCEPT ![w] = c]
    BY DEF Hold
<1> QED BY <1>1, <1>2, <1>3, FilesOK, LocalStep

\* Returning from a call whose temporary file is gone.
LEMMA ReturnKeepsInv ==
    ASSUME Inv, NEW w \in Workers, NEW a \in Ends,
           Return(w, a), offer' = offer,
           temp' = [temp EXCEPT ![w] = None],
           files' \in [Keys -> Values \cup {None}]
    PROVE  Inv'
<1>1. answer' \in [Workers -> Ends]
    BY AnswerOK DEF Return
<1>2. call' = [call EXCEPT ![w] = Idle]
    BY DEF Return
<1> QED BY <1>1, <1>2, IdleIsACall, LocalStep

\* Outside a save a worker has no temporary file to lose.
LEMMA NoTempOutsideSave ==
    ASSUME Inv, NEW w \in Workers, ~(At(w, "made") \/ At(w, "written")),
           UNCHANGED temp
    PROVE  temp' = [temp EXCEPT ![w] = None]
BY DEF Inv, TypeOK

LEMMA MakeTempKeepsInv ==
    ASSUME Inv, NEW w \in Workers, NEW k \in Keys, NEW v \in Values,
           MakeTemp(w, k, v)
    PROVE  Inv'
<1> DEFINE c == [Idle EXCEPT !.pc = "made", !.key = k, !.value = v]
<1>1. c \in Calls /\ c.pc = "made" /\ c.key = k /\ c.value = v
    BY DEF Idle, Calls, Stages, Nothing
<1>2. /\ call' = [call EXCEPT ![w] = c]
      /\ temp' = [temp EXCEPT ![w] = Partial]
      /\ offer' = offer
      /\ files' \in [Keys -> Values \cup {None}]
      /\ answer' \in [Workers -> Ends]
    BY FilesOK DEF MakeTemp, Hold, Inv, TypeOK, Ends
<1> HIDE DEF c
<1> QED BY <1>1, <1>2, FileStoreAssumption, LocalStep

LEMMA WriteTempKeepsInv ==
    ASSUME Inv, NEW w \in Workers, WriteTemp(w)
    PROVE  Inv'
<1> DEFINE c == [call[w] EXCEPT !.pc = "written"]
<1>1. call[w] \in Calls /\ call[w].key \in Keys /\ call[w].value \in Values
    BY DEF WriteTemp, At, Inv, TypeOK, CallShape
<1>2. /\ c \in Calls
      /\ c.pc = "written"
      /\ c.key = call[w].key
      /\ c.value = call[w].value
    BY <1>1 DEF Calls, Stages
<1>3. /\ call' = [call EXCEPT ![w] = c]
      /\ temp' = [temp EXCEPT ![w] = call[w].value]
      /\ offer' = offer
      /\ files' \in [Keys -> Values \cup {None}]
      /\ answer' \in [Workers -> Ends]
    BY FilesOK DEF WriteTemp, Hold, Inv, TypeOK, Ends
<1> HIDE DEF c
<1> QED BY <1>1, <1>2, <1>3, FileStoreAssumption, LocalStep

\* What Replace puts in place of a file is the value its save was given.
LEMMA ReplaceWrites ==
    ASSUME Inv, NEW w \in Workers, Replace(w)
    PROVE  /\ call[w].key \in Keys
           /\ call[w].value \in Values
           /\ files' = [files EXCEPT ![call[w].key] = call[w].value]
BY DEF Replace, At, Inv, CallShape

LEMMA ReplaceKeepsInv ==
    ASSUME Inv, NEW w \in Workers, Replace(w)
    PROVE  Inv'
<1>1. files' \in [Keys -> Values \cup {None}]
    BY ReplaceWrites, FilesOK
<1>2. Return(w, "saved") /\ temp' = [temp EXCEPT ![w] = None] /\ offer' = offer
    BY DEF Replace
<1>3. "saved" \in Ends
    BY DEF Ends, Abstract!Answers
<1> QED BY <1>1, <1>2, <1>3, ReturnKeepsInv

LEMMA SaveRaisesKeepsInv ==
    ASSUME Inv, NEW w \in Workers, SaveRaises(w)
    PROVE  Inv'
<1>1. "raised" \in Ends
    BY DEF Ends, Abstract!Answers
<1> QED BY <1>1, FilesOK, ReturnKeepsInv DEF SaveRaises

LEMMA ExistsKeepsInv ==
    ASSUME Inv, NEW w \in Workers, NEW k \in Keys, Exists(w, k)
    PROVE  Inv'
<1> DEFINE c == [Idle EXCEPT !.pc = "read", !.key = k]
<1>1. ~(At(w, "made") \/ At(w, "written")) /\ UNCHANGED << offer, files, temp >>
    BY DEF Exists, At
<1>2. CASE files[k] = None
    <2>1. Return(w, None)
        BY <1>2 DEF Exists
    <2>2. None \in Ends
        BY DEF Ends, Abstract!Answers
    <2> QED BY <1>1, <2>1, <2>2, FilesOK, NoTempOutsideSave, ReturnKeepsInv
<1>3. CASE files[k] # None
    <2>1. Hold(w, c)
        BY <1>3 DEF Exists
    <2>2. c \in Calls /\ c.pc = "read" /\ c.key = k
        BY DEF Idle, Calls, Stages, Nothing
    <2> HIDE DEF c
    <2> QED BY <1>1, <2>1, <2>2, HoldKeepsInv
<1> QED BY <1>2, <1>3

LEMMA ReadKeepsInv ==
    ASSUME Inv, NEW w \in Workers, Read(w)
    PROVE  Inv'
<1> DEFINE a == IF files[call[w].key] = None THEN "raised" ELSE files[call[w].key]
<1>1. ~(At(w, "made") \/ At(w, "written")) /\ UNCHANGED << offer, files, temp >>
    BY DEF Read, At
<1>2. Return(w, a)
    BY DEF Read
<1>3. call[w].key \in Keys
    BY DEF Read, At, Inv, CallShape
<1>4. a \in Ends
    BY <1>3, FilesOK DEF Ends, Abstract!Answers
<1> HIDE DEF a
<1> QED BY <1>1, <1>2, <1>4, FilesOK, NoTempOutsideSave, ReturnKeepsInv

LEMMA DeleteExistsKeepsInv ==
    ASSUME Inv, NEW w \in Workers, NEW k \in Keys, DeleteExists(w, k)
    PROVE  Inv'
<1> DEFINE c == [Idle EXCEPT !.pc = "unlink", !.key = k]
<1>1. ~(At(w, "made") \/ At(w, "written")) /\ UNCHANGED << offer, files, temp >>
    BY DEF DeleteExists, At
<1>2. CASE files[k] = None
    <2>1. Return(w, "deleted")
        BY <1>2 DEF DeleteExists
    <2>2. "deleted" \in Ends
        BY DEF Ends, Abstract!Answers
    <2> QED BY <1>1, <2>1, <2>2, FilesOK, NoTempOutsideSave, ReturnKeepsInv
<1>3. CASE files[k] # None
    <2>1. Hold(w, c)
        BY <1>3 DEF DeleteExists
    <2>2. c \in Calls /\ c.pc = "unlink" /\ c.key = k
        BY DEF Idle, Calls, Stages, Nothing
    <2> HIDE DEF c
    <2> QED BY <1>1, <2>1, <2>2, HoldKeepsInv
<1> QED BY <1>2, <1>3

LEMMA UnlinkKeepsInv ==
    ASSUME Inv, NEW w \in Workers, Unlink(w)
    PROVE  Inv'
<1> DEFINE a == IF files[call[w].key] = None THEN "raised" ELSE "deleted"
<1>1. ~(At(w, "made") \/ At(w, "written")) /\ UNCHANGED << offer, temp >>
    BY DEF Unlink, At
<1>2. Return(w, a)
    BY DEF Unlink
<1>3. a \in Ends
    BY DEF Ends, Abstract!Answers
<1>4. files' \in [Keys -> Values \cup {None}]
    BY FilesOK DEF Unlink
<1> HIDE DEF a
<1> QED BY <1>1, <1>2, <1>3, <1>4, NoTempOutsideSave, ReturnKeepsInv

LEMMA GlobKeepsInv ==
    ASSUME Inv, NEW w \in Workers, Glob(w)
    PROVE  Inv'
<1> DEFINE c == [Idle EXCEPT !.pc = "list", !.todo = {k \in Keys : files[k] # None}]
<1>1. c \in Calls /\ c.pc = "list"
    BY DEF Idle, Calls, Stages, Nothing
<1>2. ~(At(w, "made") \/ At(w, "written")) /\ Hold(w, c)
      /\ UNCHANGED << offer, files, temp >>
    BY DEF Glob, At
<1> HIDE DEF c
<1> QED BY <1>1, <1>2, HoldKeepsInv

LEMMA ReadNextKeepsInv ==
    ASSUME Inv, NEW w \in Workers, NEW k \in Keys, ReadNext(w, k)
    PROVE  Inv'
<1> DEFINE c == [call[w] EXCEPT !.todo = @ \ {k}, !.listed[k] = files[k]]
<1>1. call[w] \in Calls /\ call[w].pc = "list" /\ files[k] \in Values \cup {None}
    BY FilesOK DEF ReadNext, At, Inv, TypeOK
<1>2. c \in Calls /\ c.pc = "list"
    BY <1>1 DEF Calls
<1>3. ~(At(w, "made") \/ At(w, "written")) /\ Hold(w, c)
      /\ UNCHANGED << offer, files, temp >>
    BY DEF ReadNext, At
<1> HIDE DEF c
<1> QED BY <1>2, <1>3, HoldKeepsInv

LEMMA ListReturnKeepsInv ==
    ASSUME Inv, NEW w \in Workers, ListReturn(w)
    PROVE  Inv'
<1>1. ~(At(w, "made") \/ At(w, "written")) /\ UNCHANGED << offer, files, temp >>
    BY DEF ListReturn, At
<1>2. "listed" \in Ends
    BY DEF Ends, Abstract!Answers
<1> QED BY <1>1, <1>2, FilesOK, NoTempOutsideSave, ReturnKeepsInv DEF ListReturn

LEMMA CrashKeepsInv ==
    ASSUME Inv, NEW w \in Workers, Crash(w)
    PROVE  Inv'
<1>1. "crashed" \in Ends
    BY DEF Ends, Abstract!Answers
<1> QED BY <1>1, FilesOK, ReturnKeepsInv DEF Crash

LEMMA NextKeepsInv == Inv /\ [Next]_vars => Inv'
<1> SUFFICES ASSUME Inv, [Next]_vars PROVE Inv'
    OBVIOUS
<1>1. CASE UNCHANGED vars
    BY <1>1 DEF vars, Inv, TypeOK, CallShape, FilesAreWhole, At
<1>2. ASSUME NEW w \in Workers, NEW k \in Keys, NEW v \in Values, MakeTemp(w, k, v)
      PROVE  Inv'
    BY <1>2, MakeTempKeepsInv
<1>3. ASSUME NEW w \in Workers, NEW k \in Keys,
             Exists(w, k) \/ DeleteExists(w, k) \/ ReadNext(w, k)
      PROVE  Inv'
    BY <1>3, ExistsKeepsInv, DeleteExistsKeepsInv, ReadNextKeepsInv
<1>4. ASSUME NEW w \in Workers, WriteTemp(w) \/ Replace(w) \/ SaveRaises(w)
      PROVE  Inv'
    BY <1>4, WriteTempKeepsInv, ReplaceKeepsInv, SaveRaisesKeepsInv
<1>5. ASSUME NEW w \in Workers,
             Read(w) \/ Unlink(w) \/ Glob(w) \/ ListReturn(w) \/ Crash(w)
      PROVE  Inv'
    BY <1>5, ReadKeepsInv, UnlinkKeepsInv, GlobKeepsInv, ListReturnKeepsInv, CrashKeepsInv
<1> QED BY <1>1, <1>2, <1>3, <1>4, <1>5 DEF Next

LEMMA Invariant == Spec => []Inv
BY InitInv, NextKeepsInv, PTL DEF Spec

\* Every reachable state is well typed, and a worker has a temporary file of its own
\* only within a save (mkstemp, os.replace and the clean-up of save); what a process
\* that died left on disk is nobody's.
THEOREM TypeCorrect == Spec => []TypeOK
BY Invariant, PTL DEF Inv

\* No file that a reader can open is ever half-written, whatever raises or dies.
THEOREM FilesWhole == Spec => []FilesAreWhole
BY Invariant, PTL DEF Inv
-----------------------------------------------------------------------------
(* The refinement: the rename, the unlink and the look at a file are the      *)
(* moments a call takes effect; every other step leaves files and answers.    *)

AbstractVars == << files, answer >>

LEMMA HoldStutters ==
    ASSUME NEW w, NEW c, Hold(w, c), UNCHANGED files
    PROVE  UNCHANGED AbstractVars
BY DEF Hold, AbstractVars

LEMMA ReturnEnds ==
    ASSUME NEW w \in Workers, NEW a \in {"listed", "raised", "crashed"},
           Return(w, a), UNCHANGED files
    PROVE  Abstract!Next
BY DEF Return, Abstract!Next, Abstract!End, Abstract!Answer

LEMMA StepRefines == Inv /\ [Next]_vars => [Abstract!Next]_AbstractVars
<1> SUFFICES ASSUME Inv, [Next]_vars PROVE [Abstract!Next]_AbstractVars
    OBVIOUS
<1>1. CASE UNCHANGED vars
    BY <1>1 DEF vars, AbstractVars
<1>2. ASSUME NEW w \in Workers, NEW k \in Keys, NEW v \in Values, MakeTemp(w, k, v)
      PROVE  UNCHANGED AbstractVars
    BY <1>2, HoldStutters DEF MakeTemp
<1>3. ASSUME NEW w \in Workers, WriteTemp(w)
      PROVE  UNCHANGED AbstractVars
    BY <1>3, HoldStutters DEF WriteTemp
<1>4. ASSUME NEW w \in Workers, Replace(w)
      PROVE  Abstract!Next
    <2>1. Abstract!Save(w, call[w].key, call[w].value)
        BY <1>4, ReplaceWrites DEF Replace, Return, Abstract!Save, Abstract!Answer
    <2> QED BY <1>4, <2>1, ReplaceWrites DEF Abstract!Next
<1>5. ASSUME NEW w \in Workers, SaveRaises(w) \/ ListReturn(w) \/ Crash(w)
      PROVE  Abstract!Next
    BY <1>5, ReturnEnds DEF SaveRaises, ListReturn, Crash
<1>6. ASSUME NEW w \in Workers, NEW k \in Keys, Exists(w, k)
      PROVE  [Abstract!Next]_AbstractVars
    <2>1. CASE files[k] = None
        <3>1. Abstract!Get(w, k)
            BY <1>6, <2>1 DEF Exists, Return, Abstract!Get, Abstract!Answer
        <3> QED BY <3>1 DEF Abstract!Next
    <2>2. CASE files[k] # None
        BY <1>6, <2>2, HoldStutters DEF Exists
    <2> QED BY <2>1, <2>2
<1>7. ASSUME NEW w \in Workers, Read(w)
      PROVE  Abstract!Next
    <2>1. call[w].key \in Keys
        BY <1>7 DEF Read, At, Inv, CallShape
    <2>2. CASE files[call[w].key] = None
        BY <1>7, <2>2, ReturnEnds DEF Read
    <2>3. CASE files[call[w].key] # None
        <3>1. Abstract!Get(w, call[w].key)
            BY <1>7, <2>3 DEF Read, Return, Abstract!Get, Abstract!Answer
        <3> QED BY <2>1, <3>1 DEF Abstract!Next
    <2> QED BY <2>2, <2>3
<1>8. ASSUME NEW w \in Workers, NEW k \in Keys, DeleteExists(w, k)
      PROVE  [Abstract!Next]_AbstractVars
    <2>1. CASE files[k] = None
        <3>1. files' = [files EXCEPT ![k] = None]
            BY <1>8, <2>1, FilesOK DEF DeleteExists
        <3>2. Abstract!Delete(w, k)
            BY <1>8, <2>1, <3>1 DEF DeleteExists, Return, Abstract!Delete, Abstract!Answer
        <3> QED BY <3>2 DEF Abstract!Next
    <2>2. CASE files[k] # None
        BY <1>8, <2>2, HoldStutters DEF DeleteExists
    <2> QED BY <2>1, <2>2
<1>9. ASSUME NEW w \in Workers, Unlink(w)
      PROVE  Abstract!Next
    <2>1. call[w].key \in Keys
        BY <1>9 DEF Unlink, At, Inv, CallShape
    <2>2. CASE files[call[w].key] = None
        <3>1. UNCHANGED files
            BY <1>9, <2>1, <2>2, FilesOK DEF Unlink
        <3> QED BY <1>9, <2>2, <3>1, ReturnEnds DEF Unlink
    <2>3. CASE files[call[w].key] # None
        <3>1. Abstract!Delete(w, call[w].key)
            BY <1>9, <2>3 DEF Unlink, Return, Abstract!Delete, Abstract!Answer
        <3> QED BY <2>1, <3>1 DEF Abstract!Next
    <2> QED BY <2>2, <2>3
<1>10. ASSUME NEW w \in Workers, Glob(w)
       PROVE  UNCHANGED AbstractVars
    BY <1>10, HoldStutters DEF Glob
<1>11. ASSUME NEW w \in Workers, NEW k \in Keys, ReadNext(w, k)
       PROVE  UNCHANGED AbstractVars
    BY <1>11, HoldStutters DEF ReadNext
<1> QED BY <1>1, <1>2, <1>3, <1>4, <1>5, <1>6, <1>7, <1>8, <1>9, <1>10, <1>11 DEF Next

\* The file stores are stores as the services take them: every call takes effect
\* at one moment, or raises and changes nothing.
THEOREM Refines == Spec => ImplementsAggregateStore
<1>1. Init => Abstract!Init
    BY DEF Init, Abstract!Init, Nothing
<1> QED BY <1>1, Invariant, StepRefines, PTL
        DEF Spec, ImplementsAggregateStore, Abstract!Spec, AbstractVars
-----------------------------------------------------------------------------
(* Listings. *)

SeenInv == SeenOK /\ ListShape

LEMMA InitSeen == Init => SeenInv
BY IdleIsACall DEF Init, SeenInv, SeenOK, ListShape

\* A step that leaves the files and the histories, and takes no call to a listing
\* it was not in, or closer to the end of the one it is in.
LEMMA QuietStep ==
    ASSUME SeenInv, UNCHANGED << files, seen >>, NEW w \in Workers,
           \A u \in Workers \ {w} : call'[u] = call[u],
           call'[w].pc # "list"
    PROVE  SeenInv'
BY DEF SeenInv, SeenOK, ListShape

\* A step that changes files takes the change into the histories of listings.
LEMMA SeenStep ==
    ASSUME SeenInv, seen' = Seen, NEW w \in Workers,
           \A u \in Workers \ {w} : call'[u] = call[u],
           call'[w].pc # "list",
           files' \in [Keys -> Values \cup {None}]
    PROVE  SeenInv'
<1>1. SeenOK'
    BY DEF SeenInv, SeenOK, Seen
<1>2. ASSUME NEW u \in Workers, call'[u].pc = "list", NEW k \in Keys
      PROVE  seen'[u][k] = seen[u][k] \cup {files'[k]} /\ call'[u] = call[u]
    BY <1>2 DEF Seen, At
<1>3. ListShape'
    BY <1>2 DEF SeenInv, ListShape
<1> QED BY <1>1, <1>3 DEF SeenInv

LEMMA GlobSeen ==
    ASSUME Inv, SeenInv, NEW w \in Workers, Glob(w)
    PROVE  SeenInv'
<1> DEFINE c == [Idle EXCEPT !.pc = "list", !.todo = {k \in Keys : files[k] # None}]
<1>1. /\ call'[w] = c
      /\ \A u \in Workers \ {w} : call'[u] = call[u] /\ seen'[u] = seen[u]
      /\ seen'[w] = [k \in Keys |-> {files[k]}]
      /\ files' = files
    BY DEF Glob, Hold, Inv, TypeOK, SeenInv, SeenOK
<1>2. c.todo = {k \in Keys : files[k] # None} /\ c.listed = Nothing
    BY DEF Idle
<1>3. SeenOK'
    BY <1>1, FilesOK DEF Glob, SeenInv, SeenOK
<1>4. ASSUME NEW k \in Keys
      PROVE  /\ files'[k] \in seen'[w][k]
             /\ k \notin call'[w].todo => call'[w].listed[k] \in seen'[w][k]
    BY <1>1, <1>2 DEF Nothing
<1>5. ListShape'
    BY <1>1, <1>4 DEF SeenInv, ListShape
<1> QED BY <1>3, <1>5 DEF SeenInv

LEMMA ReadNextSeen ==
    ASSUME Inv, SeenInv, NEW w \in Workers, NEW k \in Keys, ReadNext(w, k)
    PROVE  SeenInv'
<1> DEFINE c == [call[w] EXCEPT !.todo = @ \ {k}, !.listed[k] = files[k]]
<1>1. /\ call'[w] = c
      /\ call[w] \in Calls
      /\ call[w].pc = "list"
      /\ \A u \in Workers \ {w} : call'[u] = call[u]
      /\ UNCHANGED << files, seen >>
    BY DEF ReadNext, Hold, At, Inv, TypeOK
<1>2. c.todo = call[w].todo \ {k} /\ c.listed = [call[w].listed EXCEPT ![k] = files[k]]
    BY <1>1 DEF Calls
<1>3. ASSUME NEW j \in Keys, j \notin call'[w].todo
      PROVE  call'[w].listed[j] \in seen'[w][j]
    <2>1. CASE j = k
        BY <1>1, <1>2, <2>1 DEF Calls, SeenInv, ListShape
    <2>2. CASE j # k
        BY <1>1, <1>2, <1>3, <2>2 DEF Calls, SeenInv, ListShape
    <2> QED BY <2>1, <2>2
<1>4. ListShape'
    BY <1>1, <1>3 DEF SeenInv, ListShape
<1> QED BY <1>1, <1>4 DEF SeenInv, SeenOK

LEMMA NextKeepsSeen == Inv /\ SeenInv /\ [Next]_vars => SeenInv'
<1> SUFFICES ASSUME Inv, SeenInv, [Next]_vars PROVE SeenInv'
    OBVIOUS
<1> USE DEF Inv, TypeOK
<1>1. CASE UNCHANGED vars
    BY <1>1 DEF vars, SeenInv, SeenOK, ListShape
<1>2. ASSUME NEW w \in Workers, NEW k \in Keys, NEW v \in Values, MakeTemp(w, k, v)
      PROVE  SeenInv'
    BY <1>2, QuietStep DEF MakeTemp, Hold, Idle
<1>3. ASSUME NEW w \in Workers, WriteTemp(w)
      PROVE  SeenInv'
    BY <1>3, QuietStep DEF WriteTemp, Hold, Calls
<1>4. ASSUME NEW w \in Workers, Replace(w)
      PROVE  SeenInv'
    <2>1. files' \in [Keys -> Values \cup {None}]
        BY <1>4, ReplaceWrites, FilesOK
    <2> QED BY <1>4, <2>1, IdleIsACall, SeenStep DEF Replace, Return
<1>5. ASSUME NEW w \in Workers,
             SaveRaises(w) \/ Read(w) \/ ListReturn(w) \/ Crash(w)
      PROVE  SeenInv'
    <2>1. call'[w] = Idle /\ (\A u \in Workers \ {w} : call'[u] = call[u])
          /\ UNCHANGED << files, seen >>
        BY <1>5 DEF SaveRaises, Read, ListReturn, Crash, Return
    <2> QED BY <2>1, IdleIsACall, QuietStep
<1>6. ASSUME NEW w \in Workers, NEW k \in Keys, Exists(w, k) \/ DeleteExists(w, k)
      PROVE  SeenInv'
    <2>1. \/ call' = [call EXCEPT ![w] = Idle]
          \/ \E pc \in {"read", "unlink"} :
                call' = [call EXCEPT ![w] = [Idle EXCEPT !.pc = pc, !.key = k]]
        BY <1>6 DEF Exists, DeleteExists, Return, Hold
    <2>2. /\ call'[w].pc # "list"
          /\ \A u \in Workers \ {w} : call'[u] = call[u]
        <3>1. CASE call' = [call EXCEPT ![w] = Idle]
            BY <3>1, IdleIsACall
        <3>2. ASSUME NEW pc \in {"read", "unlink"},
                     call' = [call EXCEPT ![w] = [Idle EXCEPT !.pc = pc, !.key = k]]
              PROVE  call'[w].pc = pc /\ \A u \in Workers \ {w} : call'[u] = call[u]
            BY <3>2 DEF Idle
        <3> QED BY <2>1, <3>1, <3>2
    <2>3. UNCHANGED << files, seen >>
        BY <1>6 DEF Exists, DeleteExists
    <2> QED BY <2>2, <2>3, QuietStep
<1>7. ASSUME NEW w \in Workers, Unlink(w)
      PROVE  SeenInv'
    <2>1. files' \in [Keys -> Values \cup {None}]
        BY <1>7, FilesOK DEF Unlink
    <2> QED BY <1>7, <2>1, IdleIsACall, SeenStep DEF Unlink, Return
<1>8. ASSUME NEW w \in Workers, Glob(w)
      PROVE  SeenInv'
    BY <1>8, GlobSeen
<1>9. ASSUME NEW w \in Workers, NEW k \in Keys, ReadNext(w, k)
      PROVE  SeenInv'
    BY <1>9, ReadNextSeen
<1> QED BY <1>1, <1>2, <1>3, <1>4, <1>5, <1>6, <1>7, <1>8, <1>9 DEF Next

\* A step of a worker changes no call but its own.
LEMMA ReplacesOneCall ==
    ASSUME NEW u \in Workers,
           \/ \E j \in Keys :
                \/ \E v \in Values : MakeTemp(u, j, v)
                \/ Exists(u, j) \/ DeleteExists(u, j) \/ ReadNext(u, j)
           \/ WriteTemp(u) \/ Replace(u) \/ SaveRaises(u)
           \/ Read(u) \/ Unlink(u) \/ Glob(u) \/ ListReturn(u) \/ Crash(u)
    PROVE  \E c : call' = [call EXCEPT ![u] = c]
<1>1. (\E c : Hold(u, c)) \/ (\E a : Return(u, a))
    BY DEF MakeTemp, WriteTemp, Replace, SaveRaises, Exists, Read, DeleteExists,
           Unlink, Glob, ReadNext, ListReturn, Crash
<1> QED BY <1>1 DEF Hold, Return

\* What a listing returns for a key is what its file held at some moment of it.
THEOREM ListsArePlausible == Spec => ListIsPlausible
<1> DEFINE Plausible ==
        \A w \in Workers :
            (At(w, "list") /\ answer'[w] = "listed" /\ At(w, "idle")') =>
                \A k \in Keys : call[w].listed[k] \in seen[w][k]
<1>1. Spec => []SeenInv
    BY InitSeen, Invariant, NextKeepsSeen, PTL DEF Spec
<1>2. Inv /\ SeenInv /\ [Next]_vars => [Plausible]_vars
    <2> SUFFICES ASSUME Inv, SeenInv, Next, NEW w \in Workers,
                        At(w, "list"), answer'[w] = "listed", At(w, "idle")',
                        NEW k \in Keys
                 PROVE  call[w].listed[k] \in seen[w][k]
        BY DEF Plausible
    <2>1. call'[w] # call[w] /\ call[w].pc = "list" /\ call'[w].pc = "idle"
        BY DEF At
    <2>2. PICK u \in Workers :
            \/ \E j \in Keys :
                 \/ \E v \in Values : MakeTemp(u, j, v)
                 \/ Exists(u, j) \/ DeleteExists(u, j) \/ ReadNext(u, j)
            \/ WriteTemp(u) \/ Replace(u) \/ SaveRaises(u)
            \/ Read(u) \/ Unlink(u) \/ Glob(u) \/ ListReturn(u) \/ Crash(u)
        BY DEF Next
    <2>3. u = w
        <3>1. \E c : call' = [call EXCEPT ![u] = c]
            BY <2>2, ReplacesOneCall
        <3> QED BY <2>1, <3>1
    <2>4. (\E j \in Keys : ReadNext(w, j)) \/ ListReturn(w) \/ Crash(w)
        BY <2>1, <2>2, <2>3 DEF MakeTemp, WriteTemp, Replace, SaveRaises, Exists,
              Read, DeleteExists, Unlink, Glob, At
    <2>5. ASSUME NEW j \in Keys, ReadNext(w, j)
          PROVE  FALSE
        BY <2>1, <2>5 DEF ReadNext, Hold, Inv, TypeOK, Calls
    <2>6. ~Crash(w)
        BY DEF Crash, Return, Inv, TypeOK
    <2>7. call[w].todo = {}
        BY <2>4, <2>5, <2>6 DEF ListReturn
    <2> QED BY <2>1, <2>7 DEF SeenInv, ListShape
<1> QED BY <1>1, <1>2, Invariant, PTL DEF Spec, ListIsPlausible, Plausible
=============================================================================
