---------------------------- MODULE TenantsProofs ----------------------------
(***************************************************************************)
(* Theorems of Tenants, for any number of names, threads, processes and    *)
(* bases, each in the weakest setting that it holds in:                    *)
(*   any setting        the types;                                         *)
(*   ExclusiveDeletes   Inv, what a request has read is still so and an id *)
(*                      without a row has no tables;                       *)
(*   SerialSettings     Merges, no update is lost;                         *)
(*   ExclusiveDeletes and CachesAgree                                      *)
(*                      Agreed, caches and Store objects are current.      *)
(***************************************************************************)
EXTENDS Tenants, TLAPS

\* What the stage of a request says of its arguments, and a Store object's.
Shaped ==
    \A t \in Threads :
        /\ req[t].pc # "idle" => req[t].name \in Names
        /\ req[t].pc \notin {"idle", "max", "merge"} => req[t].tid \in Ids
        /\ store[t] # NoStore => store[t].name \in Names /\ store[t].tid \in Ids

TypeInv == TypeOK /\ Shaped
-----------------------------------------------------------------------------
LEMMA ConstantFacts ==
    /\ 1 \in 1..Len(Bases) /\ Len(Bases) \in Nat
    /\ \A i \in 1..Len(Bases) : Bases[i] \in Kinds
    /\ None \notin Names /\ None \notin Ids
    /\ NoStore \in Stores /\ Idle \in Requests /\ Idle.pc = "idle"
    /\ \A t \in Threads : ProcOf[t] \in Procs
  BY TenantsAssumption DEF Kinds, NoStore, Stores, Idle, Requests, Stages

\* One request is replaced; the others stay.
LEMMA RequestFacts ==
    ASSUME TypeOK, NEW t \in Threads, NEW r \in Requests, req' = [req EXCEPT ![t] = r]
    PROVE  /\ req' \in [Threads -> Requests] /\ req'[t] = r
           /\ \A u \in Threads \ {t} : req'[u] = req[u]
  BY DEF TypeOK

LEMMA GotoFacts ==
    ASSUME TypeOK, NEW t \in Threads, NEW pc \in Stages, NEW n \in Names \cup {None},
           NEW tid \in Ids \cup {None}, Goto(t, pc, n, tid)
    PROVE  /\ req' \in [Threads -> Requests]
           /\ req'[t].pc = pc /\ req'[t].name = n /\ req'[t].tid = tid
           /\ req'[t].base = 1 /\ req'[t].keys = {}
           /\ \A u \in Threads \ {t} : req'[u] = req[u]
  <1> DEFINE r == [Idle EXCEPT !.pc = pc, !.name = n, !.tid = tid]
  <1>1. /\ r \in Requests /\ r.pc = pc /\ r.name = n /\ r.tid = tid
        /\ r.base = 1 /\ r.keys = {}
    BY ConstantFacts DEF Requests, Idle
  <1>2. req' = [req EXCEPT ![t] = r]
    BY DEF Goto
  <1> HIDE DEF r
  <1> QED BY <1>1, <1>2, RequestFacts

LEMMA ReturnFacts ==
    ASSUME TypeOK, NEW t \in Threads, Return(t)
    PROVE  /\ req' \in [Threads -> Requests] /\ req'[t] = Idle /\ req'[t].pc = "idle"
           /\ \A u \in Threads \ {t} : req'[u] = req[u]
  BY ConstantFacts, RequestFacts DEF Return

\* The loops over the bases: the next one, or the next stage.
LEMMA NextBaseFacts ==
    ASSUME TypeOK, NEW t \in Threads, req[t].base < Len(Bases),
           req' = [req EXCEPT ![t].base = @ + 1]
    PROVE  /\ req' \in [Threads -> Requests]
           /\ req'[t].pc = req[t].pc /\ req'[t].name = req[t].name
           /\ req'[t].tid = req[t].tid /\ req'[t].base = req[t].base + 1
           /\ \A u \in Threads \ {t} : req'[u] = req[u]
  <1> DEFINE r == [req[t] EXCEPT !.base = @ + 1]
  <1>1. req[t] \in Requests
    BY DEF TypeOK
  <1>2. /\ r \in Requests /\ r.pc = req[t].pc /\ r.name = req[t].name
        /\ r.tid = req[t].tid /\ r.base = req[t].base + 1
    BY <1>1, ConstantFacts DEF Requests
  <1>3. req' = [req EXCEPT ![t] = r]
    BY DEF TypeOK
  <1> HIDE DEF r
  <1> QED BY <1>2, <1>3, RequestFacts

\* The tables of one id are replaced; the others stay.
LEMMA TablesFacts ==
    ASSUME TypeOK, NEW i \in Ids, NEW tabs \in [Kinds -> (SUBSET Names) \cup {None}],
           tables' = [tables EXCEPT ![i] = tabs]
    PROVE  /\ tables' \in [Ids -> [Kinds -> (SUBSET Names) \cup {None}]]
           /\ tables'[i] = tabs /\ \A j \in Ids \ {i} : tables'[j] = tables[j]
  BY DEF TypeOK

LEMMA CreatedFacts ==
    ASSUME NEW tabs \in [Kinds -> (SUBSET Names) \cup {None}]
    PROVE  /\ Created(tabs) \in [Kinds -> (SUBSET Names) \cup {None}]
           /\ \A b \in Kinds : /\ Created(tabs)[b] # None
                               /\ tabs[b] = None => Created(tabs)[b] = {}
                               /\ tabs[b] # None => Created(tabs)[b] = tabs[b]
  BY TenantsAssumption DEF Created

LEMMA TableFacts ==
    ASSUME TypeOK, NEW i \in Ids, NEW b \in Kinds, NEW rows \in (SUBSET Names) \cup {None},
           tables' = [tables EXCEPT ![i][b] = rows]
    PROVE  /\ tables' \in [Ids -> [Kinds -> (SUBSET Names) \cup {None}]]
           /\ tables'[i][b] = rows
           /\ \A c \in Kinds \ {b} : tables'[i][c] = tables[i][c]
           /\ \A j \in Ids \ {i} : tables'[j] = tables[j]
  <1> DEFINE tabs == [tables[i] EXCEPT ![b] = rows]
  <1>1. tabs \in [Kinds -> (SUBSET Names) \cup {None}] /\ tabs[b] = rows
        /\ \A c \in Kinds \ {b} : tabs[c] = tables[i][c]
    BY DEF TypeOK
  <1>2. tables' = [tables EXCEPT ![i] = tabs]
    BY DEF TypeOK
  <1> HIDE DEF tabs
  <1> QED BY <1>1, <1>2, TablesFacts

LEMMA CacheFacts ==
    ASSUME TypeOK, NEW t \in Threads, NEW n \in Names, NEW tid \in Ids \cup {None},
           SetCache(t, n, tid)
    PROVE  /\ cache' \in [Procs -> [Names -> Ids \cup {None}]]
           /\ cache'[ProcOf[t]][n] = tid
           /\ \A q \in Procs, m \in Names :
                q # ProcOf[t] \/ m # n => cache'[q][m] = cache[q][m]
  BY ConstantFacts DEF SetCache, TypeOK
-----------------------------------------------------------------------------
\* A request that is neither idle nor without an id.
LEMMA AtFacts ==
    ASSUME TypeInv, NEW t \in Threads
    PROVE  /\ req[t] \in Requests /\ req[t].base \in 1..Len(Bases) /\ req[t].keys \subseteq Keys
           /\ req[t].tid \in Ids \cup {None}
           /\ req[t].pc # "idle" => req[t].name \in Names
           /\ req[t].pc \notin {"idle", "max", "merge"} => req[t].tid \in Ids
           /\ Bases[req[t].base] \in Kinds
  <1>1. req[t] \in Requests
    BY DEF TypeInv, TypeOK
  <1>2. req[t].base \in 1..Len(Bases) /\ req[t].keys \subseteq Keys
        /\ req[t].tid \in Ids \cup {None}
    BY <1>1 DEF Requests
  <1> QED BY <1>1, <1>2, ConstantFacts DEF TypeInv, Shaped

\* A request moves on and no Store object changes: its shape is all there is to see.
LEMMA ShapeStep ==
    ASSUME Shaped, NEW t \in Threads, UNCHANGED store,
           \A u \in Threads \ {t} : req'[u] = req[u],
           req'[t].pc # "idle" => req'[t].name \in Names,
           req'[t].pc \notin {"idle", "max", "merge"} => req'[t].tid \in Ids
    PROVE  Shaped'
  BY DEF Shaped

\* The steps that read: only the request moves on.
LEMMA ReadType ==
    ASSUME TypeInv, NEW t \in Threads,
           CheckTaken(t) \/ SelectMax(t) \/ Abort(t) \/ \E n \in Names : Delete(t, n)
    PROVE  TypeInv'
  <1>1. UNCHANGED << backend, reg, attrs, tables, torn, cache, store >>
    BY DEF CheckTaken, SelectMax, Abort, Delete
  <1>2. CASE Return(t)
    BY <1>1, <1>2, ReturnFacts DEF TypeInv, TypeOK, Shaped
  <1>3. ASSUME NEW pc \in Stages, NEW n \in Names, NEW tid \in Ids, Goto(t, pc, n, tid)
        PROVE  TypeInv'
    BY <1>1, <1>3, GotoFacts DEF TypeInv, TypeOK, Shaped
  <1>4. CASE CheckTaken(t)
    BY <1>2, <1>3, <1>4, AtFacts DEF CheckTaken, At, Stages
  <1>5. CASE SelectMax(t)
    BY <1>3, <1>5, AtFacts DEF SelectMax, At, Stages
  <1>6. CASE Abort(t)
    BY <1>2, <1>6 DEF Abort
  <1>7. ASSUME NEW n \in Names, Delete(t, n) PROVE TypeInv'
    <2>1. reg[n] \in Ids /\ Goto(t, "drop", n, reg[n])
      BY <1>7 DEF TypeInv, TypeOK, Delete
    <2> QED BY <1>3, <2>1 DEF Stages
  <1> QED BY <1>4, <1>5, <1>6, <1>7

LEMMA BuildType ==
    ASSUME TypeInv, NEW t \in Threads, NEW n \in Names, NEW i \in Ids \cup {None}, Build(t, n, i)
    PROVE  TypeInv'
  <1>1. UNCHANGED << backend, reg, attrs, tables, torn, cache >>
    BY DEF Build
  <1>2. CASE Cache(t)[n] # None
    <2>1. Cache(t)[n] \in Ids
      BY <1>2, ConstantFacts DEF Cache, TypeInv, TypeOK
    <2>2. UNCHANGED req /\ store' = [store EXCEPT ![t] = [name |-> n, tid |-> Cache(t)[n]]]
      BY <1>2 DEF Build
    <2>3. [name |-> n, tid |-> Cache(t)[n]] \in Stores
      BY <2>1 DEF Stores
    <2> QED BY <1>1, <2>1, <2>2, <2>3 DEF TypeInv, TypeOK, Shaped
  <1>3. CASE Cache(t)[n] = None
    <2>1. UNCHANGED store
      BY <1>3 DEF Build
    <2>2. reg[n] \in Ids \cup {None}
      BY DEF TypeInv, TypeOK
    <2>3. CASE Goto(t, "max", n, None)
      <3>1. /\ req' \in [Threads -> Requests] /\ req'[t].pc = "max" /\ req'[t].name = n
            /\ \A u \in Threads \ {t} : req'[u] = req[u]
        BY <2>3, GotoFacts DEF TypeInv, Stages
      <3> QED BY <1>1, <2>1, <3>1, ShapeStep DEF TypeInv, TypeOK
    <2>4. ASSUME NEW pc \in Stages, NEW tid \in Ids, Goto(t, pc, n, tid) PROVE TypeInv'
      <3>1. /\ req' \in [Threads -> Requests] /\ req'[t].name = n /\ req'[t].tid = tid
            /\ \A u \in Threads \ {t} : req'[u] = req[u]
        BY <2>4, GotoFacts DEF TypeInv
      <3> QED BY <1>1, <2>1, <3>1, ShapeStep DEF TypeInv, TypeOK
    <2> QED BY <1>3, <2>2, <2>3, <2>4 DEF Build, Stages
  <1> QED BY <1>2, <1>3

LEMMA InsertType ==
    ASSUME TypeInv, NEW t \in Threads, Insert(t)
    PROVE  TypeInv'
  <1> DEFINE n == req[t].name
             tid == req[t].tid
  <1>1. At(t, "insert") /\ n \in Names /\ tid \in Ids /\ UNCHANGED << backend, attrs, torn, cache, store >>
    BY AtFacts DEF Insert, At
  <1>2. CASE reg[n] # None \/ tid \in UsedIds
    <2>1. Return(t) /\ UNCHANGED << reg, tables >>
      BY <1>2 DEF Insert
    <2> QED BY <1>1, <2>1, ReturnFacts DEF TypeInv, TypeOK, Shaped
  <1>3. CASE ~(reg[n] # None \/ tid \in UsedIds)
    <2>1. /\ reg' = [reg EXCEPT ![n] = tid] /\ Goto(t, "fill", n, tid)
          /\ tables' = [tables EXCEPT ![tid] = Created(tables[tid])]
      BY <1>1, <1>3 DEF Insert, TypeInv, TypeOK
    <2>2. reg' \in [Names -> Ids \cup {None}]
      BY <1>1, <2>1 DEF TypeInv, TypeOK
    <2>3. tables' \in [Ids -> [Kinds -> (SUBSET Names) \cup {None}]]
      BY <1>1, <2>1, CreatedFacts, TablesFacts DEF TypeInv, TypeOK
    <2>4. /\ req' \in [Threads -> Requests] /\ req'[t].name = n /\ req'[t].tid = tid
          /\ \A u \in Threads \ {t} : req'[u] = req[u]
      BY <1>1, <2>1, GotoFacts DEF TypeInv, Stages
    <2> QED BY <1>1, <2>2, <2>3, <2>4, ShapeStep DEF TypeInv, TypeOK
  <1> QED BY <1>2, <1>3

LEMMA EnsureType ==
    ASSUME TypeInv, NEW t \in Threads, EnsureTables(t) \/ EnsureTable(t)
    PROVE  TypeInv'
  <1> DEFINE tid == req[t].tid
  <1>1. /\ At(t, "ensure") /\ tid \in Ids /\ req[t].name \in Names /\ Bases[req[t].base] \in Kinds
        /\ UNCHANGED << backend, reg, attrs, cache, store >> /\ torn' \in SUBSET Names
    BY AtFacts DEF EnsureTables, EnsureTable, At, TypeInv, TypeOK
  <1>2. tables' \in [Ids -> [Kinds -> (SUBSET Names) \cup {None}]]
    <2>1. CASE EnsureTables(t)
      BY <1>1, <2>1, CreatedFacts, TablesFacts DEF EnsureTables, TypeInv, TypeOK
    <2>2. CASE EnsureTable(t)
      <3> DEFINE b == Bases[req[t].base]
      <3>1. tables[tid] \in [Kinds -> (SUBSET Names) \cup {None}]
        BY <1>1 DEF TypeInv, TypeOK
      <3>2. tables' = [tables EXCEPT ![tid][b] = IF tables[tid][b] = None THEN {} ELSE tables[tid][b]]
        BY <1>1, <2>2 DEF EnsureTable, TypeInv, TypeOK
      <3>3. (IF tables[tid][b] = None THEN {} ELSE tables[tid][b]) \in (SUBSET Names) \cup {None}
        BY <1>1, <3>1
      <3> HIDE DEF b, tid
      <3> QED BY <1>1, <3>2, <3>3, TableFacts DEF TypeInv, b
    <2> QED BY <2>1, <2>2
  <1>3. CASE Goto(t, "fill", req[t].name, tid)
    <2>1. /\ req' \in [Threads -> Requests] /\ req'[t].name = req[t].name /\ req'[t].tid = tid
          /\ \A u \in Threads \ {t} : req'[u] = req[u]
      BY <1>1, <1>3, GotoFacts DEF TypeInv, Stages
    <2> QED BY <1>1, <1>2, <2>1, ShapeStep DEF TypeInv, TypeOK
  <1>4. CASE req[t].base < Len(Bases) /\ req' = [req EXCEPT ![t].base = @ + 1]
    BY <1>1, <1>2, <1>4, NextBaseFacts DEF TypeInv, TypeOK, Shaped, At
  <1> QED BY <1>3, <1>4 DEF EnsureTables, EnsureTable

LEMMA FillType ==
    ASSUME TypeInv, NEW t \in Threads, Fill(t)
    PROVE  TypeInv'
  <1> DEFINE s == [name |-> req[t].name, tid |-> req[t].tid]
  <1>1. req[t].name \in Names /\ req[t].tid \in Ids /\ s \in Stores
    BY AtFacts DEF Fill, At, Stores
  <1>2. /\ SetCache(t, req[t].name, req[t].tid) /\ Return(t)
        /\ store' = [store EXCEPT ![t] = s]
        /\ UNCHANGED << backend, reg, attrs, tables, torn >>
    BY DEF Fill
  <1>3. cache' \in [Procs -> [Names -> Ids \cup {None}]]
    BY <1>1, <1>2, CacheFacts DEF TypeInv
  <1> QED BY <1>1, <1>2, <1>3, ReturnFacts DEF TypeInv, TypeOK, Shaped

LEMMA StoreType ==
    ASSUME TypeInv, NEW t \in Threads, EndRequest(t) \/ \E b \in Kinds : Write(t, b)
    PROVE  TypeInv'
  <1>1. ASSUME NEW b \in Kinds, Write(t, b) PROVE TypeInv'
    <2>1. /\ store[t].tid \in Ids /\ store[t].name \in Names
          /\ tables[store[t].tid][b] \in SUBSET Names
      BY <1>1 DEF Write, TypeInv, TypeOK, Shaped
    <2>2. tables' \in [Ids -> [Kinds -> (SUBSET Names) \cup {None}]]
      BY <1>1, <2>1, TableFacts DEF Write, TypeInv, TypeOK
    <2> QED BY <1>1, <2>2 DEF Write, TypeInv, TypeOK, Shaped
  <1>2. CASE EndRequest(t)
    BY <1>2, ConstantFacts DEF EndRequest, TypeInv, TypeOK, Shaped
  <1> QED BY <1>1, <1>2

LEMMA DropType ==
    ASSUME TypeInv, NEW t \in Threads, DropTenant(t) \/ DropTable(t) \/ DeleteRow(t)
    PROVE  TypeInv'
  <1>1. /\ req[t].tid \in Ids /\ req[t].name \in Names /\ Bases[req[t].base] \in Kinds
        /\ req[t].pc \in {"drop", "delete"} /\ UNCHANGED << backend, cache, store >>
        /\ torn' \in SUBSET Names
    BY AtFacts DEF DropTenant, DropTable, DeleteRow, At, TypeInv, TypeOK
  <1>2. tables' \in [Ids -> [Kinds -> (SUBSET Names) \cup {None}]]
    <2>1. CASE DropTenant(t)
      BY <1>1, <2>1, TablesFacts DEF DropTenant, NoTables, TypeInv, TypeOK
    <2>2. CASE DropTable(t)
      BY <1>1, <2>2, TableFacts DEF DropTable, TypeInv, TypeOK
    <2>3. CASE DeleteRow(t)
      BY <2>3 DEF DeleteRow, TypeInv, TypeOK
    <2> QED BY <2>1, <2>2, <2>3
  <1>3. reg' \in [Names -> Ids \cup {None}] /\ attrs' \in [Names -> SUBSET (Columns \cup Keys)]
    BY DEF DropTenant, DropTable, DeleteRow, TypeInv, TypeOK
  <1>4. CASE Goto(t, "pop", req[t].name, req[t].tid) \/ Goto(t, "delete", req[t].name, req[t].tid)
    <2>1. /\ req' \in [Threads -> Requests]
          /\ req'[t].name = req[t].name /\ req'[t].tid = req[t].tid
          /\ \A u \in Threads \ {t} : req'[u] = req[u]
      BY <1>1, <1>4, GotoFacts DEF TypeInv, Stages
    <2> QED BY <1>1, <1>2, <1>3, <2>1, ShapeStep DEF TypeInv, TypeOK
  <1>5. CASE req[t].base < Len(Bases) /\ req' = [req EXCEPT ![t].base = @ + 1]
    BY <1>1, <1>2, <1>3, <1>5, NextBaseFacts DEF TypeInv, TypeOK, Shaped
  <1> QED BY <1>4, <1>5 DEF DropTenant, DropTable, DeleteRow

LEMMA PopType ==
    ASSUME TypeInv, NEW t \in Threads, Pop(t)
    PROVE  TypeInv'
  <1>1. req[t].name \in Names
    BY AtFacts DEF Pop, At
  <1>2. cache' \in [Procs -> [Names -> Ids \cup {None}]]
    BY <1>1, CacheFacts DEF Pop, TypeInv
  <1> QED BY <1>2, ReturnFacts DEF Pop, TypeInv, TypeOK, Shaped

LEMMA SettingsType ==
    ASSUME TypeInv, NEW t \in Threads,
           \/ SaveSettings(t)
           \/ \E n \in Names : \/ \E c \in Columns : UpdateTenant(t, n, c)
                              \/ \E k \in Keys : MergeSettings(t, n, k)
    PROVE  TypeInv'
  <1>1. ASSUME NEW n \in Names, NEW c \in Columns, UpdateTenant(t, n, c) PROVE TypeInv'
    BY <1>1 DEF UpdateTenant, TypeInv, TypeOK, Shaped
  <1>2. ASSUME NEW n \in Names, NEW k \in Keys, MergeSettings(t, n, k) PROVE TypeInv'
    <2> DEFINE r == [Idle EXCEPT !.pc = "merge", !.name = n, !.keys = (attrs[n] \cap Keys) \cup {k}]
    <2>1. r \in Requests /\ r.pc = "merge" /\ r.name = n
      BY ConstantFacts DEF Requests, Idle, Stages
    <2>2. req' = [req EXCEPT ![t] = r] /\ UNCHANGED << backend, reg, attrs, tables, torn, cache, store >>
      BY <1>2 DEF MergeSettings
    <2> HIDE DEF r
    <2> QED BY <2>1, <2>2, RequestFacts DEF TypeInv, TypeOK, Shaped
  <1>3. CASE SaveSettings(t)
    <2>1. req[t].name \in Names /\ req[t].keys \subseteq Keys
      BY <1>3, AtFacts DEF SaveSettings, At
    <2>2. attrs' \in [Names -> SUBSET (Columns \cup Keys)]
      BY <1>3, <2>1 DEF SaveSettings, TypeInv, TypeOK
    <2> QED BY <1>3, <2>2, ReturnFacts DEF SaveSettings, TypeInv, TypeOK, Shaped
  <1> QED BY <1>1, <1>2, <1>3

LEMMA CrashType ==
    ASSUME TypeInv, NEW q \in Procs, Crash(q)
    PROVE  TypeInv'
  <1>1. cache' \in [Procs -> [Names -> Ids \cup {None}]]
    BY DEF Crash, TypeInv, TypeOK
  <1>2. /\ store' \in [Threads -> Stores] /\ req' \in [Threads -> Requests]
        /\ \A t \in Threads : /\ store'[t] \in {NoStore, store[t]}
                              /\ req'[t] \in {Idle, req[t]}
    BY ConstantFacts DEF Crash, TypeInv, TypeOK
  <1>3. Shaped'
    BY <1>2, ConstantFacts DEF TypeInv, Shaped
  <1> QED BY <1>1, <1>2, <1>3 DEF Crash, TypeInv, TypeOK

LEMMA TypeInvInit == Init => TypeInv
  BY ConstantFacts DEF Init, NoTables, TypeInv, TypeOK, Shaped

LEMMA TypeInvNext == TypeInv /\ [Next]_vars => TypeInv'
  <1> SUFFICES ASSUME TypeInv, [Next]_vars PROVE TypeInv'
    OBVIOUS
  <1>1. CASE UNCHANGED vars
    BY <1>1 DEF vars, TypeInv, TypeOK, Shaped
  <1> QED BY <1>1, ReadType, BuildType, InsertType, EnsureType, FillType, StoreType, DropType,
             PopType, SettingsType, CrashType DEF Next

\* Every reachable state of the tenant registry is well typed, in any setting.
THEOREM TypeCorrect == Spec => []TypeOK
  <1>1. TypeInv => TypeOK
    BY DEF TypeInv
  <1> QED BY <1>1, TypeInvInit, TypeInvNext, PTL DEF Spec
-----------------------------------------------------------------------------
\* Where deletes are exclusive a delete runs alone: every other thread is idle
\* and holds no Store object.
Exclusion ==
    \A t \in Threads : Deleting(t) =>
        /\ t \in Deleters /\ store[t] = NoStore
        /\ \A u \in Threads \ {t} : At(u, "idle") /\ store[u] = NoStore

\* What a request has read of the registry is still so.
PlacedAt(t) ==
    LET r == req[t] IN
    /\ r.pc \in {"ensure", "fill", "drop", "delete"} => reg[r.name] = r.tid
    /\ r.pc = "ensure" => \A i \in 1..Len(Bases) : i < r.base => tables[r.tid][Bases[i]] # None
    /\ r.pc = "pop" => reg[r.name] = None
    /\ r.pc = "drop" => \A i \in 1..Len(Bases) : i < r.base => tables[r.tid][Bases[i]] = None
    /\ r.pc = "delete" => tables[r.tid] = NoTables

Placed == \A t \in Threads : PlacedAt(t)

\* Ids are unique, settings belong to a row, and the tables of a row are there
\* unless SQLite has dropped one and not made it again.
RowsAreWhole ==
    /\ \A m, n \in Names : (reg[m] # None /\ reg[m] = reg[n]) => m = n
    /\ \A n \in Names : reg[n] = None => attrs[n] = {}
    /\ \A n \in Names, b \in Kinds :
         reg[n] # None => \/ backend = "sqlite" /\ n \in torn
                          \/ tables[reg[n]][b] # None

Inv == Exclusion /\ Placed /\ RowsAreWhole /\ NoOrphanTables
-----------------------------------------------------------------------------
\* The steps that move one request on and change nothing else.
LEMMA RequestStep ==
    ASSUME TypeInv, Inv, NEW t \in Threads,
           UNCHANGED << backend, reg, attrs, tables, torn, store >>,
           \A u \in Threads \ {t} : req'[u] = req[u],
           PlacedAt(t)',
           Deleting(t)' => /\ t \in Deleters /\ store[t] = NoStore
                           /\ \A u \in Threads \ {t} : At(u, "idle") /\ store[u] = NoStore,
           req'[t].pc = "idle" \/ \A u \in Threads \ {t} : ~Deleting(u)
    PROVE  Inv'
  <1>1. Exclusion'
    BY DEF Inv, Exclusion, Deleting, At
  <1>2. Placed'
    BY DEF Inv, Placed, PlacedAt
  <1>3. RowsAreWhole' /\ NoOrphanTables'
    BY DEF Inv, RowsAreWhole, NoOrphanTables, UsedIds
  <1> QED BY <1>1, <1>2, <1>3 DEF Inv

\* A request that is not a delete runs beside none.
LEMMA NoDelete ==
    ASSUME ExclusiveDeletes, Inv, NEW t \in Threads, ~Deleting(t),
           MayBegin(t) \/ req[t].pc # "idle"
    PROVE  \A u \in Threads : ~Deleting(u)
  BY DEF MayBegin, Inv, Exclusion, At

\* Requests that end, and those that go on to a stage that relies on no row.
LEMMA FreeStep ==
    ASSUME ExclusiveDeletes, TypeInv, Inv, NEW t \in Threads,
           UNCHANGED << backend, reg, attrs, tables, torn, store >>,
           \/ Return(t)
           \/ /\ ~Deleting(t) /\ (MayBegin(t) \/ req[t].pc # "idle")
              /\ \E pc \in {"taken", "max", "insert"}, n \in Names, tid \in Ids \cup {None} :
                    Goto(t, pc, n, tid)
    PROVE  Inv'
  <1>1. CASE Return(t)
    <2>1. req'[t].pc = "idle" /\ \A u \in Threads \ {t} : req'[u] = req[u]
      BY <1>1, ReturnFacts DEF TypeInv
    <2> QED BY <2>1, RequestStep DEF PlacedAt, Deleting
  <1>2. ASSUME NEW pc \in {"taken", "max", "insert"}, NEW n \in Names,
               NEW tid \in Ids \cup {None}, Goto(t, pc, n, tid),
               ~Deleting(t), MayBegin(t) \/ req[t].pc # "idle"
        PROVE  Inv'
    <2>1. req'[t].pc = pc /\ \A u \in Threads \ {t} : req'[u] = req[u]
      BY <1>2, GotoFacts DEF TypeInv, Stages
    <2> QED BY <1>2, <2>1, NoDelete, RequestStep DEF PlacedAt, Deleting
  <1> QED BY <1>1, <1>2

LEMMA ReadInv ==
    ASSUME ExclusiveDeletes, TypeInv, Inv, NEW t \in Threads,
           CheckTaken(t) \/ SelectMax(t) \/ Abort(t)
    PROVE  Inv'
  <1>1. CASE CheckTaken(t)
    <2>1. req[t].name \in Names /\ req[t].tid \in Ids /\ req[t].pc = "taken"
      BY <1>1, AtFacts DEF CheckTaken, At
    <2> QED BY <1>1, <2>1, FreeStep DEF CheckTaken, Deleting
  <1>2. CASE SelectMax(t)
    <2>1. req[t].name \in Names /\ req[t].pc = "max"
      BY <1>2, AtFacts DEF SelectMax, At
    <2>2. PICK tid \in Ids : Goto(t, "insert", req[t].name, tid)
      BY <1>2 DEF SelectMax
    <2> QED BY <1>2, <2>1, <2>2, FreeStep DEF SelectMax, Deleting
  <1>3. CASE Abort(t)
    BY <1>3, FreeStep DEF Abort
  <1> QED BY <1>1, <1>2, <1>3

LEMMA BuildInv ==
    ASSUME ExclusiveDeletes, TypeInv, Inv, NEW t \in Threads, NEW n \in Names,
           NEW i \in Ids \cup {None}, Build(t, n, i)
    PROVE  Inv'
  <1>1. /\ UNCHANGED << backend, reg, attrs, tables, torn >>
        /\ MayBegin(t) /\ req[t].pc = "idle" /\ ~Deleting(t)
        /\ \A u \in Threads : ~Deleting(u)
    BY NoDelete DEF Build, MayBegin, At, Deleting
  <1>2. CASE UNCHANGED req
    <2>1. Exclusion' /\ Placed'
      BY <1>1, <1>2 DEF Inv, Exclusion, Placed, PlacedAt, Deleting, At
    <2>2. RowsAreWhole' /\ NoOrphanTables'
      BY <1>1 DEF Inv, RowsAreWhole, NoOrphanTables, UsedIds
    <2> QED BY <2>1, <2>2 DEF Inv
  <1>3. CASE UNCHANGED store /\ reg[n] # None /\ Goto(t, "ensure", n, reg[n])
    <2>1. reg[n] \in Ids
      BY <1>3 DEF TypeInv, TypeOK
    <2>2. /\ req'[t].pc = "ensure" /\ req'[t].name = n /\ req'[t].tid = reg[n]
          /\ req'[t].base = 1 /\ \A u \in Threads \ {t} : req'[u] = req[u]
      BY <1>3, <2>1, GotoFacts DEF TypeInv, Stages
    <2>3. PlacedAt(t)'
      BY <1>1, <2>2, ConstantFacts DEF PlacedAt
    <2> QED BY <1>1, <1>3, <2>2, <2>3, RequestStep DEF Deleting
  <1>4. CASE UNCHANGED store /\ \E pc \in {"taken", "max"}, tid \in Ids \cup {None} : Goto(t, pc, n, tid)
    BY <1>1, <1>4, FreeStep
  <1> QED BY <1>2, <1>3, <1>4 DEF Build

LEMMA DeleteInv ==
    ASSUME ExclusiveDeletes, TypeInv, Inv, NEW t \in Threads, NEW n \in Names, Delete(t, n)
    PROVE  Inv'
  <1>1. /\ UNCHANGED << backend, reg, attrs, tables, torn, store >>
        /\ t \in Deleters /\ \A u \in Threads : At(u, "idle") /\ store[u] = NoStore
    BY DEF Delete, MayDelete, MayBegin
  <1>2. reg[n] \in Ids /\ Goto(t, "drop", n, reg[n])
    BY DEF Delete, TypeInv, TypeOK
  <1>3. /\ req'[t].pc = "drop" /\ req'[t].name = n /\ req'[t].tid = reg[n] /\ req'[t].base = 1
        /\ \A u \in Threads \ {t} : req'[u] = req[u]
    BY <1>2, GotoFacts DEF TypeInv, Stages
  <1>4. PlacedAt(t)'
    BY <1>1, <1>3, ConstantFacts DEF PlacedAt
  <1> QED BY <1>1, <1>3, <1>4, RequestStep DEF Deleting, At

\* The request MergeSettings begins: the keys it read with the one it sets.
LEMMA MergeFacts ==
    ASSUME TypeInv, NEW t \in Threads, NEW n \in Names, NEW k \in Keys, MergeSettings(t, n, k)
    PROVE  /\ UNCHANGED << backend, reg, attrs, tables, torn, cache, store >>
           /\ req'[t].pc = "merge" /\ req'[t].name = n
           /\ req'[t].keys = (attrs[n] \cap Keys) \cup {k}
           /\ \A u \in Threads \ {t} : req'[u] = req[u]
           /\ MayBegin(t) /\ req[t].pc = "idle" /\ ~Deleting(t)
           /\ SerialSettings => \A u \in Threads : ~(At(u, "merge") /\ req[u].name = n)
  <1> DEFINE r == [Idle EXCEPT !.pc = "merge", !.name = n, !.keys = (attrs[n] \cap Keys) \cup {k}]
  <1>1. r \in Requests /\ r.pc = "merge" /\ r.name = n /\ r.keys = (attrs[n] \cap Keys) \cup {k}
    BY ConstantFacts DEF Requests, Idle, Stages
  <1>2. req' = [req EXCEPT ![t] = r] /\ UNCHANGED << backend, reg, attrs, tables, torn, cache, store >>
    BY DEF MergeSettings
  <1>3. /\ MayBegin(t) /\ req[t].pc = "idle" /\ ~Deleting(t)
        /\ SerialSettings => \A u \in Threads : ~(At(u, "merge") /\ req[u].name = n)
    BY DEF MergeSettings, MayBegin, At, Deleting
  <1> HIDE DEF r
  <1> QED BY <1>1, <1>2, <1>3, RequestFacts DEF TypeInv

LEMMA MergeInv ==
    ASSUME ExclusiveDeletes, TypeInv, Inv, NEW t \in Threads, NEW n \in Names, NEW k \in Keys,
           MergeSettings(t, n, k)
    PROVE  Inv'
  <1>1. /\ UNCHANGED << backend, reg, attrs, tables, torn, store >> /\ req'[t].pc = "merge"
        /\ \A u \in Threads \ {t} : req'[u] = req[u]
        /\ MayBegin(t) /\ ~Deleting(t)
    BY MergeFacts
  <1> QED BY <1>1, NoDelete, RequestStep DEF PlacedAt, Deleting
-----------------------------------------------------------------------------
\* What a SaveSettings does to the columns and keys on record.
LEMMA SaveFacts ==
    ASSUME TypeInv, NEW t \in Threads, SaveSettings(t)
    PROVE  LET n == req[t].name IN
           /\ n \in Names /\ req[t].pc = "merge"
           /\ \A m \in Names \ {n} : attrs'[m] = attrs[m]
           /\ reg[n] = None => attrs'[n] = attrs[n]
           /\ reg[n] # None => attrs'[n] = (attrs[n] \ Keys) \cup req[t].keys
  <1>1. req[t].name \in Names /\ req[t].pc = "merge"
    BY AtFacts DEF SaveSettings, At
  <1> QED BY <1>1 DEF SaveSettings, TypeInv, TypeOK

\* What an UpdateTenant does to them.
LEMMA UpdateFacts ==
    ASSUME TypeInv, NEW t \in Threads, NEW n \in Names, NEW c \in Columns, UpdateTenant(t, n, c)
    PROVE  /\ UNCHANGED << backend, reg, tables, torn, cache, store, req >> /\ reg[n] # None
           /\ attrs'[n] = attrs[n] \cup {c} /\ \A m \in Names \ {n} : attrs'[m] = attrs[m]
           /\ \A m \in Names : attrs'[m] \cap Keys = attrs[m] \cap Keys
  <1>1. /\ UNCHANGED << backend, reg, tables, torn, cache, store, req >> /\ reg[n] # None
        /\ attrs' = [attrs EXCEPT ![n] = @ \cup {c}]
    BY DEF UpdateTenant
  <1>2. attrs'[n] = attrs[n] \cup {c} /\ \A m \in Names \ {n} : attrs'[m] = attrs[m]
    BY <1>1 DEF TypeInv, TypeOK
  <1>3. attrs'[n] \cap Keys = attrs[n] \cap Keys
    BY <1>2, TenantsAssumption
  <1> QED BY <1>1, <1>2, <1>3

\* The steps that save settings: attrs change only for a row.
LEMMA SettingsInv ==
    ASSUME TypeInv, Inv, NEW t \in Threads,
           SaveSettings(t) \/ \E n \in Names, c \in Columns : UpdateTenant(t, n, c)
    PROVE  Inv'
  <1>1. /\ UNCHANGED << backend, reg, tables, torn, store >>
        /\ \A n \in Names : reg[n] = None => attrs'[n] = attrs[n]
    BY SaveFacts, UpdateFacts DEF SaveSettings
  <1>2. \A u \in Threads : req'[u] = req[u] \/ req'[u].pc = "idle"
    BY ReturnFacts, UpdateFacts DEF SaveSettings, TypeInv
  <1>3. Exclusion' /\ Placed'
    BY <1>1, <1>2 DEF Inv, Exclusion, Placed, PlacedAt, Deleting, At
  <1>4. RowsAreWhole' /\ NoOrphanTables'
    BY <1>1 DEF Inv, RowsAreWhole, NoOrphanTables, UsedIds
  <1> QED BY <1>3, <1>4 DEF Inv
-----------------------------------------------------------------------------
\* What an Insert that is not refused changes: its row and its tables.
LEMMA InsertFacts ==
    ASSUME TypeInv, NEW t \in Threads, Insert(t), reg' # reg \/ tables' # tables
    PROVE  LET n   == req[t].name
               tid == req[t].tid
           IN  /\ n \in Names /\ tid \in Ids /\ reg[n] = None /\ tid \notin UsedIds
               /\ reg'[n] = tid /\ \A m \in Names \ {n} : reg'[m] = reg[m]
               /\ tables'[tid] = Created(tables[tid])
               /\ \A i \in Ids \ {tid} : tables'[i] = tables[i]
               /\ req'[t].pc = "fill" /\ req'[t].name = n /\ req'[t].tid = tid
               /\ \A u \in Threads \ {t} : req'[u] = req[u]
               /\ UNCHANGED << backend, attrs, torn, cache, store >> /\ req[t].pc = "insert"
  <1> DEFINE n   == req[t].name
             tid == req[t].tid
  <1>1. At(t, "insert") /\ n \in Names /\ tid \in Ids /\ UNCHANGED << backend, attrs, torn, cache, store >>
    BY AtFacts DEF Insert, At
  <1>2. ~(reg[n] # None \/ tid \in UsedIds)
    BY DEF Insert
  <1>3. /\ reg' = [reg EXCEPT ![n] = tid] /\ Goto(t, "fill", n, tid)
        /\ tables' = [tables EXCEPT ![tid] = Created(tables[tid])]
    BY <1>1, <1>2 DEF Insert, TypeInv, TypeOK
  <1>4. /\ req'[t].pc = "fill" /\ req'[t].name = n /\ req'[t].tid = tid
        /\ \A u \in Threads \ {t} : req'[u] = req[u]
    BY <1>1, <1>3, GotoFacts DEF TypeInv, Stages
  <1>5. /\ tables'[tid] = Created(tables[tid])
        /\ \A i \in Ids \ {tid} : tables'[i] = tables[i]
    BY <1>1, <1>3 DEF TypeInv, TypeOK
  <1>6. reg'[n] = tid /\ \A m \in Names \ {n} : reg'[m] = reg[m]
    BY <1>1, <1>3 DEF TypeInv, TypeOK
  <1> QED BY <1>1, <1>2, <1>4, <1>5, <1>6 DEF At

LEMMA InsertInv ==
    ASSUME ExclusiveDeletes, TypeInv, Inv, NEW t \in Threads, Insert(t)
    PROVE  Inv'
  <1> DEFINE n   == req[t].name
             tid == req[t].tid
  <1>1. CASE UNCHANGED << reg, tables >>
    <2>1. req[t].name \in Names /\ req[t].tid \in Ids /\ req[t].pc = "insert"
      BY AtFacts DEF Insert, At
    <2>2. reg[n] # None \/ tid \in UsedIds
      BY <1>1, <2>1, ConstantFacts DEF Insert, TypeInv, TypeOK
    <2> QED BY <1>1, <2>1, <2>2, FreeStep DEF Insert
  <1>2. CASE reg' # reg \/ tables' # tables
    <2>1. /\ n \in Names /\ tid \in Ids /\ reg[n] = None /\ tid \notin UsedIds
          /\ reg'[n] = tid /\ \A m \in Names \ {n} : reg'[m] = reg[m]
          /\ tables'[tid] = Created(tables[tid])
          /\ \A i \in Ids \ {tid} : tables'[i] = tables[i]
          /\ req'[t].pc = "fill" /\ req'[t].name = n /\ req'[t].tid = tid
          /\ \A u \in Threads \ {t} : req'[u] = req[u]
          /\ UNCHANGED << backend, attrs, torn, cache, store >> /\ req[t].pc = "insert"
      BY <1>2, InsertFacts
    <2> HIDE DEF n, tid
    <2>2. \A u \in Threads : ~Deleting(u) /\ ~Deleting(u)'
      BY <2>1, NoDelete DEF Deleting
    <2>3. Exclusion'
      BY <2>2 DEF Exclusion
    <2>4. tables[tid] = NoTables /\ \A m \in Names : reg[m] # tid
      BY <2>1, ConstantFacts DEF Inv, NoOrphanTables, UsedIds
    <2>5. \A b \in Kinds : tables'[tid][b] = {}
      BY <2>1, <2>4 DEF Created, NoTables
    <2>6. Placed'
      <3>1. PlacedAt(t)'
        BY <2>1 DEF PlacedAt
      <3>2. ASSUME NEW u \in Threads \ {t} PROVE PlacedAt(u)'
        BY <2>1, <2>2, <2>4, AtFacts, ConstantFacts DEF Inv, Placed, PlacedAt, Deleting
      <3> QED BY <3>1, <3>2 DEF Placed
    <2>7. \A m \in Names : reg[m] # None => reg[m] \in Ids /\ reg[m] # tid
      BY <2>4 DEF TypeInv, TypeOK
    <2>8. RowsAreWhole'
      <3>1. \A m, k \in Names : (reg'[m] # None /\ reg'[m] = reg'[k]) => m = k
        BY <2>1, <2>7 DEF Inv, RowsAreWhole
      <3>2. \A m \in Names : reg'[m] = None => attrs'[m] = {}
        BY <2>1, ConstantFacts DEF Inv, RowsAreWhole
      <3>3. \A m \in Names, b \in Kinds :
              reg'[m] # None => \/ backend' = "sqlite" /\ m \in torn'
                                \/ tables'[reg'[m]][b] # None
        BY <2>1, <2>5, <2>7, TenantsAssumption DEF Inv, RowsAreWhole
      <3> QED BY <3>1, <3>2, <3>3 DEF RowsAreWhole
    <2>9. NoOrphanTables'
      <3>1. UsedIds' = UsedIds \cup {tid}
        BY <2>1, ConstantFacts DEF UsedIds
      <3> QED BY <2>1, <3>1 DEF Inv, NoOrphanTables, NoTables
    <2> QED BY <2>3, <2>6, <2>8, <2>9 DEF Inv
  <1> QED BY <1>1, <1>2
-----------------------------------------------------------------------------
\* What an ensure step makes is empty, for the id on record of its name; when the
\* last one is done all tables are there.
LEMMA EnsureFacts ==
    ASSUME TypeInv, Inv, NEW t \in Threads, EnsureTables(t) \/ EnsureTable(t)
    PROVE  /\ req[t].pc = "ensure" /\ req[t].tid \in Ids /\ req[t].name \in Names
           /\ reg[req[t].name] = req[t].tid
           /\ UNCHANGED << backend, reg, attrs, cache, store >>
           /\ \A i \in Ids, b \in Kinds :
                \/ tables'[i][b] = tables[i][b]
                \/ i = req[t].tid /\ tables[i][b] = None /\ tables'[i][b] = {}
           /\ req'[t].pc \in {"ensure", "fill"}
           /\ req'[t].name = req[t].name /\ req'[t].tid = req[t].tid
           /\ \A u \in Threads \ {t} : req'[u] = req[u]
           /\ PlacedAt(t)'
           /\ \/ torn' = torn
              \/ /\ torn' = torn \ {req[t].name}
                 /\ \A b \in Kinds : tables'[req[t].tid][b] # None
  <1> DEFINE tid == req[t].tid
  <1>1. /\ req[t].pc = "ensure" /\ tid \in Ids /\ req[t].name \in Names
        /\ UNCHANGED << backend, reg, attrs, cache, store >>
        /\ reg[req[t].name] = tid /\ Bases[req[t].base] \in Kinds
    BY AtFacts DEF EnsureTables, EnsureTable, At, Inv, Placed, PlacedAt
  <1>2. \A i \in Ids, b \in Kinds :
            \/ tables'[i][b] = tables[i][b]
            \/ i = tid /\ tables[i][b] = None /\ tables'[i][b] = {}
    <2>1. CASE EnsureTables(t)
      <3>1. tables' = [tables EXCEPT ![tid] = Created(tables[tid])]
        BY <1>1, <2>1 DEF EnsureTables, TypeInv, TypeOK
      <3>2. tables[tid] \in [Kinds -> (SUBSET Names) \cup {None}]
        BY <1>1 DEF TypeInv, TypeOK
      <3> QED BY <1>1, <3>1, <3>2, CreatedFacts, TablesFacts DEF TypeInv
    <2>2. CASE EnsureTable(t)
      BY <1>1, <2>2 DEF EnsureTable, TypeInv, TypeOK
    <2> QED BY <2>1, <2>2
  <1>3. req[t].base \in 1..Len(Bases) /\ \A i \in 1..Len(Bases) : Bases[i] \in Kinds
    BY AtFacts, ConstantFacts
  <1>4. \A i \in 1..Len(Bases) : i < req[t].base => tables'[tid][Bases[i]] # None
    BY <1>1, <1>2, <1>3, TenantsAssumption DEF Inv, Placed, PlacedAt
  <1>5. CASE EnsureTables(t)
    <2>1. Goto(t, "fill", req[t].name, tid) /\ torn' = torn
      BY <1>5 DEF EnsureTables
    <2>2. /\ req'[t].pc = "fill" /\ req'[t].name = req[t].name /\ req'[t].tid = tid
          /\ \A u \in Threads \ {t} : req'[u] = req[u]
      BY <1>1, <2>1, GotoFacts DEF TypeInv, Stages
    <2> QED BY <1>1, <1>2, <2>1, <2>2 DEF PlacedAt
  <1>6. CASE EnsureTable(t)
    <2>1. tables'[tid][Bases[req[t].base]] # None
      BY <1>1, <1>3, <1>6, TenantsAssumption DEF EnsureTable, TypeInv, TypeOK
    <2>2. \A i \in 1..Len(Bases) : i <= req[t].base => tables'[tid][Bases[i]] # None
      BY <1>3, <1>4, <2>1
    <2>3. CASE /\ req[t].base < Len(Bases) /\ UNCHANGED torn
               /\ req' = [req EXCEPT ![t].base = @ + 1]
      <3>1. /\ req'[t].pc = "ensure" /\ req'[t].name = req[t].name /\ req'[t].tid = tid
            /\ req'[t].base = req[t].base + 1 /\ \A u \in Threads \ {t} : req'[u] = req[u]
        BY <1>1, <2>3, NextBaseFacts DEF TypeInv
      <3>2. \A i \in 1..Len(Bases) : i < req[t].base + 1 => i <= req[t].base
        BY <1>3
      <3> HIDE DEF tid
      <3> QED BY <1>1, <1>2, <2>2, <2>3, <3>1, <3>2 DEF PlacedAt, tid
    <2>4. CASE /\ ~(req[t].base < Len(Bases)) /\ torn' = torn \ {req[t].name}
               /\ Goto(t, "fill", req[t].name, tid)
      <3>1. /\ req'[t].pc = "fill" /\ req'[t].name = req[t].name /\ req'[t].tid = tid
            /\ \A u \in Threads \ {t} : req'[u] = req[u]
        BY <1>1, <2>4, GotoFacts DEF TypeInv, Stages
      <3>2. \A i \in 1..Len(Bases) : i <= req[t].base
        BY <1>3, <2>4, ConstantFacts
      <3>3. \A c \in Kinds : tables'[tid][c] # None
        BY <2>2, <3>2 DEF Kinds
      <3> QED BY <1>1, <1>2, <2>4, <3>1, <3>3 DEF PlacedAt
    <2> QED BY <1>6, <2>3, <2>4 DEF EnsureTable
  <1> QED BY <1>5, <1>6

LEMMA EnsureInv ==
    ASSUME ExclusiveDeletes, TypeInv, Inv, NEW t \in Threads, EnsureTables(t) \/ EnsureTable(t)
    PROVE  Inv'
  <1> DEFINE tid == req[t].tid
  <1>1. /\ req[t].pc = "ensure" /\ tid \in Ids /\ req[t].name \in Names
        /\ reg[req[t].name] = tid
        /\ UNCHANGED << backend, reg, attrs, cache, store >>
        /\ \A i \in Ids, b \in Kinds :
             \/ tables'[i][b] = tables[i][b]
             \/ i = tid /\ tables[i][b] = None /\ tables'[i][b] = {}
        /\ req'[t].pc \in {"ensure", "fill"}
        /\ req'[t].name = req[t].name /\ req'[t].tid = tid
        /\ \A u \in Threads \ {t} : req'[u] = req[u]
        /\ PlacedAt(t)'
        /\ \/ torn' = torn
           \/ torn' = torn \ {req[t].name} /\ \A b \in Kinds : tables'[tid][b] # None
    BY EnsureFacts
  <1> HIDE DEF tid
  <1>2. \A u \in Threads : ~Deleting(u)
    BY <1>1, NoDelete DEF Deleting
  <1>3. Exclusion'
    BY <1>1, <1>2 DEF Exclusion, Deleting
  <1>4. Placed'
    <2>1. \A i \in Ids, b \in Kinds : tables[i][b] # None => tables'[i][b] # None
      BY <1>1
    <2>2. ASSUME NEW u \in Threads \ {t} PROVE PlacedAt(u)'
      BY <1>1, <1>2, <2>1, <2>2, AtFacts, ConstantFacts DEF Inv, Placed, PlacedAt, Deleting
    <2> QED BY <1>1, <2>2 DEF Placed
  <1>5. \A n \in Names : reg[n] # None => reg[n] \in Ids
    BY DEF TypeInv, TypeOK
  <1>6. RowsAreWhole'
    <2>1. \A m, k \in Names : (reg'[m] # None /\ reg'[m] = reg'[k]) => m = k
      BY <1>1 DEF Inv, RowsAreWhole
    <2>2. \A m \in Names : reg'[m] = None => attrs'[m] = {}
      BY <1>1 DEF Inv, RowsAreWhole
    <2>3. \A m \in Names, b \in Kinds :
            reg'[m] # None => \/ backend' = "sqlite" /\ m \in torn'
                              \/ tables'[reg'[m]][b] # None
      BY <1>1, <1>5, TenantsAssumption DEF Inv, RowsAreWhole
    <2> QED BY <2>1, <2>2, <2>3 DEF RowsAreWhole
  <1>7. NoOrphanTables'
    <2>1. tid \in UsedIds
      BY <1>1, ConstantFacts DEF UsedIds
    <2>2. \A i \in Ids \ {tid} : tables'[i] = tables[i]
      BY <1>1, EnsureType DEF TypeInv, TypeOK
    <2> QED BY <1>1, <2>1, <2>2 DEF Inv, NoOrphanTables, UsedIds, NoTables
  <1> QED BY <1>3, <1>4, <1>6, <1>7 DEF Inv

\* What a Fill does: the id on record goes into the cache and the Store object.
LEMMA FillFacts ==
    ASSUME TypeInv, Inv, NEW t \in Threads, Fill(t)
    PROVE  LET s == [name |-> req[t].name, tid |-> req[t].tid] IN
           /\ req[t].pc = "fill" /\ s.name \in Names /\ s.tid \in Ids /\ reg[s.name] = s.tid
           /\ UNCHANGED << backend, reg, attrs, tables, torn >>
           /\ req'[t].pc = "idle" /\ \A u \in Threads \ {t} : req'[u] = req[u]
           /\ \A u \in Threads : store'[u] = IF u = t THEN s ELSE store[u]
           /\ \A q \in Procs, m \in Names :
                cache'[q][m] = cache[q][m] \/ (m = s.name /\ cache'[q][m] = s.tid)
  <1> DEFINE s == [name |-> req[t].name, tid |-> req[t].tid]
  <1>1. /\ req[t].pc = "fill" /\ s.name \in Names /\ s.tid \in Ids
        /\ reg[s.name] = s.tid
        /\ UNCHANGED << backend, reg, attrs, tables, torn >>
    BY AtFacts DEF Fill, At, Inv, Placed, PlacedAt
  <1>2. /\ req'[t].pc = "idle" /\ \A u \in Threads \ {t} : req'[u] = req[u]
        /\ \A u \in Threads : store'[u] = IF u = t THEN s ELSE store[u]
    BY ReturnFacts DEF Fill, TypeInv, TypeOK
  <1>3. \A q \in Procs, m \in Names :
            cache'[q][m] = cache[q][m] \/ (m = s.name /\ cache'[q][m] = s.tid)
    BY <1>1, CacheFacts DEF Fill, TypeInv
  <1> QED BY <1>1, <1>2, <1>3

LEMMA FillInv ==
    ASSUME ExclusiveDeletes, TypeInv, Inv, NEW t \in Threads, Fill(t)
    PROVE  Inv'
  <1>1. /\ req[t].pc = "fill" /\ UNCHANGED << backend, reg, attrs, tables, torn >>
        /\ req'[t].pc = "idle" /\ \A u \in Threads \ {t} : req'[u] = req[u]
    BY FillFacts
  <1>2. \A u \in Threads : ~Deleting(u)
    BY <1>1, NoDelete DEF Deleting
  <1>3. Exclusion' /\ Placed'
    BY <1>1, <1>2 DEF Inv, Exclusion, Placed, PlacedAt, Deleting
  <1>4. RowsAreWhole' /\ NoOrphanTables'
    BY <1>1 DEF Inv, RowsAreWhole, NoOrphanTables, UsedIds
  <1> QED BY <1>3, <1>4 DEF Inv

\* What a Write does, to a table of the id its Store object was built with.
LEMMA WriteFacts ==
    ASSUME TypeInv, NEW t \in Threads, NEW b \in Kinds, Write(t, b)
    PROVE  LET s == store[t] IN
           /\ UNCHANGED << backend, reg, attrs, torn, cache, store, req >>
           /\ req[t].pc = "idle" /\ s # NoStore /\ s.tid \in Ids /\ s.name \in Names
           /\ tables[s.tid][b] # None
           /\ tables'[s.tid][b] = tables[s.tid][b] \cup {s.name} /\ tables'[s.tid][b] # None
           /\ \A c \in Kinds \ {b} : tables'[s.tid][c] = tables[s.tid][c]
           /\ \A j \in Ids \ {s.tid} : tables'[j] = tables[j]
  <1> DEFINE s == store[t]
  <1>1. /\ UNCHANGED << backend, reg, attrs, torn, cache, store, req >> /\ req[t].pc = "idle"
        /\ s # NoStore /\ s.tid \in Ids /\ s.name \in Names
        /\ tables[s.tid][b] # None
    BY DEF Write, TypeInv, Shaped, At
  <1>2. tables[s.tid][b] \in SUBSET Names
    BY <1>1 DEF TypeInv, TypeOK
  <1>3. /\ tables'[s.tid][b] = tables[s.tid][b] \cup {s.name}
        /\ \A c \in Kinds \ {b} : tables'[s.tid][c] = tables[s.tid][c]
        /\ \A j \in Ids \ {s.tid} : tables'[j] = tables[j]
    BY <1>1, <1>2, TableFacts DEF Write, TypeInv, TypeOK
  <1>4. tables'[s.tid][b] # None
    BY <1>1, <1>2, <1>3, TenantsAssumption
  <1> QED BY <1>1, <1>3, <1>4

LEMMA WriteInv ==
    ASSUME TypeInv, Inv, NEW t \in Threads, NEW b \in Kinds, Write(t, b)
    PROVE  Inv'
  <1> DEFINE s == store[t]
  <1>1. /\ UNCHANGED << backend, reg, attrs, torn, cache, store, req >>
        /\ req[t].pc = "idle" /\ s # NoStore /\ s.tid \in Ids /\ s.name \in Names
        /\ tables[s.tid][b] # None /\ tables'[s.tid][b] # None
        /\ \A c \in Kinds \ {b} : tables'[s.tid][c] = tables[s.tid][c]
        /\ \A j \in Ids \ {s.tid} : tables'[j] = tables[j]
    BY WriteFacts
  <1> HIDE DEF s
  <1>2. \A u \in Threads : ~Deleting(u)
    BY <1>1 DEF Inv, Exclusion, Deleting, At, s
  <1>3. Exclusion' /\ Placed'
    <2>1. \A i \in Ids, c \in Kinds : tables[i][c] # None => tables'[i][c] # None
      BY <1>1
    <2>2. ASSUME NEW u \in Threads PROVE PlacedAt(u)'
      BY <1>1, <1>2, <2>1, AtFacts, ConstantFacts DEF Inv, Placed, PlacedAt, Deleting
    <2> QED BY <1>1, <1>2, <2>2 DEF Inv, Exclusion, Placed, Deleting
  <1>4. RowsAreWhole'
    <2>1. \A n \in Names : reg[n] # None => reg[n] \in Ids
      BY DEF TypeInv, TypeOK
    <2> QED BY <1>1, <2>1 DEF Inv, RowsAreWhole
  <1>5. NoOrphanTables'
    BY <1>1 DEF Inv, NoOrphanTables, UsedIds, NoTables
  <1> QED BY <1>3, <1>4, <1>5 DEF Inv

LEMMA EndRequestInv ==
    ASSUME TypeInv, Inv, NEW t \in Threads, EndRequest(t)
    PROVE  Inv'
  <1>1. /\ UNCHANGED << backend, reg, attrs, tables, torn, cache, req >>
        /\ \A u \in Threads : store'[u] = IF u = t THEN NoStore ELSE store[u]
    BY DEF EndRequest, TypeInv, TypeOK
  <1>2. Exclusion' /\ Placed'
    BY <1>1 DEF Inv, Exclusion, Placed, PlacedAt, Deleting, At
  <1>3. RowsAreWhole' /\ NoOrphanTables'
    BY <1>1 DEF Inv, RowsAreWhole, NoOrphanTables, UsedIds
  <1> QED BY <1>2, <1>3 DEF Inv
-----------------------------------------------------------------------------
LEMMA DeletingFacts ==
    ASSUME TypeInv, Inv, NEW t \in Threads, Deleting(t)
    PROVE  /\ req[t].name \in Names /\ req[t].tid \in Ids /\ t \in Deleters
           /\ \A u \in Threads : store[u] = NoStore
           /\ \A u \in Threads \ {t} : req[u].pc = "idle"
  BY AtFacts DEF Deleting, Inv, Exclusion, At

\* What a DropTable does: one table of the tenant being deleted goes.
LEMMA DropTableFacts ==
    ASSUME TypeInv, Inv, NEW t \in Threads, DropTable(t)
    PROVE  LET tid == req[t].tid
               b   == Bases[req[t].base]
           IN  /\ req[t].pc = "drop" /\ backend = "sqlite" /\ reg[req[t].name] = tid
               /\ UNCHANGED << backend, reg, attrs, cache, store >>
               /\ torn' = torn \cup {req[t].name}
               /\ req[t].name \in Names /\ tid \in Ids /\ t \in Deleters /\ b \in Kinds
               /\ \A u \in Threads : store[u] = NoStore
               /\ \A u \in Threads \ {t} : req[u].pc = "idle"
               /\ tables'[tid][b] = None
               /\ \A c \in Kinds \ {b} : tables'[tid][c] = tables[tid][c]
               /\ \A j \in Ids \ {tid} : tables'[j] = tables[j]
               /\ tables'[tid] \in [Kinds -> (SUBSET Names) \cup {None}]
  <1>1. /\ req[t].pc = "drop" /\ backend = "sqlite" /\ reg[req[t].name] = req[t].tid
        /\ UNCHANGED << backend, reg, attrs, cache, store >> /\ torn' = torn \cup {req[t].name}
        /\ tables' = [tables EXCEPT ![req[t].tid][Bases[req[t].base]] = None]
    BY DEF DropTable, At, Inv, Placed, PlacedAt
  <1>2. /\ req[t].name \in Names /\ req[t].tid \in Ids /\ t \in Deleters
        /\ Bases[req[t].base] \in Kinds
        /\ \A u \in Threads : store[u] = NoStore
        /\ \A u \in Threads \ {t} : req[u].pc = "idle"
    BY <1>1, DeletingFacts, AtFacts DEF Deleting
  <1>3. LET tid == req[t].tid
            b   == Bases[req[t].base]
        IN  /\ tables'[tid][b] = None
            /\ \A c \in Kinds \ {b} : tables'[tid][c] = tables[tid][c]
            /\ \A j \in Ids \ {tid} : tables'[j] = tables[j]
            /\ tables'[tid] \in [Kinds -> (SUBSET Names) \cup {None}]
    BY <1>1, <1>2, TableFacts DEF TypeInv
  <1> QED BY <1>1, <1>2, <1>3

LEMMA DropTableInv ==
    ASSUME TypeInv, Inv, NEW t \in Threads, DropTable(t)
    PROVE  Inv'
  <1> DEFINE tid == req[t].tid
             b   == Bases[req[t].base]
  <1>1. /\ req[t].pc = "drop" /\ backend = "sqlite" /\ reg[req[t].name] = tid
        /\ UNCHANGED << backend, reg, attrs, cache, store >> /\ torn' = torn \cup {req[t].name}
        /\ req[t].name \in Names /\ tid \in Ids /\ t \in Deleters /\ b \in Kinds
        /\ \A u \in Threads : store[u] = NoStore
        /\ \A u \in Threads \ {t} : req[u].pc = "idle"
        /\ tables'[tid][b] = None
        /\ \A c \in Kinds \ {b} : tables'[tid][c] = tables[tid][c]
        /\ \A j \in Ids \ {tid} : tables'[j] = tables[j]
        /\ tables'[tid] \in [Kinds -> (SUBSET Names) \cup {None}]
    BY DropTableFacts
  <1>2. \A i \in 1..Len(Bases) : i <= req[t].base => tables'[tid][Bases[i]] = None
    <2>1. \A i \in 1..Len(Bases) : i < req[t].base => tables[tid][Bases[i]] = None
      BY <1>1 DEF Inv, Placed, PlacedAt
    <2>2. req[t].base \in 1..Len(Bases)
      BY AtFacts
    <2> QED BY <1>1, <2>1, <2>2, ConstantFacts
  <1>3. /\ req'[t].pc \in {"drop", "delete"}
        /\ req'[t].name = req[t].name /\ req'[t].tid = tid
        /\ \A u \in Threads \ {t} : req'[u] = req[u]
        /\ PlacedAt(t)'
    <2>1. CASE req[t].base < Len(Bases) /\ req' = [req EXCEPT ![t].base = @ + 1]
      <3>1. /\ req'[t].pc = "drop" /\ req'[t].name = req[t].name /\ req'[t].tid = tid
            /\ req'[t].base = req[t].base + 1 /\ \A u \in Threads \ {t} : req'[u] = req[u]
        BY <1>1, <2>1, NextBaseFacts DEF TypeInv
      <3>2. \A i \in 1..Len(Bases) : i < req[t].base + 1 => i <= req[t].base
        BY AtFacts
      <3> QED BY <1>1, <1>2, <3>1, <3>2 DEF PlacedAt
    <2>2. CASE ~(req[t].base < Len(Bases)) /\ Goto(t, "delete", req[t].name, tid)
      <3>1. /\ req'[t].pc = "delete" /\ req'[t].name = req[t].name /\ req'[t].tid = tid
            /\ \A u \in Threads \ {t} : req'[u] = req[u]
        BY <1>1, <2>2, GotoFacts DEF TypeInv, Stages
      <3>2. \A i \in 1..Len(Bases) : i <= req[t].base
        BY <2>2, AtFacts, ConstantFacts
      <3>3. \A c \in Kinds : tables'[tid][c] = None
        BY <1>2, <3>2 DEF Kinds
      <3>4. tables'[tid] = NoTables
        BY <1>1, <3>3 DEF NoTables
      <3> QED BY <1>1, <3>1, <3>4 DEF PlacedAt
    <2> QED BY <2>1, <2>2 DEF DropTable
  <1> HIDE DEF tid, b
  <1>4. Exclusion'
    BY <1>1, <1>3 DEF Inv, Exclusion, Deleting, At
  <1>5. Placed'
    BY <1>1, <1>3 DEF Placed, PlacedAt
  <1>6. RowsAreWhole'
    <2>1. \A n \in Names : reg[n] # None => reg[n] \in Ids /\ (reg[n] = tid => n = req[t].name)
      BY <1>1 DEF Inv, RowsAreWhole, TypeInv, TypeOK
    <2> QED BY <1>1, <2>1 DEF Inv, RowsAreWhole
  <1>7. NoOrphanTables'
    BY <1>1, ConstantFacts DEF Inv, NoOrphanTables, UsedIds, NoTables
  <1> QED BY <1>4, <1>5, <1>6, <1>7 DEF Inv

\* The row goes when its tables have gone (SQLite) or with them (Postgres).
LEMMA DropRowFacts ==
    ASSUME TypeInv, Inv, NEW t \in Threads, DropTenant(t) \/ DeleteRow(t)
    PROVE  LET n   == req[t].name
               tid == req[t].tid
           IN  /\ n \in Names /\ tid \in Ids /\ reg[n] = tid /\ Deleting(t)
               /\ reg'[n] = None /\ attrs'[n] = {} /\ tables'[tid] = NoTables
               /\ \A m \in Names \ {n} : reg'[m] = reg[m] /\ attrs'[m] = attrs[m]
               /\ \A i \in Ids \ {tid} : tables'[i] = tables[i]
               /\ req'[t].pc = "pop" /\ req'[t].name = n
               /\ \A u \in Threads \ {t} : req'[u] = req[u]
               /\ UNCHANGED << backend, cache, store >> /\ torn' \in {torn, torn \ {n}}
  <1> DEFINE n   == req[t].name
             tid == req[t].tid
  <1>1. /\ req[t].pc \in {"drop", "delete"} /\ UNCHANGED << backend, cache, store >>
        /\ torn' \in {torn, torn \ {n}}
        /\ Goto(t, "pop", n, tid) /\ reg[n] = tid /\ Deleting(t)
        /\ reg' = [reg EXCEPT ![n] = None] /\ attrs' = [attrs EXCEPT ![n] = {}]
    BY DEF DropTenant, DeleteRow, At, Deleting, Inv, Placed, PlacedAt
  <1>2. n \in Names /\ tid \in Ids
    BY <1>1, AtFacts
  <1>3. tables'[tid] = NoTables /\ \A i \in Ids \ {tid} : tables'[i] = tables[i]
    <2>1. CASE DropTenant(t)
      BY <1>2, <2>1 DEF DropTenant, TypeInv, TypeOK
    <2>2. CASE DeleteRow(t)
      BY <1>2, <2>2 DEF DeleteRow, At, Inv, Placed, PlacedAt
    <2> QED BY <2>1, <2>2
  <1>4. /\ reg'[n] = None /\ attrs'[n] = {}
        /\ \A m \in Names \ {n} : reg'[m] = reg[m] /\ attrs'[m] = attrs[m]
    BY <1>1, <1>2 DEF TypeInv, TypeOK
  <1>5. /\ req'[t].pc = "pop" /\ req'[t].name = n
        /\ \A u \in Threads \ {t} : req'[u] = req[u]
    BY <1>1, <1>2, GotoFacts DEF TypeInv, Stages
  <1> QED BY <1>1, <1>2, <1>3, <1>4, <1>5

LEMMA DropRowInv ==
    ASSUME TypeInv, Inv, NEW t \in Threads, DropTenant(t) \/ DeleteRow(t)
    PROVE  Inv'
  <1> DEFINE n   == req[t].name
             tid == req[t].tid
  <1>1. /\ n \in Names /\ tid \in Ids /\ reg[n] = tid /\ Deleting(t)
        /\ reg'[n] = None /\ attrs'[n] = {} /\ tables'[tid] = NoTables
        /\ \A m \in Names \ {n} : reg'[m] = reg[m] /\ attrs'[m] = attrs[m]
        /\ \A i \in Ids \ {tid} : tables'[i] = tables[i]
        /\ req'[t].pc = "pop" /\ req'[t].name = n
        /\ \A u \in Threads \ {t} : req'[u] = req[u]
        /\ UNCHANGED << backend, cache, store >> /\ torn' \in {torn, torn \ {n}}
    BY DropRowFacts
  <1>2. /\ t \in Deleters /\ \A u \in Threads : store[u] = NoStore
        /\ \A u \in Threads \ {t} : req[u].pc = "idle"
    BY <1>1, DeletingFacts
  <1> HIDE DEF n, tid
  <1>3. Exclusion'
    BY <1>1, <1>2 DEF Exclusion, Deleting, At
  <1>4. Placed'
    BY <1>1, <1>2 DEF Placed, PlacedAt
  <1>5. \A m \in Names \ {n} : reg[m] # None => reg[m] \in Ids /\ reg[m] # tid
    BY <1>1, ConstantFacts DEF Inv, RowsAreWhole, TypeInv, TypeOK
  <1>6. RowsAreWhole'
    <2>1. \A m, k \in Names : (reg'[m] # None /\ reg'[m] = reg'[k]) => m = k
      BY <1>1, <1>5 DEF Inv, RowsAreWhole
    <2>2. \A m \in Names : reg'[m] = None => attrs'[m] = {}
      BY <1>1, <1>5 DEF Inv, RowsAreWhole
    <2>3. \A m \in Names, b \in Kinds :
            reg'[m] # None => \/ backend' = "sqlite" /\ m \in torn'
                              \/ tables'[reg'[m]][b] # None
      BY <1>1, <1>5 DEF Inv, RowsAreWhole
    <2> QED BY <2>1, <2>2, <2>3 DEF RowsAreWhole
  <1>7. NoOrphanTables'
    <2>1. \A i \in Ids \ {tid} : i \in UsedIds => i \in UsedIds'
      BY <1>1 DEF UsedIds
    <2> QED BY <1>1, <2>1 DEF Inv, NoOrphanTables, NoTables
  <1> QED BY <1>3, <1>4, <1>6, <1>7 DEF Inv

LEMMA PopInv ==
    ASSUME ExclusiveDeletes, TypeInv, Inv, NEW t \in Threads, Pop(t)
    PROVE  Inv'
  BY FreeStep DEF Pop

\* What a crash leaves of the memory of the threads and of the caches.
LEMMA CrashFacts ==
    ASSUME TypeInv, NEW q \in Procs, Crash(q)
    PROVE  /\ UNCHANGED << backend, reg, attrs, tables, torn >>
           /\ \A t \in Threads :
                IF ProcOf[t] = q THEN req'[t].pc = "idle" /\ store'[t] = NoStore
                                 ELSE req'[t] = req[t] /\ store'[t] = store[t]
           /\ \A p \in Procs, n \in Names :
                cache'[p][n] = IF p = q THEN None ELSE cache[p][n]
  BY ConstantFacts DEF Crash, TypeInv, TypeOK

LEMMA CrashInv ==
    ASSUME TypeInv, Inv, NEW q \in Procs, Crash(q)
    PROVE  Inv'
  <1>1. /\ UNCHANGED << backend, reg, attrs, tables, torn >>
        /\ \A t \in Threads : /\ req'[t].pc = "idle" \/ req'[t] = req[t]
                              /\ store'[t] = NoStore \/ store'[t] = store[t]
    BY CrashFacts
  <1>2. Exclusion' /\ Placed'
    BY <1>1 DEF Inv, Exclusion, Placed, PlacedAt, Deleting, At
  <1>3. RowsAreWhole' /\ NoOrphanTables'
    BY <1>1 DEF Inv, RowsAreWhole, NoOrphanTables, UsedIds
  <1> QED BY <1>2, <1>3 DEF Inv
-----------------------------------------------------------------------------
LEMMA InvInit == Init => Inv
  <1> SUFFICES ASSUME Init PROVE Inv
    OBVIOUS
  <1>1. /\ \A t \in Threads : req[t].pc = "idle" /\ store[t] = NoStore
        /\ \A n \in Names : reg[n] = None /\ attrs[n] = {}
        /\ \A i \in Ids : tables[i] = NoTables
    BY ConstantFacts DEF Init
  <1>2. Exclusion /\ Placed
    BY <1>1 DEF Exclusion, Placed, PlacedAt, Deleting
  <1>3. RowsAreWhole /\ NoOrphanTables
    BY <1>1 DEF RowsAreWhole, NoOrphanTables
  <1> QED BY <1>2, <1>3 DEF Inv

LEMMA InvNext == ExclusiveDeletes /\ TypeInv /\ Inv /\ [Next]_vars => Inv'
  <1> SUFFICES ASSUME ExclusiveDeletes, TypeInv, Inv, [Next]_vars PROVE Inv'
    OBVIOUS
  <1>1. CASE UNCHANGED vars
    BY <1>1 DEF vars, Inv, Exclusion, Placed, PlacedAt, RowsAreWhole, NoOrphanTables, UsedIds,
                Deleting, At
  <1> QED BY <1>1, ReadInv, BuildInv, DeleteInv, MergeInv, SettingsInv, InsertInv,
             EnsureInv, FillInv, WriteInv, EndRequestInv, DropTableInv, DropRowInv, PopInv,
             CrashInv DEF Next

LEMMA InvHolds == ASSUME ExclusiveDeletes PROVE Spec => [](TypeInv /\ Inv)
  <1>1. Init => TypeInv /\ Inv
    BY TypeInvInit, InvInit
  <1>2. TypeInv /\ Inv /\ [Next]_vars => (TypeInv /\ Inv)'
    BY TypeInvNext, InvNext
  <1> QED BY <1>1, <1>2, PTL DEF Spec
-----------------------------------------------------------------------------
\* Settings updates of one tenant come one at a time ...
OneMerge ==
    \A t, u \in Threads :
        (At(t, "merge") /\ At(u, "merge") /\ req[t].name = req[u].name) => t = u

\* ... and each will write all the keys that are saved.
Merges ==
    /\ OneMerge
    /\ \A t \in Threads : At(t, "merge") => attrs[req[t].name] \cap Keys \subseteq req[t].keys

\* A row that goes takes what was saved with it, whatever runs beside.
LEMMA RowGoesFacts ==
    ASSUME TypeInv, NEW t \in Threads, DropTenant(t) \/ DeleteRow(t)
    PROVE  LET n == req[t].name IN
           /\ n \in Names /\ reg'[n] = None /\ attrs'[n] = {}
           /\ \A m \in Names \ {n} : reg'[m] = reg[m] /\ attrs'[m] = attrs[m]
           /\ req'[t].pc = "pop" /\ \A u \in Threads \ {t} : req'[u] = req[u]
  <1> DEFINE n == req[t].name
  <1>1. /\ n \in Names /\ req[t].tid \in Ids /\ Goto(t, "pop", n, req[t].tid)
        /\ reg' = [reg EXCEPT ![n] = None] /\ attrs' = [attrs EXCEPT ![n] = {}]
    BY AtFacts DEF DropTenant, DeleteRow, At
  <1>2. req'[t].pc = "pop" /\ \A u \in Threads \ {t} : req'[u] = req[u]
    BY <1>1, GotoFacts DEF TypeInv, Stages
  <1> QED BY <1>1, <1>2 DEF TypeInv, TypeOK

\* No merge begins, and what it has read does not grow.
LEMMA MergeStep ==
    ASSUME Merges,
           \A t \in Threads : req'[t].pc = "merge" =>
               /\ req'[t] = req[t]
               /\ attrs'[req[t].name] \cap Keys \subseteq attrs[req[t].name] \cap Keys
    PROVE  Merges'
  BY DEF Merges, OneMerge, At

\* The ways the requests go on, none of them into a merge.
LEMMA OtherRequests ==
    ASSUME TypeInv, NEW t \in Threads,
           \/ UNCHANGED req \/ Return(t)
           \/ \E pc \in Stages \ {"merge"}, n \in Names \cup {None}, tid \in Ids \cup {None} :
                Goto(t, pc, n, tid)
           \/ /\ req[t].pc # "merge" /\ req[t].base < Len(Bases)
              /\ req' = [req EXCEPT ![t].base = @ + 1]
    PROVE  \A u \in Threads : req'[u].pc = "merge" => req'[u] = req[u]
  <1>1. CASE Return(t)
    BY <1>1, ReturnFacts DEF TypeInv
  <1>2. ASSUME NEW pc \in Stages \ {"merge"}, NEW n \in Names \cup {None},
               NEW tid \in Ids \cup {None}, Goto(t, pc, n, tid)
        PROVE  \A u \in Threads : req'[u].pc = "merge" => req'[u] = req[u]
    <2>1. req'[t].pc = pc /\ \A u \in Threads \ {t} : req'[u] = req[u]
      BY <1>2, GotoFacts DEF TypeInv
    <2> QED BY <2>1
  <1>3. CASE /\ req[t].pc # "merge" /\ req[t].base < Len(Bases)
             /\ req' = [req EXCEPT ![t].base = @ + 1]
    <2>1. req'[t].pc = req[t].pc /\ \A u \in Threads \ {t} : req'[u] = req[u]
      BY <1>3, NextBaseFacts DEF TypeInv
    <2> QED BY <1>3, <2>1
  <1> QED BY <1>1, <1>2, <1>3

LEMMA MergesNext == SerialSettings /\ TypeInv /\ Merges /\ [Next]_vars => Merges'
  <1> SUFFICES ASSUME SerialSettings, TypeInv, Merges, [Next]_vars PROVE Merges'
    OBVIOUS
  <1>1. CASE UNCHANGED vars
    BY <1>1 DEF vars, Merges, OneMerge, At
  <1>2. ASSUME UNCHANGED attrs, NEW t \in Threads,
               \/ UNCHANGED req \/ Return(t)
               \/ \E pc \in Stages \ {"merge"}, n \in Names \cup {None}, tid \in Ids \cup {None} :
                    Goto(t, pc, n, tid)
               \/ /\ req[t].pc # "merge" /\ req[t].base < Len(Bases)
                  /\ req' = [req EXCEPT ![t].base = @ + 1]
        PROVE  Merges'
    BY <1>2, OtherRequests, MergeStep
  <1>3. ASSUME NEW t \in Threads, NEW n \in Names, NEW k \in Keys, MergeSettings(t, n, k)
        PROVE  Merges'
    BY <1>3, MergeFacts DEF Merges, OneMerge, At
  <1>4. ASSUME NEW t \in Threads, SaveSettings(t) PROVE Merges'
    <2>1. /\ req[t].pc = "merge"
          /\ \A m \in Names : m # req[t].name => attrs'[m] = attrs[m]
      BY <1>4, SaveFacts
    <2>2. req'[t].pc = "idle" /\ \A u \in Threads \ {t} : req'[u] = req[u]
      BY <1>4, ReturnFacts DEF SaveSettings, TypeInv
    <2>3. \A u \in Threads \ {t} : req[u].pc = "merge" =>
              req[u].name \in Names /\ req[u].name # req[t].name
      BY <2>1, AtFacts DEF Merges, OneMerge, At
    <2> QED BY <2>1, <2>2, <2>3, MergeStep
  <1>5. ASSUME NEW t \in Threads, NEW n \in Names, NEW c \in Columns, UpdateTenant(t, n, c)
        PROVE  Merges'
    BY <1>5, UpdateFacts, AtFacts, MergeStep
  <1>6. ASSUME NEW t \in Threads, DropTenant(t) \/ DeleteRow(t) PROVE Merges'
    BY <1>6, RowGoesFacts, AtFacts, MergeStep
  <1>7. ASSUME NEW q \in Procs, Crash(q) PROVE Merges'
    BY <1>7, CrashFacts, MergeStep
  <1>8. ASSUME NEW t \in Threads,
               \/ CheckTaken(t) \/ SelectMax(t) \/ Insert(t) \/ EnsureTables(t) \/ EnsureTable(t)
               \/ Fill(t) \/ DropTable(t) \/ Pop(t) \/ Abort(t)
        PROVE  Merges'
    <2>1. /\ req[t].pc # "idle" => req[t].name \in Names
          /\ req[t].tid \in Ids \cup {None} /\ UNCHANGED attrs
      BY <1>8, AtFacts DEF CheckTaken, SelectMax, Insert, EnsureTables, EnsureTable, Fill,
                           DropTable, Pop, Abort
    <2>2. CASE CheckTaken(t) \/ SelectMax(t) \/ Insert(t)
      BY <2>1, <2>2, <1>2 DEF CheckTaken, SelectMax, Insert, Stages, At
    <2>3. CASE EnsureTables(t) \/ EnsureTable(t) \/ DropTable(t)
      BY <2>1, <2>3, <1>2 DEF EnsureTables, EnsureTable, DropTable, Stages, At
    <2>4. CASE Fill(t) \/ Pop(t) \/ Abort(t)
      BY <2>1, <2>4, <1>2 DEF Fill, Pop, Abort
    <2> QED BY <1>8, <2>2, <2>3, <2>4
  <1>9. ASSUME NEW t \in Threads, NEW n \in Names, NEW i \in Ids \cup {None}, Build(t, n, i)
        PROVE  Merges'
    <2>1. reg[n] \in Ids \cup {None} /\ UNCHANGED attrs
      BY <1>9 DEF Build, TypeInv, TypeOK
    <2> QED BY <1>9, <2>1, <1>2 DEF Build, Stages
  <1>10. ASSUME NEW t \in Threads,
                \/ EndRequest(t) \/ \E b \in Kinds : Write(t, b)
                \/ \E n \in Names : Delete(t, n)
         PROVE  Merges'
    <2>1. \A n \in Names : reg[n] \in Ids \cup {None}
      BY DEF TypeInv, TypeOK
    <2> QED BY <1>10, <2>1, <1>2 DEF EndRequest, Write, Delete, Stages
  <1> QED BY <1>1, <1>3, <1>4, <1>5, <1>6, <1>7, <1>8, <1>9, <1>10 DEF Next

LEMMA MergesHold == ASSUME SerialSettings PROVE Spec => [](TypeInv /\ Merges)
  <1>1. Init => TypeInv /\ Merges
    <2>1. Init => Merges
      BY ConstantFacts DEF Init, Merges, OneMerge, At
    <2> QED BY <2>1, TypeInvInit
  <1>2. TypeInv /\ Merges /\ [Next]_vars => (TypeInv /\ Merges)'
    BY TypeInvNext, MergesNext
  <1> QED BY <1>1, <1>2, PTL DEF Spec
-----------------------------------------------------------------------------
\* No cache can be stale of a delete: there is one, or nobody deletes.
CachesAgree == (\A p, q \in Procs : p = q) \/ Deleters = {}

\* The Store objects in use are of tenants on record.
StoresOnRecord ==
    \A t \in Threads : store[t] # NoStore => reg[store[t].name] = store[t].tid

Agreed == StoresOnRecord /\ TenantIsolation /\ CacheIsCurrent

\* Steps on requests alone: none leaves "pop".
LEMMA AgreedStep ==
    ASSUME Agreed, UNCHANGED << reg, tables, cache, store >>,
           \A t \in Threads : req[t].pc = "pop" => req'[t] = req[t]
    PROVE  Agreed'
  BY DEF Agreed, StoresOnRecord, TenantIsolation, CacheIsCurrent, At

\* While nothing is deleted every cached id is on record.
LEMMA CachedIsOnRecord ==
    ASSUME Agreed, \A t \in Threads : ~Deleting(t)
    PROVE  \A q \in Procs, n \in Names : cache[q][n] # None => reg[n] = cache[q][n]
  BY DEF Agreed, CacheIsCurrent, Deleting, At

LEMMA BuildAgrees ==
    ASSUME ExclusiveDeletes, TypeInv, Inv, Agreed, NEW t \in Threads, NEW n \in Names,
           NEW i \in Ids \cup {None}, Build(t, n, i)
    PROVE  Agreed'
  <1>1. /\ UNCHANGED << backend, reg, attrs, tables, torn, cache >> /\ req[t].pc = "idle"
        /\ \A u \in Threads : ~Deleting(u)
    BY NoDelete DEF Build, MayBegin, At, Deleting
  <1>2. CASE Cache(t)[n] # None
    <2> DEFINE s == [name |-> n, tid |-> Cache(t)[n]]
    <2>1. UNCHANGED req /\ store' = [store EXCEPT ![t] = s]
      BY <1>2 DEF Build
    <2>2. reg[n] = Cache(t)[n]
      BY <1>1, <1>2, ConstantFacts, CachedIsOnRecord DEF Cache
    <2>3. \A u \in Threads : store'[u] = IF u = t THEN s ELSE store[u]
      BY <2>1 DEF TypeInv, TypeOK
    <2> QED BY <1>1, <2>1, <2>2, <2>3 DEF Agreed, StoresOnRecord, TenantIsolation,
                                          CacheIsCurrent, At
  <1>3. CASE Cache(t)[n] = None
    <2>1. UNCHANGED store /\ \A u \in Threads \ {t} : req'[u] = req[u]
      BY <1>3 DEF Build, Goto, TypeInv, TypeOK
    <2> QED BY <1>1, <2>1, AgreedStep
  <1> QED BY <1>2, <1>3

LEMMA InsertAgrees ==
    ASSUME ExclusiveDeletes, TypeInv, Inv, Agreed, NEW t \in Threads, Insert(t)
    PROVE  Agreed'
  <1> DEFINE n   == req[t].name
             tid == req[t].tid
  <1>1. CASE UNCHANGED << reg, tables >>
    <2>1. req[t].pc = "insert" /\ UNCHANGED << cache, store >>
      BY DEF Insert, At
    <2>2. \A u \in Threads \ {t} : req'[u] = req[u]
      BY DEF Insert, Goto, Return, TypeInv, TypeOK
    <2> QED BY <1>1, <2>1, <2>2, AgreedStep
  <1>2. CASE reg' # reg \/ tables' # tables
    <2>1. /\ n \in Names /\ tid \in Ids /\ reg[n] = None /\ tid \notin UsedIds
          /\ reg'[n] = tid /\ \A m \in Names \ {n} : reg'[m] = reg[m]
          /\ tables'[tid] = Created(tables[tid])
          /\ \A i \in Ids \ {tid} : tables'[i] = tables[i]
          /\ req[t].pc = "insert"
          /\ UNCHANGED << cache, store >>
      BY <1>2, InsertFacts
    <2> HIDE DEF n, tid
    <2>2. \A u \in Threads : ~Deleting(u)
      BY <2>1, NoDelete DEF Deleting
    <2>3. tables[tid] = NoTables /\ \A m \in Names : reg[m] # tid
      BY <2>1, ConstantFacts DEF Inv, NoOrphanTables, UsedIds
    <2>4. \A b \in Kinds : tables'[tid][b] = {}
      BY <2>1, <2>3 DEF Created, NoTables
    <2>5. StoresOnRecord'
      BY <2>1, ConstantFacts DEF Agreed, StoresOnRecord, TypeInv, Shaped
    <2>6. TenantIsolation'
      <3>1. \A m \in Names : reg[m] # None => reg[m] \in Ids /\ reg[m] # tid
        BY <2>3 DEF TypeInv, TypeOK
      <3> QED BY <2>1, <2>4, <3>1 DEF Agreed, TenantIsolation
    <2>7. CacheIsCurrent'
      BY <2>1, <2>2, CachedIsOnRecord DEF CacheIsCurrent
    <2> QED BY <2>5, <2>6, <2>7 DEF Agreed
  <1> QED BY <1>1, <1>2

LEMMA EnsureAgrees ==
    ASSUME TypeInv, Inv, Agreed, NEW t \in Threads, EnsureTables(t) \/ EnsureTable(t)
    PROVE  Agreed'
  <1>1. /\ req[t].pc = "ensure" /\ UNCHANGED << reg, cache, store >>
        /\ \A i \in Ids, b \in Kinds : tables'[i][b] \in {tables[i][b], {}}
        /\ \A u \in Threads \ {t} : req'[u] = req[u]
    BY EnsureFacts
  <1>2. \A n \in Names : reg[n] # None => reg[n] \in Ids
    BY DEF TypeInv, TypeOK
  <1>3. StoresOnRecord' /\ CacheIsCurrent'
    BY <1>1 DEF Agreed, StoresOnRecord, CacheIsCurrent, At
  <1>4. TenantIsolation'
    BY <1>1, <1>2 DEF Agreed, TenantIsolation
  <1> QED BY <1>3, <1>4 DEF Agreed

LEMMA FillAgrees ==
    ASSUME ExclusiveDeletes, TypeInv, Inv, Agreed, NEW t \in Threads, Fill(t)
    PROVE  Agreed'
  <1> DEFINE s == [name |-> req[t].name, tid |-> req[t].tid]
  <1>1. /\ req[t].pc = "fill" /\ s.name \in Names /\ reg[s.name] = s.tid
        /\ UNCHANGED << backend, reg, attrs, tables, torn >>
        /\ \A u \in Threads : store'[u] = IF u = t THEN s ELSE store[u]
        /\ \A q \in Procs, m \in Names :
             cache'[q][m] = cache[q][m] \/ (m = s.name /\ cache'[q][m] = s.tid)
    BY FillFacts
  <1> HIDE DEF s
  <1>2. \A u \in Threads : ~Deleting(u)
    BY <1>1, NoDelete DEF Deleting
  <1>3. StoresOnRecord' /\ TenantIsolation'
    BY <1>1 DEF Agreed, StoresOnRecord, TenantIsolation
  <1>4. CacheIsCurrent'
    BY <1>1, <1>2, CachedIsOnRecord DEF CacheIsCurrent
  <1> QED BY <1>3, <1>4 DEF Agreed

\* A Store object writes to the tables of its own name: its id is on record for
\* that name and, ids being unique, for no other.
LEMMA WriteAgrees ==
    ASSUME TypeInv, Inv, Agreed, NEW t \in Threads, NEW b \in Kinds, Write(t, b)
    PROVE  Agreed'
  <1> DEFINE s == store[t]
  <1>1. /\ UNCHANGED << backend, reg, attrs, torn, cache, store, req >>
        /\ s # NoStore /\ s.tid \in Ids /\ s.name \in Names
        /\ tables[s.tid][b] # None
        /\ tables'[s.tid][b] = tables[s.tid][b] \cup {s.name}
        /\ \A c \in Kinds \ {b} : tables'[s.tid][c] = tables[s.tid][c]
        /\ \A j \in Ids \ {s.tid} : tables'[j] = tables[j]
    BY WriteFacts
  <1>2. reg[s.name] = s.tid
    BY <1>1 DEF Agreed, StoresOnRecord
  <1> HIDE DEF s
  <1>3. \A n \in Names : reg[n] # None => reg[n] \in Ids /\ (reg[n] = s.tid => n = s.name)
    BY <1>1, <1>2, ConstantFacts DEF TypeInv, TypeOK, Inv, RowsAreWhole
  <1>4. StoresOnRecord' /\ CacheIsCurrent'
    BY <1>1 DEF Agreed, StoresOnRecord, CacheIsCurrent, At
  <1>5. TenantIsolation'
    BY <1>1, <1>3 DEF Agreed, TenantIsolation
  <1> QED BY <1>4, <1>5 DEF Agreed

LEMMA EndRequestAgrees ==
    ASSUME TypeInv, Agreed, NEW t \in Threads, EndRequest(t)
    PROVE  Agreed'
  <1>1. /\ UNCHANGED << reg, tables, cache, req >>
        /\ \A u \in Threads : store'[u] = IF u = t THEN NoStore ELSE store[u]
    BY DEF EndRequest, TypeInv, TypeOK
  <1> QED BY <1>1 DEF Agreed, StoresOnRecord, TenantIsolation, CacheIsCurrent, At

LEMMA DropTableAgrees ==
    ASSUME TypeInv, Inv, Agreed, NEW t \in Threads, DropTable(t)
    PROVE  Agreed'
  <1> DEFINE tid == req[t].tid
             b   == Bases[req[t].base]
  <1>1. /\ req[t].pc = "drop" /\ UNCHANGED << reg, cache, store >>
        /\ tid \in Ids /\ tables'[tid][b] = None
        /\ \A c \in Kinds \ {b} : tables'[tid][c] = tables[tid][c]
        /\ \A j \in Ids \ {tid} : tables'[j] = tables[j]
    BY DropTableFacts
  <1>2. \A u \in Threads \ {t} : req'[u] = req[u]
    BY DEF DropTable, Goto, TypeInv, TypeOK
  <1> HIDE DEF tid, b
  <1>3. \A n \in Names : reg[n] # None => reg[n] \in Ids
    BY DEF TypeInv, TypeOK
  <1>4. StoresOnRecord' /\ CacheIsCurrent'
    BY <1>1, <1>2 DEF Agreed, StoresOnRecord, CacheIsCurrent, At
  <1>5. TenantIsolation'
    BY <1>1, <1>3 DEF Agreed, TenantIsolation
  <1> QED BY <1>4, <1>5 DEF Agreed

\* The row goes while its id may be in the one cache there is.
LEMMA DropRowAgrees ==
    ASSUME CachesAgree, TypeInv, Inv, Agreed, NEW t \in Threads, DropTenant(t) \/ DeleteRow(t)
    PROVE  Agreed'
  <1> DEFINE n   == req[t].name
             tid == req[t].tid
  <1>1. /\ n \in Names /\ tid \in Ids /\ reg[n] = tid /\ Deleting(t)
        /\ reg'[n] = None
        /\ \A m \in Names \ {n} : reg'[m] = reg[m]
        /\ \A i \in Ids \ {tid} : tables'[i] = tables[i]
        /\ req'[t].pc = "pop" /\ req'[t].name = n
        /\ UNCHANGED << cache, store >>
    BY DropRowFacts
  <1>2. /\ t \in Deleters /\ \A u \in Threads : store[u] = NoStore
        /\ \A u \in Threads \ {t} : req[u].pc = "idle"
    BY <1>1, DeletingFacts
  <1>3. req[t].pc # "pop"
    BY DEF DropTenant, DeleteRow, At
  <1> HIDE DEF n, tid
  <1>4. StoresOnRecord'
    BY <1>1, <1>2 DEF StoresOnRecord
  <1>5. TenantIsolation'
    <2>1. \A m \in Names \ {n} : reg[m] # None => reg[m] \in Ids /\ reg[m] # tid
      BY <1>1, ConstantFacts DEF Inv, RowsAreWhole, TypeInv, TypeOK
    <2> QED BY <1>1, <2>1 DEF Agreed, TenantIsolation
  <1>6. CacheIsCurrent'
    <2>1. \A q \in Procs : ProcOf[t] = q
      BY <1>2, ConstantFacts DEF CachesAgree
    <2>2. \A q \in Procs, m \in Names : cache[q][m] # None => reg[m] = cache[q][m]
      BY <1>2, <1>3 DEF Agreed, CacheIsCurrent, At
    <2> QED BY <1>1, <2>1, <2>2 DEF CacheIsCurrent, At
  <1> QED BY <1>4, <1>5, <1>6 DEF Agreed

LEMMA PopAgrees ==
    ASSUME CachesAgree, TypeInv, Inv, Agreed, NEW t \in Threads, Pop(t)
    PROVE  Agreed'
  <1> DEFINE n == req[t].name
  <1>1. /\ req[t].pc = "pop" /\ Deleting(t) /\ UNCHANGED << reg, tables, store >> /\ n \in Names
    BY AtFacts DEF Pop, At, Deleting
  <1>2. t \in Deleters /\ \A u \in Threads \ {t} : req[u].pc = "idle"
    BY <1>1, DeletingFacts
  <1>3. \A q \in Procs : /\ cache'[q][n] = None
                         /\ \A m \in Names \ {n} : cache'[q][m] = cache[q][m]
    <2>1. \A q \in Procs : ProcOf[t] = q
      BY <1>2, ConstantFacts DEF CachesAgree
    <2>2. /\ cache'[ProcOf[t]][n] = None
          /\ \A q \in Procs, m \in Names :
               q # ProcOf[t] \/ m # n => cache'[q][m] = cache[q][m]
      BY <1>1, CacheFacts DEF Pop, TypeInv
    <2> QED BY <2>1, <2>2
  <1>4. StoresOnRecord' /\ TenantIsolation'
    BY <1>1 DEF Agreed, StoresOnRecord, TenantIsolation
  <1>5. CacheIsCurrent'
    BY <1>1, <1>2, <1>3 DEF Agreed, CacheIsCurrent, At
  <1> QED BY <1>4, <1>5 DEF Agreed

LEMMA CrashAgrees ==
    ASSUME CachesAgree, TypeInv, Inv, Agreed, NEW q \in Procs, Crash(q)
    PROVE  Agreed'
  <1>1. /\ UNCHANGED << reg, tables >>
        /\ \A t \in Threads : store'[t] = NoStore \/ store'[t] = store[t]
        /\ \A p \in Procs, n \in Names :
             cache'[p][n] = IF p = q THEN None ELSE cache[p][n]
    BY CrashFacts
  <1>2. StoresOnRecord' /\ TenantIsolation'
    BY <1>1 DEF Agreed, StoresOnRecord, TenantIsolation
  <1>3. CacheIsCurrent'
    <2>1. CASE \A p \in Procs : p = q
      BY <1>1, <2>1 DEF CacheIsCurrent
    <2>2. CASE Deleters = {}
      <3>1. \A t \in Threads : ~Deleting(t)
        BY <2>2, DeletingFacts
      <3> QED BY <1>1, <3>1, CachedIsOnRecord DEF CacheIsCurrent
    <2> QED BY <2>1, <2>2 DEF CachesAgree
  <1> QED BY <1>2, <1>3 DEF Agreed

\* The other steps change requests alone, or what is saved of a tenant.
LEMMA OthersAgree ==
    ASSUME TypeInv, Agreed, NEW t \in Threads,
           \/ CheckTaken(t) \/ SelectMax(t) \/ Abort(t) \/ SaveSettings(t)
           \/ \E n \in Names : Delete(t, n)
           \/ \E n \in Names, c \in Columns : UpdateTenant(t, n, c)
           \/ \E n \in Names, k \in Keys : MergeSettings(t, n, k)
    PROVE  Agreed'
  <1>1. UNCHANGED << reg, tables, cache, store >> /\ (req[t].pc # "pop" \/ UNCHANGED req)
    BY DEF CheckTaken, SelectMax, Abort, SaveSettings, Delete, MayDelete, MayBegin,
           UpdateTenant, MergeSettings, At
  <1>2. \A u \in Threads \ {t} : req'[u] = req[u]
    BY DEF CheckTaken, SelectMax, Abort, SaveSettings, Delete, UpdateTenant, MergeSettings,
           Goto, Return, TypeInv, TypeOK
  <1> QED BY <1>1, <1>2, AgreedStep

LEMMA AgreedNext ==
    ExclusiveDeletes /\ CachesAgree /\ TypeInv /\ Inv /\ Agreed /\ [Next]_vars => Agreed'
  <1> SUFFICES ASSUME ExclusiveDeletes, CachesAgree, TypeInv, Inv, Agreed, [Next]_vars
               PROVE  Agreed'
    OBVIOUS
  <1>1. CASE UNCHANGED vars
    BY <1>1, AgreedStep DEF vars
  <1>2. ASSUME NEW t \in Threads, NEW n \in Names, NEW i \in Ids \cup {None}, Build(t, n, i)
        PROVE  Agreed'
    BY <1>2, BuildAgrees
  <1>3. ASSUME NEW t \in Threads, Insert(t) \/ EnsureTables(t) \/ EnsureTable(t) \/ Fill(t)
        PROVE  Agreed'
    BY <1>3, InsertAgrees, EnsureAgrees, FillAgrees
  <1>4. ASSUME NEW t \in Threads, EndRequest(t) \/ \E b \in Kinds : Write(t, b) PROVE Agreed'
    BY <1>4, WriteAgrees, EndRequestAgrees
  <1>5. ASSUME NEW t \in Threads, DropTenant(t) \/ DropTable(t) \/ DeleteRow(t) \/ Pop(t)
        PROVE  Agreed'
    BY <1>5, DropTableAgrees, DropRowAgrees, PopAgrees
  <1>6. ASSUME NEW t \in Threads,
               \/ CheckTaken(t) \/ SelectMax(t) \/ Abort(t) \/ SaveSettings(t)
               \/ \E n \in Names : Delete(t, n)
               \/ \E n \in Names, c \in Columns : UpdateTenant(t, n, c)
               \/ \E n \in Names, k \in Keys : MergeSettings(t, n, k)
        PROVE  Agreed'
    BY <1>6, OthersAgree
  <1>7. ASSUME NEW q \in Procs, Crash(q) PROVE Agreed'
    BY <1>7, CrashAgrees
  <1> QED BY <1>1, <1>2, <1>3, <1>4, <1>5, <1>6, <1>7 DEF Next

LEMMA AgreedHolds ==
    ASSUME ExclusiveDeletes, CachesAgree PROVE Spec => [](TypeInv /\ Inv /\ Agreed)
  <1>1. Init => TypeInv /\ Inv /\ Agreed
    <2>1. Init => Agreed
      BY ConstantFacts DEF Init, Agreed, StoresOnRecord, TenantIsolation, CacheIsCurrent
    <2> QED BY <2>1, TypeInvInit, InvInit
  <1>2. TypeInv /\ Inv /\ Agreed /\ [Next]_vars => (TypeInv /\ Inv /\ Agreed)'
    BY TypeInvNext, InvNext, AgreedNext
  <1> QED BY <1>1, <1>2, PTL DEF Spec
-----------------------------------------------------------------------------
\* Which steps change a row of the registry, or what is saved of a tenant.
LEMMA ChangeFacts ==
    ASSUME TypeInv, [Next]_vars, NEW n \in Names, reg[n] # reg'[n] \/ attrs[n] # attrs'[n]
    PROVE  \E t \in Threads :
              \/ Insert(t) /\ (reg' # reg \/ tables' # tables) /\ req[t].name = n
              \/ DropTenant(t) \/ DeleteRow(t)
              \/ SaveSettings(t) /\ req[t].name = n
              \/ \E c \in Columns : UpdateTenant(t, n, c)
  <1>1. ~ UNCHANGED vars
    BY DEF vars
  <1>2. ASSUME NEW t \in Threads, Insert(t), ~((reg' # reg \/ tables' # tables) /\ req[t].name = n)
        PROVE  FALSE
    BY <1>2, InsertFacts DEF Insert
  <1>3. ASSUME NEW t \in Threads, SaveSettings(t), req[t].name # n PROVE FALSE
    BY <1>3, SaveFacts DEF SaveSettings
  <1>4. ASSUME NEW t \in Threads, NEW m \in Names, NEW c \in Columns, UpdateTenant(t, m, c), m # n
        PROVE  FALSE
    BY <1>4 DEF UpdateTenant, TypeInv, TypeOK
  <1>5. \/ \E t \in Threads :
             \/ Insert(t) \/ DropTenant(t) \/ DeleteRow(t) \/ SaveSettings(t)
             \/ \E m \in Names, c \in Columns : UpdateTenant(t, m, c)
        \/ UNCHANGED << reg, attrs >>
    BY <1>1 DEF Next, Delete, Build, CheckTaken, SelectMax, EnsureTables, EnsureTable, Fill,
                Write, EndRequest, MergeSettings, DropTable, Pop, Abort, Crash
  <1> QED BY <1>2, <1>3, <1>4, <1>5
-----------------------------------------------------------------------------
\* Where deletes are exclusive an id without a tenant has no tables, of a deleted
\* tenant or of one whose insert was refused (get_or_create_tenant and
\* delete_tenant of both databases), whichever processes share the database.
THEOREM NothingIsLeftOver == ASSUME ExclusiveDeletes PROVE Spec => []NoOrphanTables
  <1>1. Inv => NoOrphanTables
    BY DEF Inv
  <1> QED BY <1>1, InvHolds, PTL

\* There a new tenant has empty tables and no settings, also under the name or
\* the id of one that was deleted.
THEOREM NewTenantsAreEmpty == ASSUME ExclusiveDeletes PROVE Spec => NewTenantStartsEmpty
  <1> DEFINE Empty == \A n \in Names :
                 (reg[n] = None /\ reg'[n] # None) =>
                    attrs'[n] = {} /\ \A b \in Kinds : tables'[reg'[n]][b] = {}
  <1>1. TypeInv /\ Inv /\ [Next]_vars => Empty
    <2> SUFFICES ASSUME TypeInv, Inv, [Next]_vars, NEW n \in Names,
                        reg[n] = None, reg'[n] # None
                 PROVE  attrs'[n] = {} /\ \A b \in Kinds : tables'[reg'[n]][b] = {}
      OBVIOUS
    <2>1. PICK t \in Threads : Insert(t) /\ (reg' # reg \/ tables' # tables) /\ req[t].name = n
      BY ChangeFacts, DropRowFacts DEF SaveSettings, UpdateTenant
    <2>2. /\ reg'[n] = req[t].tid /\ req[t].tid \in Ids /\ req[t].tid \notin UsedIds
          /\ tables'[req[t].tid] = Created(tables[req[t].tid]) /\ attrs' = attrs
      BY <2>1, InsertFacts
    <2>3. tables[req[t].tid] = NoTables /\ attrs[n] = {}
      BY <2>2 DEF Inv, NoOrphanTables, RowsAreWhole
    <2> QED BY <2>2, <2>3 DEF Created, NoTables
  <1> QED BY <1>1, InvHolds, PTL DEF Spec, NewTenantStartsEmpty

\* Where settings updates of a tenant come one at a time none of them is lost
\* while its row stays (update_tenant, update_shipping_settings), whatever is
\* deleted meanwhile and however many processes there are.
THEOREM NoUpdateIsLost == ASSUME SerialSettings PROVE Spec => UpdatesAreKept
  <1> DEFINE Kept == \A n \in Names :
                 (reg[n] # None /\ reg'[n] = reg[n]) => attrs[n] \subseteq attrs'[n]
  <1>1. TypeInv /\ Merges /\ [Next]_vars => Kept
    <2> SUFFICES ASSUME TypeInv, Merges, [Next]_vars, NEW n \in Names,
                        reg[n] # None, reg'[n] = reg[n], attrs[n] # attrs'[n]
                 PROVE  attrs[n] \subseteq attrs'[n]
      OBVIOUS
    <2>1. PICK t \in Threads :
              \/ Insert(t) /\ (reg' # reg \/ tables' # tables) /\ req[t].name = n
              \/ DropTenant(t) \/ DeleteRow(t)
              \/ SaveSettings(t) /\ req[t].name = n
              \/ \E c \in Columns : UpdateTenant(t, n, c)
      BY ChangeFacts
    <2>2. CASE Insert(t) /\ (reg' # reg \/ tables' # tables) /\ req[t].name = n
      BY <2>2, InsertFacts
    <2>3. CASE DropTenant(t) \/ DeleteRow(t)
      BY <2>3, RowGoesFacts
    <2>4. CASE SaveSettings(t) /\ req[t].name = n
      <3>1. attrs'[n] = (attrs[n] \ Keys) \cup req[t].keys /\ req[t].pc = "merge"
        BY <2>4, SaveFacts
      <3>2. attrs[n] \cap Keys \subseteq req[t].keys
        BY <2>4, <3>1 DEF Merges, At
      <3> QED BY <3>1, <3>2
    <2>5. ASSUME NEW c \in Columns, UpdateTenant(t, n, c) PROVE attrs[n] \subseteq attrs'[n]
      BY <2>5, UpdateFacts
    <2> QED BY <2>1, <2>2, <2>3, <2>4, <2>5
  <1> QED BY <1>1, MergesHold, PTL DEF Spec, UpdatesAreKept

\* In one process whose deletes are exclusive, or in many that delete nothing, the
\* tables of a tenant hold its own rows only, whatever raises and whenever it
\* crashes: ids are used again, but nobody holds the old one.
THEOREM TenantsAreIsolated ==
    ASSUME ExclusiveDeletes, CachesAgree PROVE Spec => []TenantIsolation
  <1>1. Agreed => TenantIsolation
    BY DEF Agreed
  <1> QED BY <1>1, AgreedHolds, PTL

\* There a cached id is the id on record, unless its tenant is being deleted
\* (_tenant_ids of the Database handles).
THEOREM CachesAreCurrent ==
    ASSUME ExclusiveDeletes, CachesAgree PROVE Spec => []CacheIsCurrent
  <1>1. Agreed => CacheIsCurrent
    BY DEF Agreed
  <1> QED BY <1>1, AgreedHolds, PTL

\* There a Store object has its row and all its tables, in both databases, but
\* for a tenant whose delete SQLite left half done (get_or_create_tenant's cache
\* hit, the DROP loop of delete_tenant).
THEOREM StoresAreUsable ==
    ASSUME ExclusiveDeletes, CachesAgree PROVE Spec => []StoreIsUsable
  <1>1. TypeInv /\ Inv /\ Agreed => StoreIsUsable
    <2> SUFFICES ASSUME TypeInv, Inv, Agreed, NEW t \in Threads, store[t] # NoStore
                 PROVE  /\ reg[store[t].name] = store[t].tid
                        /\ \/ backend = "sqlite" /\ store[t].name \in torn
                           \/ \A b \in Kinds : tables[store[t].tid][b] # None
      BY DEF StoreIsUsable
    <2>1. store[t].name \in Names /\ store[t].tid \in Ids
      BY DEF TypeInv, Shaped
    <2> QED BY <2>1, ConstantFacts DEF Agreed, StoresOnRecord, Inv, RowsAreWhole
  <1> QED BY <1>1, AgreedHolds, PTL
=============================================================================
