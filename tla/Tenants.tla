------------------------------- MODULE Tenants -------------------------------
(***************************************************************************)
(* The tenant registry of the SQL stores: the tenants table, the tables    *)
(* of each tenant id, the id cache of every process's Database handle, and *)
(* the Store objects built from it.                                        *)
(*                                                                         *)
(* Each SQL statement that commits on its own is a step, and so is each    *)
(* statement that reads what a later one relies on.  In SQLite a DROP or a *)
(* CREATE outside a transaction commits at once; Postgres runs each with   *)
(* block as one transaction.  Rows are tagged with the tenant whose store  *)
(* wrote them; of the columns and of the keys in shipping_settings only    *)
(* which ones were saved is kept.                                          *)
(***************************************************************************)
EXTENDS Naturals, Sequences, FiniteSets

CONSTANTS
    Names,           \* tenant names
    Threads,         \* threads that use the handles
    Procs,           \* processes, one Database handle with one cache each
    ProcOf,          \* thread -> its process
    Deleters,        \* threads that may delete a tenant
    Bases,           \* the table bases of a tenant, in the order they are made
    MaxId,           \* bound on tenant ids
    Backends,        \* the databases to consider, of "sqlite" and "postgres"
    ExclusiveDeletes,\* TRUE: callers let nothing run beside a delete_tenant
    Columns,         \* password_hash, base_url: the columns update_tenant sets
    Keys,            \* the keys of shipping_settings
    SerialSettings,  \* TRUE: callers make one settings update of a tenant at a time
    None             \* Python's None, and a table that does not exist

VARIABLES
    backend,         \* the database in use
    reg,             \* the tenants table: name -> id, None if there is no row
    attrs,           \* the tenants table: name -> the columns and keys saved
    tables,          \* id -> base -> tags of the rows, None if there is no table
    torn,            \* history: tenants of which SQLite has dropped a table and
                     \* neither deleted the row nor made all tables again
    cache,           \* process -> _tenant_ids
    store,           \* thread -> the Store object it holds
    req              \* thread -> the database operation it is in

vars == << backend, reg, attrs, tables, torn, cache, store, req >>

Ids == 0..MaxId

Kinds == {Bases[i] : i \in 1..Len(Bases)}

ASSUME TenantsAssumption ==
    /\ ProcOf \in [Threads -> Procs]
    /\ Deleters \subseteq Threads
    /\ MaxId \in Nat
    /\ Len(Bases) \in Nat \ {0}
    /\ Backends \subseteq {"sqlite", "postgres"}
    /\ {ExclusiveDeletes, SerialSettings} \subseteq BOOLEAN
    /\ Columns \cap Keys = {}
    /\ None \notin Names \cup Ids
    /\ \A rows \in SUBSET Names : rows # None
-----------------------------------------------------------------------------
\* taken, max, insert, ensure, fill: inside get_or_create_tenant.
\* drop, delete, pop: inside delete_tenant.  merge: in update_shipping_settings.
Stages == {"idle", "taken", "max", "insert", "ensure", "fill",
           "drop", "delete", "pop", "merge"}

Requests == [pc : Stages, name : Names \cup {None}, tid : Ids \cup {None},
             base : 1..Len(Bases), keys : SUBSET Keys]

Stores == [name : Names \cup {None}, tid : Ids \cup {None}]

NoStore == [name |-> None, tid |-> None]

Idle == [pc |-> "idle", name |-> None, tid |-> None, base |-> 1, keys |-> {}]

At(t, pc) == req[t].pc = pc

Goto(t, pc, n, tid) ==
    req' = [req EXCEPT ![t] = [Idle EXCEPT !.pc = pc, !.name = n, !.tid = tid]]

Return(t) == req' = [req EXCEPT ![t] = Idle]

Cache(t) == cache[ProcOf[t]]

SetCache(t, n, tid) == cache' = [cache EXCEPT ![ProcOf[t]][n] = tid]

UsedIds == {reg[n] : n \in Names} \ {None}

Deleting(t) == req[t].pc \in {"drop", "delete", "pop"}

\* A request may begin; it has let go of the Store object of the last one.
MayBegin(t) ==
    /\ At(t, "idle")
    /\ store[t] = NoStore
    /\ ExclusiveDeletes => \A u \in Threads : ~Deleting(u)

\* A delete may begin: exclusive ones wait for every request and Store object.
MayDelete(t) ==
    /\ MayBegin(t)
    /\ t \in Deleters
    /\ ExclusiveDeletes => \A u \in Threads : At(u, "idle") /\ store[u] = NoStore

\* CREATE TABLE IF NOT EXISTS of every base of tid.
Created(tabs) == [b \in Kinds |-> IF tabs[b] = None THEN {} ELSE tabs[b]]

NoTables == [b \in Kinds |-> None]
-----------------------------------------------------------------------------
Init ==
    /\ backend \in Backends
    /\ reg    = [n \in Names |-> None]
    /\ attrs  = [n \in Names |-> {}]
    /\ tables = [i \in Ids |-> NoTables]
    /\ torn   = {}
    /\ cache  = [q \in Procs |-> [n \in Names |-> None]]
    /\ store  = [t \in Threads |-> NoStore]
    /\ req    = [t \in Threads |-> Idle]

(* Store(db, name): the constructor calls get_or_create_tenant.  A cached id  *)
(* is used without a look at the database; otherwise the row is read, and a   *)
(* new tenant takes the explicit id or the next one.                          *)
Build(t, n, explicit) ==
    /\ MayBegin(t)
    /\ \/ /\ Cache(t)[n] # None
          /\ store' = [store EXCEPT ![t] = [name |-> n, tid |-> Cache(t)[n]]]
          /\ UNCHANGED req
       \/ /\ Cache(t)[n] = None
          /\ \/ reg[n] # None /\ Goto(t, "ensure", n, reg[n])
             \/ reg[n] = None /\ explicit # None /\ Goto(t, "taken", n, explicit)
             \/ reg[n] = None /\ explicit = None /\ Goto(t, "max", n, None)
          /\ UNCHANGED store
    /\ UNCHANGED << backend, reg, attrs, tables, torn, cache >>

(* SELECT 1 FROM tenants WHERE id=explicit *)
CheckTaken(t) ==
    /\ At(t, "taken")
    /\ IF req[t].tid \in UsedIds
         THEN Return(t)
         ELSE Goto(t, "insert", req[t].name, req[t].tid)
    /\ UNCHANGED << backend, reg, attrs, tables, torn, cache, store >>

\* Mutant: the id is cached as soon as it is chosen, before the insert.
EarlySelectMax(t) ==
    /\ At(t, "max")
    /\ \E tid \in Ids :
         /\ \A i \in UsedIds : i < tid
         /\ tid = 0 \/ tid - 1 \in UsedIds
         /\ Goto(t, "insert", req[t].name, tid)
         /\ SetCache(t, req[t].name, tid)
    /\ UNCHANGED << backend, reg, attrs, tables, torn, store >>

(* SELECT MAX(id): the next id, 0 in an empty registry. *)
SelectMax(t) ==
    /\ At(t, "max")
    /\ \E tid \in Ids :
         /\ \A i \in UsedIds : i < tid
         /\ tid = 0 \/ tid - 1 \in UsedIds
         /\ Goto(t, "insert", req[t].name, tid)
    /\ UNCHANGED << backend, reg, attrs, tables, torn, cache, store >>

\* Mutant: the tables made before the insert is known to succeed.
EagerInsert(t) ==
    LET n   == req[t].name
        tid == req[t].tid
    IN  /\ At(t, "insert")
        /\ tables' = [tables EXCEPT ![tid] = Created(@)]
        /\ IF reg[n] # None \/ tid \in UsedIds
             THEN Return(t) /\ UNCHANGED reg
             ELSE reg' = [reg EXCEPT ![n] = tid] /\ Goto(t, "fill", n, tid)
        /\ UNCHANGED << backend, attrs, torn, cache, store >>

(* INSERT, the DDL and COMMIT are one transaction in both databases; the      *)
(* primary key and the unique name refuse a row that came in between.         *)
Insert(t) ==
    LET n   == req[t].name
        tid == req[t].tid
    IN  /\ At(t, "insert")
        /\ IF reg[n] # None \/ tid \in UsedIds
             THEN Return(t) /\ UNCHANGED << reg, tables >>
             ELSE /\ reg' = [reg EXCEPT ![n] = tid]
                  /\ tables' = [tables EXCEPT ![tid] = Created(@)]
                  /\ Goto(t, "fill", n, tid)
        /\ UNCHANGED << backend, attrs, torn, cache, store >>

\* Mutant: the loop over the bases runs one too far.
OffByOneEnsureTable(t) ==
    /\ At(t, "ensure")
    /\ IF req[t].base <= Len(Bases)
         THEN req' = [req EXCEPT ![t].base = @ + 1]
         ELSE Goto(t, "fill", req[t].name, req[t].tid)
    /\ UNCHANGED << backend, reg, attrs, tables, torn, cache, store >>

(* The tenant had a row: the DDL only, in one transaction in Postgres ...     *)
EnsureTables(t) ==
    LET tid == req[t].tid IN
    /\ backend = "postgres"
    /\ At(t, "ensure")
    /\ tables' = [tables EXCEPT ![tid] = Created(@)]
    /\ Goto(t, "fill", req[t].name, tid)
    /\ UNCHANGED << backend, reg, attrs, torn, cache, store >>

(* ... and one CREATE at a time in SQLite. *)
EnsureTable(t) ==
    LET tid == req[t].tid
        b   == Bases[req[t].base]
    IN  /\ backend = "sqlite"
        /\ At(t, "ensure")
        /\ tables' = [tables EXCEPT ![tid][b] = IF @ = None THEN {} ELSE @]
        /\ IF req[t].base < Len(Bases)
             THEN req' = [req EXCEPT ![t].base = @ + 1] /\ UNCHANGED torn
             ELSE Goto(t, "fill", req[t].name, tid) /\ torn' = torn \ {req[t].name}
        /\ UNCHANGED << backend, reg, attrs, cache, store >>

(* The id is cached after the commit, and the Store object is built. *)
Fill(t) ==
    LET n   == req[t].name
        tid == req[t].tid
    IN  /\ At(t, "fill")
        /\ SetCache(t, n, tid)
        /\ store' = [store EXCEPT ![t] = [name |-> n, tid |-> tid]]
        /\ Return(t)
        /\ UNCHANGED << backend, reg, attrs, tables, torn >>

(* save through a Store object: a row in the table of the id it was built     *)
(* with; there may be no such table any more, which raises.                   *)
Write(t, b) ==
    LET s == store[t] IN
    /\ At(t, "idle")
    /\ s # NoStore
    /\ tables[s.tid][b] # None
    /\ tables' = [tables EXCEPT ![s.tid][b] = @ \cup {s.name}]
    /\ UNCHANGED << backend, reg, attrs, torn, cache, store, req >>

(* The request ends and lets go of its Store object. *)
EndRequest(t) ==
    /\ At(t, "idle")
    /\ store[t] # NoStore
    /\ store' = [store EXCEPT ![t] = NoStore]
    /\ UNCHANGED << backend, reg, attrs, tables, torn, cache, req >>

(* delete_tenant: the id is looked up on a connection of its own ... *)
Delete(t, n) ==
    /\ MayDelete(t)
    /\ reg[n] # None
    /\ Goto(t, "drop", n, reg[n])
    /\ UNCHANGED << backend, reg, attrs, tables, torn, cache, store >>

\* Mutant: the last base is missing from the list of tables to drop.
PartialDropTable(t) ==
    /\ backend = "sqlite"
    /\ At(t, "drop")
    /\ tables' = [tables EXCEPT ![req[t].tid][Bases[req[t].base]] = None]
    /\ torn' = torn \cup {req[t].name}
    /\ IF req[t].base + 1 < Len(Bases)
         THEN req' = [req EXCEPT ![t].base = @ + 1]
         ELSE Goto(t, "delete", req[t].name, req[t].tid)
    /\ UNCHANGED << backend, reg, attrs, cache, store >>

(* ... its tables are dropped in Postgres with the row in one transaction ... *)
DropTenant(t) ==
    /\ backend = "postgres"
    /\ At(t, "drop")
    /\ tables' = [tables EXCEPT ![req[t].tid] = NoTables]
    /\ reg' = [reg EXCEPT ![req[t].name] = None]
    /\ attrs' = [attrs EXCEPT ![req[t].name] = {}]
    /\ Goto(t, "pop", req[t].name, req[t].tid)
    /\ UNCHANGED << backend, torn, cache, store >>

(* ... and one by one in SQLite, before the row is deleted. *)
DropTable(t) ==
    /\ backend = "sqlite"
    /\ At(t, "drop")
    /\ tables' = [tables EXCEPT ![req[t].tid][Bases[req[t].base]] = None]
    /\ torn' = torn \cup {req[t].name}
    /\ IF req[t].base < Len(Bases)
         THEN req' = [req EXCEPT ![t].base = @ + 1]
         ELSE Goto(t, "delete", req[t].name, req[t].tid)
    /\ UNCHANGED << backend, reg, attrs, cache, store >>

(* DELETE FROM tenants WHERE name, whatever id the name has by now. *)
DeleteRow(t) ==
    /\ At(t, "delete")
    /\ reg' = [reg EXCEPT ![req[t].name] = None]
    /\ attrs' = [attrs EXCEPT ![req[t].name] = {}]
    /\ torn' = torn \ {req[t].name}
    /\ Goto(t, "pop", req[t].name, req[t].tid)
    /\ UNCHANGED << backend, tables, cache, store >>

\* Mutant: delete_tenant forgets its cache entry.
ForgetfulPop(t) ==
    /\ At(t, "pop")
    /\ Return(t)
    /\ UNCHANGED << backend, reg, attrs, tables, torn, cache, store >>

(* The name leaves the cache of this process. *)
Pop(t) ==
    /\ At(t, "pop")
    /\ SetCache(t, req[t].name, None)
    /\ Return(t)
    /\ UNCHANGED << backend, reg, attrs, tables, torn, store >>

(* update_tenant: one UPDATE of the columns that were passed; without a row   *)
(* for the name it changes nothing.                                           *)
UpdateTenant(t, n, column) ==
    /\ MayBegin(t)
    /\ reg[n] # None
    /\ attrs' = [attrs EXCEPT ![n] = @ \cup {column}]
    /\ UNCHANGED << backend, reg, tables, torn, cache, store, req >>

(* update_shipping_settings: get_tenant reads the settings on a connection of *)
(* its own ...                                                                *)
MergeSettings(t, n, key) ==
    /\ MayBegin(t)
    /\ SerialSettings => \A u \in Threads : ~(At(u, "merge") /\ req[u].name = n)
    /\ req' = [req EXCEPT ![t] = [Idle EXCEPT !.pc = "merge", !.name = n,
                                             !.keys = (attrs[n] \cap Keys) \cup {key}]]
    /\ UNCHANGED << backend, reg, attrs, tables, torn, cache, store >>

\* Mutant: the fields that were passed are saved without the merge.
UnmergedSaveSettings(t) ==
    LET n == req[t].name IN
    /\ At(t, "merge")
    /\ attrs' = IF reg[n] = None THEN attrs
                ELSE [attrs EXCEPT ![n] = (@ \ Keys) \cup (req[t].keys \ @)]
    /\ Return(t)
    /\ UNCHANGED << backend, reg, tables, torn, cache, store >>

(* ... and update_tenant writes the merged dict whole, if there is a row.     *)
SaveSettings(t) ==
    LET n == req[t].name IN
    /\ At(t, "merge")
    /\ attrs' = IF reg[n] = None THEN attrs
                ELSE [attrs EXCEPT ![n] = (@ \ Keys) \cup req[t].keys]
    /\ Return(t)
    /\ UNCHANGED << backend, reg, tables, torn, cache, store >>

(* A statement raises (database locked, connection lost): what was committed  *)
(* stays, an open transaction is rolled back, the cache is not touched.       *)
Abort(t) ==
    /\ req[t].pc \in {"taken", "max", "insert", "ensure", "drop", "delete", "merge"}
    /\ Return(t)
    /\ UNCHANGED << backend, reg, attrs, tables, torn, cache, store >>

(* A process dies and starts again with an empty cache. *)
Crash(q) ==
    /\ cache' = [cache EXCEPT ![q] = [n \in Names |-> None]]
    /\ store' = [t \in Threads |-> IF ProcOf[t] = q THEN NoStore ELSE store[t]]
    /\ req'   = [t \in Threads |-> IF ProcOf[t] = q THEN Idle ELSE req[t]]
    /\ UNCHANGED << backend, reg, attrs, tables, torn >>

Next ==
    \/ \E t \in Threads :
         \/ \E n \in Names : Delete(t, n) \/ \E i \in Ids \cup {None} : Build(t, n, i)
         \/ CheckTaken(t) \/ SelectMax(t) \/ Insert(t)
         \/ EnsureTables(t) \/ EnsureTable(t) \/ Fill(t)
         \/ \E b \in Kinds : Write(t, b)
         \/ EndRequest(t)
         \/ \E n \in Names : \/ \E c \in Columns : UpdateTenant(t, n, c)
                            \/ \E k \in Keys : MergeSettings(t, n, k)
         \/ SaveSettings(t)
         \/ DropTenant(t) \/ DropTable(t) \/ DeleteRow(t) \/ Pop(t) \/ Abort(t)
    \/ \E q \in Procs : Crash(q)

Spec == Init /\ [][Next]_vars
-----------------------------------------------------------------------------
TypeOK ==
    /\ backend \in Backends
    /\ reg    \in [Names -> Ids \cup {None}]
    /\ attrs  \in [Names -> SUBSET (Columns \cup Keys)]
    /\ tables \in [Ids -> [Kinds -> (SUBSET Names) \cup {None}]]
    /\ torn   \in SUBSET Names
    /\ cache  \in [Procs -> [Names -> Ids \cup {None}]]
    /\ store  \in [Threads -> Stores]
    /\ req    \in [Threads -> Requests]

\* "Separate tables per tenant": the tables of a registered tenant hold only
\* rows its own stores wrote.
TenantIsolation ==
    \A n \in Names, b \in Kinds :
        (reg[n] # None /\ tables[reg[n]][b] # None) => tables[reg[n]][b] \subseteq {n}

\* A cached id is the id on record, unless the tenant is being deleted.
CacheIsCurrent ==
    \A q \in Procs, n \in Names :
        cache[q][n] # None =>
            \/ reg[n] = cache[q][n]
            \/ \E t \in Threads : ProcOf[t] = q /\ At(t, "pop") /\ req[t].name = n

\* An id without a tenant has no tables: nothing of a deleted tenant stays, and
\* no half-made tenant is left.
NoOrphanTables ==
    \A i \in Ids : i \notin UsedIds => tables[i] = NoTables

\* A tenant that is new starts with a full set of empty tables and without the
\* settings of an earlier tenant of its name.
NewTenantStartsEmpty ==
    [][\A n \in Names :
         (reg[n] = None /\ reg'[n] # None) =>
            attrs'[n] = {} /\ \A b \in Kinds : tables'[reg'[n]][b] = {}]_vars

\* "Merge onto the tenant's stored shipping settings": what was saved of a tenant
\* stays as long as the tenant does, whichever of the updates comes next.
UpdatesAreKept ==
    [][\A n \in Names :
         (reg[n] # None /\ reg'[n] = reg[n]) => attrs[n] \subseteq attrs'[n]]_vars

\* A Store object can be used: its tenant is on record under its id and all
\* tables are there.  The exception is a tenant whose delete SQLite left half
\* done (db.py:193-199): its id is still cached (86-88), a hit runs no CREATE, so
\* until the delete is done again or the cache is empty the tables are missing.
\* No other order of builds, refused inserts, failures and restarts may lose a
\* table or a row under a Store object; in Postgres there is no exception.
StoreIsUsable ==
    \A t \in Threads :
        store[t] # NoStore =>
            /\ reg[store[t].name] = store[t].tid
            /\ \/ backend = "sqlite" /\ store[t].name \in torn
               \/ \A b \in Kinds : tables[store[t].tid][b] # None

=============================================================================
