------------------------------ MODULE MenuStore ------------------------------
(***************************************************************************)
(* MenuRegistry objects over a SQL menu store.  save replaces the three    *)
(* tables in one transaction; load reads them one after the other, each    *)
(* SELECT seeing what is committed when it runs, so saves of other         *)
(* registries may fall in between.  The item table has id as its primary   *)
(* key.  Registry.tla is the same with a load that is one step.            *)
(***************************************************************************)
EXTENDS Registry

VARIABLE reading    \* registry -> the load it is in

storeVars == << stored, mem, menu, reading >>

NotReading == [pc |-> "idle", catalog |-> EmptyCatalog, seen |-> {}]

\* seen is history: the catalogs that were stored at some time in this load.
Readings == [pc      : {"idle", "categories", "combos", "build"},
             catalog : MenuCatalog,
             seen    : SUBSET MenuCatalog]

\* PRIMARY KEY of menu_items_<tid>.
PrimaryKeyHolds(c) == Cardinality(ItemIds(c)) = Len(c.items)

Seen == [h \in Handles |-> IF reading[h].pc = "idle" THEN reading[h]
                           ELSE [reading[h] EXCEPT !.seen = @ \cup {stored'}]]
-----------------------------------------------------------------------------
StoreInit ==
    /\ Init
    /\ reading = [h \in Handles |-> NotReading]

(* SELECT * FROM menu_items: MenuRegistry(store) or reload begins. *)
SelectItems(h) ==
    /\ reading[h].pc = "idle"
    /\ Serial => \A g \in Handles : mem[g] = None /\ reading[g].pc = "idle"
    /\ reading' = [reading EXCEPT ![h] =
                      [pc      |-> "categories",
                       catalog |-> [EmptyCatalog EXCEPT !.items = stored.items],
                       seen    |-> {stored}]]
    /\ UNCHANGED vars

(* SELECT * FROM categories *)
SelectCategories(h) ==
    /\ reading[h].pc = "categories"
    /\ reading' = [reading EXCEPT ![h].pc = "combos",
                                  ![h].catalog.categories = stored.categories]
    /\ UNCHANGED vars

\* Mutant: the third SELECT is missing.
ForgetfulSelectCombos(h) ==
    /\ reading[h].pc = "combos"
    /\ reading' = [reading EXCEPT ![h].pc = "build"]
    /\ UNCHANGED vars

(* SELECT * FROM combos *)
SelectCombos(h) ==
    /\ reading[h].pc = "combos"
    /\ reading' = [reading EXCEPT ![h].pc = "build",
                                  ![h].catalog.combos = stored.combos]
    /\ UNCHANGED vars

(* MenuCatalog(items, categories, combos) becomes the registry's memory. *)
Build(h) ==
    /\ reading[h].pc = "build"
    /\ mem' = [mem EXCEPT ![h] = reading[h].catalog]
    /\ reading' = [reading EXCEPT ![h] = NotReading]
    /\ UNCHANGED << stored, menu >>

(* A mutation and its save, which is refused as a whole when an id repeats. *)
Save(h) ==
    /\ reading[h].pc = "idle"
    /\ Mutate(h)
    /\ stored' # stored => PrimaryKeyHolds(stored')
    /\ reading' = Seen

(* The request lets go of its registry, or a SELECT raises. *)
Release(h) ==
    /\ IF reading[h].pc = "idle"
         THEN Drop(h)
         ELSE UNCHANGED vars
    /\ reading' = [reading EXCEPT ![h] = NotReading]

StoreNext == \E h \in Handles :
    \/ SelectItems(h) \/ SelectCategories(h) \/ SelectCombos(h) \/ Build(h)
    \/ Save(h) \/ Release(h)

StoreSpec == StoreInit /\ [][StoreNext]_storeVars
-----------------------------------------------------------------------------
StoreTypeOK ==
    /\ TypeOK
    /\ reading \in [Handles -> Readings]

\* "Return the persisted catalog": what load returns was the stored catalog at
\* some time during the load.
LoadReturnsPersisted ==
    [][\A h \in Handles : Build(h) => mem'[h] \in reading[h].seen]_storeVars

\* To requests that run one at a time the SQL store is a store whose load and
\* save are single steps.
ImplementsRegistry == Spec
=============================================================================
