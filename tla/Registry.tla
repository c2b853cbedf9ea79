------------------------------ MODULE Registry -------------------------------
(***************************************************************************)
(* MenuRegistry objects over one menu store.  Each keeps the whole catalog *)
(* in memory, changes it there and saves it whole; nothing tells one       *)
(* registry of another's saves.  The memory of a registry is used by one   *)
(* thread, so an operation is one step: the change and the save that ends  *)
(* it, which may raise.                                                    *)
(***************************************************************************)
EXTENDS Menu

CONSTANTS
    Handles,       \* registry objects
    MaxItems,      \* bound on the items of a catalog
    RepeatRefs,    \* TRUE: callers may name an item twice in one combo
    Renames,       \* TRUE: callers may change an id through update_item
    SaveMayFail,   \* TRUE: store.save may raise
    Serial         \* TRUE: a request builds its registry, alone, and drops it

VARIABLES
    stored,        \* what store.load gives
    mem,           \* registry -> _catalog, None if there is no such object
    menu           \* history, for serial callers: the successful calls applied
                   \* one after the other to a single catalog

vars == << stored, mem, menu >>

ASSUME RegistryAssumption ==
    /\ MaxItems \in Nat
    /\ {RepeatRefs, Renames, SaveMayFail, Serial} \subseteq BOOLEAN
    /\ None \notin Handles
-----------------------------------------------------------------------------
Refs == {refs \in BoundedSeq(Ids, MaxRefs) :
            RepeatRefs \/ Cardinality(ToSet(refs)) = Len(refs)}

\* What callers pass as a stock, which stands for every field MenuItem validates.
Given == Stock \cup {Invalid}

Raw == [slug : Slugs, id : Ids \cup {None}, stock : Given]

Live(h) == mem[h] # None

\* An exception ends the request it happens in; a registry that is kept keeps
\* what the failed call left in memory.
Left(h, c) == mem' = [mem EXCEPT ![h] = IF Serial THEN None ELSE c]

\* The catalogs a call of h is applied to.
Edited(h) == {mem[h]} \cup (IF Serial THEN {menu} ELSE {})

\* Mutant: the catalog is saved before the change is made to it.
EarlyPersist(h, edit) ==
    /\ mem' = [mem EXCEPT ![h] = edit[@]]
    /\ stored' = mem[h]
    /\ menu' = IF Serial THEN edit[menu] ELSE menu

\* The end of every mutation: the new catalog in memory, then _persist.
Persist(h, edit) ==
    \/ /\ mem' = [mem EXCEPT ![h] = edit[@]]
       /\ stored' = edit[mem[h]]
       /\ menu' = IF Serial THEN edit[menu] ELSE menu
    \/ /\ SaveMayFail
       /\ Left(h, edit[mem[h]])
       /\ UNCHANGED << stored, menu >>
-----------------------------------------------------------------------------
Init ==
    /\ stored = EmptyCatalog
    /\ mem    = [h \in Handles |-> None]
    /\ menu   = EmptyCatalog

(* MenuRegistry(store), and reload on one that exists. *)
Load(h) ==
    /\ Serial => \A g \in Handles : mem[g] = None
    /\ mem' = [mem EXCEPT ![h] = stored]
    /\ UNCHANGED << stored, menu >>

Drop(h) ==
    /\ Live(h)
    /\ mem' = [mem EXCEPT ![h] = None]
    /\ UNCHANGED << stored, menu >>

(* add_item: an explicit id, or the unique id of the name; MenuItem refuses    *)
(* what it does not accept before the catalog changes.                        *)
AddItem(h, raw) ==
    LET item == NewItem(mem[h], raw)
    IN  /\ Live(h)
        /\ Len(mem[h].items) < MaxItems
        /\ item.id \in Ids \ ItemIds(mem[h])
        /\ item.stock \in Stock
        /\ Persist(h, [d \in Edited(h) |-> WithItem(d, item)])

\* Mutant: update_item merges the fields without validating the item again.
UncheckedUpdateItem(h, id, newId, category, stock) ==
    /\ Live(h)
    /\ id \in ItemIds(mem[h])
    /\ newId = id \/ Renames
    /\ Persist(h, [d \in Edited(h) |-> WithUpdate(d, id,
                     [id |-> newId, stock |-> stock, category |-> category])])

(* update_item: any fields, another id too if callers do so, validated by     *)
(* MenuItem.  An item is its id, stock and category here, so all are given.   *)
UpdateItem(h, id, newId, category, stock) ==
    /\ Live(h)
    /\ id \in ItemIds(mem[h])
    /\ newId = id \/ Renames
    /\ stock \in Stock
    /\ Persist(h, [d \in Edited(h) |-> WithUpdate(d, id,
                     [id |-> newId, stock |-> stock, category |-> category])])

(* set_stock: refused below 0. *)
SetStock(h, id, stock) ==
    /\ Live(h)
    /\ id \in ItemIds(mem[h])
    /\ stock \in Nat \cup {None}
    /\ Persist(h, [d \in Edited(h) |->
                     WithUpdate(d, id, [GetItem(d, id) EXCEPT !.stock = stock])])

(* adjust_stock: refused below 0, a no-op on untracked stock. *)
AdjustStock(h, id, delta) ==
    LET stock == GetItem(mem[h], id).stock IN
    /\ Live(h)
    /\ id \in ItemIds(mem[h])
    /\ stock # None
    /\ stock + delta \in 0..MaxStock
    /\ Persist(h, [d \in Edited(h) |->
                     WithUpdate(d, id, [GetItem(d, id) EXCEPT !.stock = @ + delta])])

RemoveItem(h, id) ==
    /\ Live(h)
    /\ id \in ItemIds(mem[h])
    /\ Persist(h, [d \in Edited(h) |-> WithoutItem(d, id)])

ClearItems(h) ==
    /\ Live(h)
    /\ Persist(h, [d \in Edited(h) |-> Cleared(d)])

AddCategory(h, cat) ==
    /\ Live(h)
    /\ cat \notin mem[h].categories
    /\ Persist(h, [d \in Edited(h) |-> WithCategory(d, cat)])

RemoveCategory(h, cat, unassign) ==
    /\ Live(h)
    /\ cat \in mem[h].categories
    /\ Persist(h, [d \in Edited(h) |-> WithoutCategory(d, cat, unassign)])

(* add_combo: the references are looked up, repeated or not. *)
AddCombo(h, comboId, refs) ==
    /\ Live(h)
    /\ \A k \in mem[h].combos : k.id # comboId
    /\ RefsKnown(mem[h], refs)
    /\ Persist(h, [d \in Edited(h) |-> WithCombo(d, [id |-> comboId, item_ids |-> refs])])

RemoveCombo(h, comboId) ==
    /\ Live(h)
    /\ \E k \in mem[h].combos : k.id = comboId
    /\ Persist(h, [d \in Edited(h) |-> WithoutCombo(d, comboId)])

(* import_items: an id in use or a value that MenuItem refuses raises with    *)
(* the items before it in memory and nothing saved.                           *)
ImportItems(h, raw1, raw2) ==
    LET result == Imported(mem[h], raw1, raw2)
    IN  /\ Live(h)
        /\ Len(result.catalog.items) <= MaxItems
        /\ ItemIds(result.catalog) \subseteq Ids
        /\ IF result.ok
             THEN Persist(h, [d \in Edited(h) |-> Imported(d, raw1, raw2).catalog])
             ELSE Left(h, result.catalog) /\ UNCHANGED << stored, menu >>

Mutate(h) ==
    \/ ClearItems(h)
    \/ \E raw \in Raw : AddItem(h, raw)
    \/ \E id, new \in Ids, cat \in Categories \cup {None}, stock \in Given :
         UpdateItem(h, id, new, cat, stock)
    \/ \E id \in Ids, stock \in Stock : SetStock(h, id, stock)
    \/ \E id \in Ids, delta \in -MaxStock..MaxStock : AdjustStock(h, id, delta)
    \/ \E id \in Ids : RemoveItem(h, id)
    \/ \E cat \in Categories : AddCategory(h, cat)
    \/ \E cat \in Categories, unassign \in BOOLEAN : RemoveCategory(h, cat, unassign)
    \/ \E k \in ComboIds, refs \in Refs : AddCombo(h, k, refs)
    \/ \E k \in ComboIds : RemoveCombo(h, k)
    \/ \E raw1, raw2 \in Raw : ImportItems(h, raw1, raw2)

Next == \E h \in Handles : Load(h) \/ Drop(h) \/ Mutate(h)

Spec == Init /\ [][Next]_vars
-----------------------------------------------------------------------------
Catalogs == {stored} \cup {mem[h] : h \in {g \in Handles : Live(g)}}

TypeOK ==
    /\ stored \in MenuCatalog
    /\ menu \in MenuCatalog
    /\ \A h \in Handles : Live(h) => mem[h] \in MenuCatalog

\* No catalog, stored or in memory, lists an id twice, although each registry
\* checks only its own copy.
ItemIdsAreUnique ==
    \A c \in Catalogs : Cardinality(ItemIds(c)) = Len(c.items)

\* "Drop references from combos so we never dangle": a combo names only items
\* that are in its catalog.
CombosNeverDangle ==
    \A c \in Catalogs : \A k \in c.combos : ToSet(k.item_ids) \subseteq ItemIds(c)

\* With one registry per request, one request at a time, the store holds what
\* the successful calls made of a single catalog: no adjustment, item or combo
\* is lost and no call that raised shows.
StoredIsSerial == Serial => stored = menu
=============================================================================
