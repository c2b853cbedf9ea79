-------------------------------- MODULE Menu ---------------------------------
(***************************************************************************)
(* The catalog of one tenant and what each MenuRegistry operation does to  *)
(* it, as operators from catalogs to catalogs.  An id is a pair of a slug  *)
(* and a suffix number: <<s, 1>> is the plain slug, <<s, 2>> is "s-2".     *)
(***************************************************************************)
EXTENDS Integers, Sequences, SequencesExt, FiniteSets

CONSTANTS
    Slugs,         \* what slugify makes of the names in use
    MaxSuffix,     \* bound on id suffixes
    MaxStock,      \* bound on stock, to both sides of 0
    Categories,    \* category ids
    ComboIds,      \* combo ids
    MaxRefs,       \* bound on the length of a combo's item_ids
    Invalid,       \* a field's value that MenuItem refuses
    None           \* Python's None

\* MenuItem accepts any integer as a stock, a negative one too; None is untracked.
Stock == (-MaxStock..MaxStock) \cup {None}

ASSUME MenuAssumption ==
    /\ MaxSuffix \in Nat \ {0}
    /\ MaxStock \in Nat
    /\ MaxRefs \in Nat
    /\ None \notin Categories
    /\ Invalid \notin Stock

Ids == Slugs \X (1..MaxSuffix)

MenuItem == [id : Ids, stock : Stock, category : Categories \cup {None}]

Combo == [id : ComboIds, item_ids : Seq(Ids)]

MenuCatalog == [items : Seq(MenuItem), categories : SUBSET Categories,
                combos : SUBSET Combo]

EmptyCatalog == [items |-> <<>>, categories |-> {}, combos |-> {}]
-----------------------------------------------------------------------------
ItemIds(c) == {c.items[i].id : i \in DOMAIN c.items}

\* _unique_id: the slug itself, or the first free suffix from 2 on.
UniqueId(slug, existing) ==
    << slug, CHOOSE n \in 1..(Cardinality(existing) + 1) :
                /\ << slug, n >> \notin existing
                /\ \A m \in 1..(n - 1) : << slug, m >> \in existing >>

\* The item made of a name, an explicit id or None, and a stock.
NewItem(c, raw) ==
    [id       |-> IF raw.id # None THEN raw.id ELSE UniqueId(raw.slug, ItemIds(c)),
     stock    |-> raw.stock,
     category |-> None]

\* get_item: position of the first item with this id.
Position(c, id) ==
    CHOOSE i \in DOMAIN c.items :
        c.items[i].id = id /\ \A j \in 1..(i - 1) : c.items[j].id # id

GetItem(c, id) == c.items[Position(c, id)]

\* add_item and _add_item_no_persist, the id being free.
WithItem(c, item) == [c EXCEPT !.items = Append(@, item)]

\* update_item: the merged item takes the place of the old one.
WithUpdate(c, id, updated) == [c EXCEPT !.items[Position(c, id)] = updated]

\* Mutant: combos keep their references.
ForgetfulWithoutItem(c, id) == [c EXCEPT !.items = RemoveFirst(@, GetItem(c, id))]

\* remove_item: the item goes, and its first mention in each combo.
WithoutItem(c, id) ==
    [c EXCEPT !.items  = RemoveFirst(@, GetItem(c, id)),
              !.combos = {[k EXCEPT !.item_ids = RemoveFirst(@, id)] : k \in @}]

\* clear_items: items and combos go, categories stay.
Cleared(c) == [c EXCEPT !.items = <<>>, !.combos = {}]

WithCategory(c, cat) == [c EXCEPT !.categories = @ \cup {cat}]

\* remove_category, with or without unassign_items.
WithoutCategory(c, cat, unassign) ==
    [c EXCEPT
       !.categories = @ \ {cat},
       !.items = IF unassign
                   THEN [i \in DOMAIN @ |->
                           IF @[i].category = cat THEN [@[i] EXCEPT !.category = None]
                                                  ELSE @[i]]
                   ELSE @]

\* The check add_combo makes of item_ids.
RefsKnown(c, refs) == ToSet(refs) \subseteq ItemIds(c)

WithCombo(c, combo) == [c EXCEPT !.combos = @ \cup {combo}]

WithoutCombo(c, comboId) == [c EXCEPT !.combos = {k \in @ : k.id # comboId}]

\* _add_item_no_persist in the loop of import_items: an id in use or a value that
\* MenuItem refuses raises, and nothing after it is added.
Added(acc, raw) ==
    LET item == NewItem(acc.catalog, raw) IN
    IF acc.ok /\ item.id \notin ItemIds(acc.catalog) /\ item.stock \in Stock
      THEN [acc EXCEPT !.catalog = WithItem(@, item)]
      ELSE [acc EXCEPT !.ok = FALSE]

\* Mutant: import_items does not look for the ids in use.
UncheckedImported(c, raw1, raw2) ==
    [catalog |-> [c EXCEPT !.items = @ \o << NewItem(c, raw1), NewItem(c, raw2) >>],
     ok      |-> TRUE]

\* import_items of two items: the catalog as it is then, and whether all went in.
Imported(c, raw1, raw2) == Added(Added([catalog |-> c, ok |-> TRUE], raw1), raw2)
=============================================================================
