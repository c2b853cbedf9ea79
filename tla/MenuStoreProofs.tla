--------------------------- MODULE MenuStoreProofs ---------------------------
(***************************************************************************)
(* Registry and MenuStore.  A catalog is Good if it is a menu, lists no id *)
(* twice and has no combo that names what is gone; every edit makes a good *)
(* catalog of a good one, so whatever registry overwrites whatever other,  *)
(* good catalogs are all there is.  A load that is overtaken mixes the     *)
(* tables of several catalogs: of it only what concerns the items is true. *)
(* Where one request at a time builds, uses and drops its registry         *)
(* (Serial), nobody overtakes it, and the three SELECTs of load are the    *)
(* one step of Registry.                                                   *)
(***************************************************************************)
EXTENDS MenuStore, FiniteSetTheorems, SequenceTheorems, TLAPS

(* Sequences: the first of several positions, and what RemoveFirst leaves. *)

\* A set of numbers has a least one.
LEMMA Least ==
    ASSUME NEW S \in SUBSET Nat, S # {}
    PROVE  \E m \in S : \A n \in S : m <= n
  <1>1. PICK m \in S : \A k \in S : ~(<< k, m >> \in OpToRel(<, Nat))
    BY NatLessThanWellFounded, WFMin
  <1>2. \A k \in S : ~(k < m)
    BY <1>1 DEF OpToRel
  <1> QED BY <1>2

LEMMA RemovedAt ==
    ASSUME NEW S, NEW s \in Seq(S), NEW p \in 1..Len(s)
    PROVE  /\ RemoveAt(s, p) \in Seq(S)
           /\ Len(RemoveAt(s, p)) = Len(s) - 1
           /\ \A i \in 1..Len(s) - 1 : RemoveAt(s, p)[i] = IF i < p THEN s[i] ELSE s[i + 1]
  <1> DEFINE a == SubSeq(s, 1, p - 1)
             b == SubSeq(s, p + 1, Len(s))
             n == Len(s)
  <1>0. n \in Nat /\ \A i \in 1..n : s[i] \in S
    BY LenProperties, ElementOfSeq
  <1>1. /\ a \in Seq(S) /\ Len(a) = p - 1
        /\ \A i \in 1..p - 1 : a[i] = s[i]
    <2> HIDE DEF n
    <2>1. \A i \in 1..p - 1 : s[i] \in S
      BY <1>0 DEF n
    <2>2. p \in Nat /\ p - 1 \in Int /\ p >= 1
      BY <1>0 DEF n
    <2>3. /\ a \in Seq(S) /\ Len(a) = IF 1 <= p - 1 THEN p - 1 - 1 + 1 ELSE 0
          /\ \A i \in 1..p - 1 - 1 + 1 : a[i] = s[1 + i - 1]
      BY <2>1, <2>2, SubSeqProperties
    <2> HIDE DEF a
    <2> QED BY <2>2, <2>3
  <1>2. /\ b \in Seq(S) /\ Len(b) = n - p
        /\ \A i \in 1..n - p : b[i] = s[p + i]
    <2>1. \A i \in p + 1..n : s[i] \in S
      BY <1>0
    <2>2. p \in Nat /\ p + 1 \in Int /\ p <= n /\ n \in Int
      BY <1>0
    <2>3. /\ b \in Seq(S) /\ Len(b) = IF p + 1 <= n THEN n - (p + 1) + 1 ELSE 0
          /\ \A i \in 1..n - (p + 1) + 1 : b[i] = s[p + 1 + i - 1]
      BY <2>1, <2>2, SubSeqProperties
    <2> HIDE DEF b, n
    <2> QED BY <2>2, <2>3
  <1>3. RemoveAt(s, p) = a \o b
    BY DEF RemoveAt
  <1> HIDE DEF a, b, n
  <1>4. /\ a \o b \in Seq(S) /\ Len(a \o b) = Len(a) + Len(b)
        /\ \A i \in 1..Len(a) + Len(b) : (a \o b)[i] = IF i <= Len(a) THEN a[i] ELSE b[i - Len(a)]
    BY <1>1, <1>2, ConcatProperties
  <1>5. p \in Nat /\ p <= n /\ p >= 1 /\ n = Len(s)
    BY <1>0 DEF n
  <1>6. ASSUME NEW i \in 1..n - 1 PROVE (a \o b)[i] = IF i < p THEN s[i] ELSE s[i + 1]
    <2>1. i \in 1..Len(a) + Len(b) /\ i \in Nat
      BY <1>0, <1>1, <1>2, <1>5
    <2>2. CASE i < p
      BY <1>0, <1>1, <1>4, <1>5, <2>1, <2>2
    <2>3. CASE ~(i < p)
      <3>1. i - (p - 1) \in 1..n - p /\ p + (i - (p - 1)) = i + 1
        BY <1>0, <1>5, <2>1, <2>3
      <3> QED BY <1>0, <1>1, <1>2, <1>4, <1>5, <2>1, <2>3, <3>1
    <2> QED BY <2>2, <2>3
  <1>7. Len(a) + Len(b) = n - 1
    BY <1>0, <1>1, <1>2, <1>5
  <1> QED BY <1>3, <1>4, <1>5, <1>6, <1>7

LEMMA RemovedFirst ==
    ASSUME NEW S, NEW s \in Seq(S), NEW e
    PROVE  \/ RemoveFirst(s, e) = s /\ \A i \in 1..Len(s) : s[i] # e
           \/ \E p \in 1..Len(s) : s[p] = e /\ RemoveFirst(s, e) = RemoveAt(s, p)
  <1> DEFINE I == {i \in 1..Len(s) : s[i] = e}
  <1>1. CASE I # {}
    <2>1. I \in SUBSET Nat
      BY LenProperties
    <2>2. Min(I) \in I
      <3> HIDE DEF I
      <3> QED BY <1>1, <2>1, Least DEF Min
    <2>3. SelectInSeq(s, LAMBDA v : v = e) = Min(I)
      BY <1>1 DEF SelectInSeq
    <2> QED BY <2>2, <2>3 DEF RemoveFirst
  <1>2. CASE I = {}
    BY <1>2 DEF RemoveFirst
  <1> QED BY <1>1, <1>2
-----------------------------------------------------------------------------
(* Good catalogs.  Position and RemoveFirst look for one item among its  *)
(* equals; that it is the only one with its id needs Distinct.           *)

\* No id twice.
Distinct(c) ==
    \A i, j \in 1..Len(c.items) : c.items[i].id = c.items[j].id => i = j

\* Combos name items that are there, each once.
Settled(c) ==
    \A k \in c.combos :
        /\ \A i \in 1..Len(k.item_ids) : k.item_ids[i] \in ItemIds(c)
        /\ \A i, j \in 1..Len(k.item_ids) : k.item_ids[i] = k.item_ids[j] => i = j

\* sound tells whether combos are looked at.
Good(sound) == {c \in MenuCatalog :
    /\ ~Renames => Distinct(c)
    /\ sound /\ ~Renames /\ ~RepeatRefs => Settled(c)}

\* A catalog is a MenuCatalog object: these three fields and no other.
Shape(c) == c = [items |-> c.items, categories |-> c.categories, combos |-> c.combos]

\* The fields of a catalog.
LEMMA Fields ==
    ASSUME NEW c \in MenuCatalog
    PROVE  /\ c = [items |-> c.items, categories |-> c.categories, combos |-> c.combos]
           /\ c.items \in Seq(MenuItem) /\ Len(c.items) \in Nat /\ DOMAIN c.items = 1..Len(c.items)
           /\ \A i \in 1..Len(c.items) : c.items[i] \in MenuItem
           /\ ItemIds(c) = {c.items[i].id : i \in 1..Len(c.items)}
           /\ c.categories \subseteq Categories
           /\ c.combos \subseteq Combo
  <1>1. c.items \in Seq(MenuItem) /\ c.categories \in SUBSET Categories /\ c.combos \in SUBSET Combo
        /\ c = [items |-> c.items, categories |-> c.categories, combos |-> c.combos]
    BY DEF MenuCatalog
  <1>2. /\ Len(c.items) \in Nat /\ DOMAIN c.items = 1..Len(c.items)
        /\ \A i \in 1..Len(c.items) : c.items[i] \in MenuItem
    BY <1>1, LenProperties, ElementOfSeq
  <1> QED BY <1>1, <1>2 DEF ItemIds

\* A catalog with the item ids of a good one and some of its combos is good.
LEMMA SameIds ==
    ASSUME NEW sound \in BOOLEAN, NEW c \in Good(sound), NEW d \in MenuCatalog,
           Len(d.items) = Len(c.items),
           \A i \in 1..Len(c.items) : d.items[i].id = c.items[i].id,
           d.combos \subseteq c.combos
    PROVE  d \in Good(sound)
  <1>1. c \in MenuCatalog
    BY DEF Good
  <1>2. ItemIds(d) = ItemIds(c)
    <2>1. /\ ItemIds(c) = {c.items[i].id : i \in 1..Len(c.items)}
          /\ ItemIds(d) = {d.items[i].id : i \in 1..Len(d.items)}
      BY <1>1, Fields
    <2> QED BY <2>1
  <1>3. Distinct(c) => Distinct(d)
    BY DEF Distinct
  <1>4. Settled(c) => Settled(d)
    BY <1>2 DEF Settled
  <1> QED BY <1>3, <1>4 DEF Good

\* get_item finds the item.
LEMMA FirstPosition ==
    ASSUME NEW c \in MenuCatalog, NEW id \in ItemIds(c)
    PROVE  /\ Position(c, id) \in 1..Len(c.items)
           /\ c.items[Position(c, id)].id = id
           /\ GetItem(c, id) \in MenuItem
           /\ GetItem(c, id).id = id
  <1> DEFINE I == {i \in 1..Len(c.items) : c.items[i].id = id}
  <1>0. Len(c.items) \in Nat
    BY Fields
  <1>1. I # {} /\ I \in SUBSET Nat
    BY <1>0, Fields
  <1>2. PICK m \in I : \A n \in I : m <= n
    BY <1>1, Least
  <1>3. m \in DOMAIN c.items /\ c.items[m].id = id
    BY <1>2, Fields
  <1>4. \A j \in 1..(m - 1) : c.items[j].id # id
    BY <1>0, <1>2
  <1>5. Position(c, id) \in DOMAIN c.items /\ c.items[Position(c, id)].id = id
    BY <1>3, <1>4 DEF Position
  <1> QED BY <1>5, Fields DEF GetItem

-----------------------------------------------------------------------------
(* Every edit makes a good catalog of a good one. *)

LEMMA GoodWithItem ==
    ASSUME NEW sound \in BOOLEAN, NEW c \in Good(sound),
           NEW item \in MenuItem, item.id \notin ItemIds(c)
    PROVE  WithItem(c, item) \in Good(sound) /\ item.id \in ItemIds(WithItem(c, item))
  <1> DEFINE s == c.items
             t == Append(s, item)
             d == [items |-> t, categories |-> c.categories, combos |-> c.combos]
             n == Len(c.items)
  <1>1. c \in MenuCatalog
    BY DEF Good
  <1>2. WithItem(c, item) = d
    BY <1>1, Fields DEF WithItem
  <1>3. s \in Seq(MenuItem) /\ n \in Nat
    BY <1>1, Fields
  <1>4. /\ t \in Seq(MenuItem) /\ Len(t) = n + 1 /\ t[n + 1] = item
        /\ \A i \in 1..n : t[i] = s[i]
    BY <1>3, AppendProperties
  <1>5. d \in MenuCatalog /\ d.items = t /\ d.combos = c.combos
    BY <1>1, <1>4, Fields DEF MenuCatalog
  <1>6. ItemIds(c) = {s[i].id : i \in 1..n}
    BY <1>1, Fields
  <1>7. ItemIds(d) = {t[i].id : i \in 1..n + 1}
    BY <1>4, <1>5, Fields
  <1> HIDE DEF s, t, d, n
  <1>8. ItemIds(c) \subseteq ItemIds(d) /\ item.id \in ItemIds(d)
    <2>1. n + 1 \in 1..n + 1 /\ \A i \in 1..n : i \in 1..n + 1
      BY <1>3
    <2> QED BY <2>1, <1>4, <1>6, <1>7
  <1>9. Distinct(c) => Distinct(d)
    <2>1. ASSUME Distinct(c), NEW i \in 1..n + 1, NEW j \in 1..n + 1, t[i].id = t[j].id
          PROVE  i = j
      <3>1. CASE i = n + 1 /\ j \in 1..n
        BY <1>4, <1>6, <2>1, <3>1
      <3>2. CASE j = n + 1 /\ i \in 1..n
        BY <1>4, <1>6, <2>1, <3>2
      <3>3. CASE i \in 1..n /\ j \in 1..n
        BY <1>4, <2>1, <3>3 DEF Distinct, s, n
      <3> QED BY <1>3, <3>1, <3>2, <3>3
    <2> QED BY <2>1, <1>4, <1>5 DEF Distinct
  <1>10. Settled(c) => Settled(d)
    BY <1>5, <1>8 DEF Settled
  <1> QED BY <1>2, <1>5, <1>8, <1>9, <1>10 DEF Good

\* Unless callers rename, an update keeps the id, and so who refers to it.
LEMMA GoodWithUpdate ==
    ASSUME NEW sound \in BOOLEAN, NEW c \in Good(sound), NEW id \in ItemIds(c),
           NEW item \in MenuItem, item.id = id \/ Renames
    PROVE  WithUpdate(c, id, item) \in Good(sound)
  <1> DEFINE p == Position(c, id)
             t == [c.items EXCEPT ![p] = item]
             d == [items |-> t, categories |-> c.categories, combos |-> c.combos]
  <1>1. c \in MenuCatalog
    BY DEF Good
  <1>2. p \in 1..Len(c.items) /\ c.items[p].id = id
    BY <1>1, FirstPosition
  <1>3. WithUpdate(c, id, item) = d
    <2>1. WithUpdate(c, id, item) = [c EXCEPT !.items[p] = item]
      BY DEF WithUpdate
    <2> HIDE DEF p
    <2> QED BY <1>1, <2>1, Fields
  <1> HIDE DEF p
  <1>4. /\ t \in Seq(MenuItem) /\ Len(t) = Len(c.items)
        /\ \A i \in 1..Len(c.items) : t[i] = IF i = p THEN item ELSE c.items[i]
    BY <1>1, <1>2, Fields, ExceptSeq
  <1> HIDE DEF t
  <1>5. d \in MenuCatalog /\ d.items = t /\ d.combos = c.combos
    BY <1>1, <1>4, Fields DEF MenuCatalog
  <1> HIDE DEF d
  <1>6. CASE Renames
    BY <1>3, <1>5, <1>6 DEF Good
  <1>7. CASE item.id = id
    <2>1. \A i \in 1..Len(c.items) : d.items[i].id = c.items[i].id
      BY <1>2, <1>4, <1>5, <1>7
    <2> QED BY <1>3, <1>4, <1>5, <2>1, SameIds
  <1> QED BY <1>6, <1>7

\* The item that goes is the only one with its id, and the mention that goes
\* from a combo the only one of it.
LEMMA GoodWithoutItem ==
    ASSUME NEW sound \in BOOLEAN, NEW c \in Good(sound), NEW id \in ItemIds(c)
    PROVE  WithoutItem(c, id) \in Good(sound)
  <1> DEFINE s == c.items
             t == RemoveFirst(s, GetItem(c, id))
             Cut(k) == [id |-> k.id, item_ids |-> RemoveFirst(k.item_ids, id)]
             ks == {Cut(k) : k \in c.combos}
             d == [items |-> t, categories |-> c.categories, combos |-> ks]
             n == Len(c.items)
  <1>1. c \in MenuCatalog
    BY DEF Good
  <1>2. \A k \in c.combos : /\ k = [id |-> k.id, item_ids |-> k.item_ids]
                            /\ k.id \in ComboIds /\ k.item_ids \in Seq(Ids)
    BY <1>1, Fields DEF Combo
  <1>3. WithoutItem(c, id) = d
    <2> DEFINE js == {[k EXCEPT !.item_ids = RemoveFirst(@, id)] : k \in c.combos}
    <2>1. js = ks
      <3>1. \A k \in c.combos : [k EXCEPT !.item_ids = RemoveFirst(@, id)] = Cut(k)
        BY <1>2
      <3> HIDE DEF Cut
      <3> QED BY <3>1
    <2>2. WithoutItem(c, id) = [c EXCEPT !.items = t, !.combos = js]
      BY DEF WithoutItem
    <2> HIDE DEF t, js, ks
    <2> QED BY <1>1, <2>1, <2>2, Fields
  <1>4. PICK p \in 1..n : s[p].id = id /\ t = RemoveAt(s, p)
    <2>1. s[Position(c, id)] = GetItem(c, id) /\ Position(c, id) \in 1..n /\ GetItem(c, id).id = id
      BY <1>1, FirstPosition DEF GetItem
    <2>2. s \in Seq(MenuItem)
      BY <1>1, Fields
    <2> QED BY <2>1, <2>2, RemovedFirst
  <1>5. s \in Seq(MenuItem) /\ n \in Nat /\ ItemIds(c) = {s[i].id : i \in 1..n}
    BY <1>1, Fields
  <1>6. /\ t \in Seq(MenuItem) /\ Len(t) = n - 1
        /\ \A i \in 1..n - 1 : t[i] = IF i < p THEN s[i] ELSE s[i + 1]
    BY <1>4, <1>5, RemovedAt
  <1>7. ASSUME NEW k \in c.combos
        PROVE  \/ /\ RemoveFirst(k.item_ids, id) = k.item_ids
                  /\ \A i \in 1..Len(k.item_ids) : k.item_ids[i] # id
               \/ \E q \in 1..Len(k.item_ids) :
                     k.item_ids[q] = id /\ RemoveFirst(k.item_ids, id) = RemoveAt(k.item_ids, q)
    BY <1>2, RemovedFirst
  <1>8. ASSUME NEW k \in c.combos PROVE Cut(k) \in Combo
    <2>1. RemoveFirst(k.item_ids, id) \in Seq(Ids)
      BY <1>2, <1>7, RemovedAt
    <2> QED BY <1>2, <2>1 DEF Combo
  <1>9. d \in MenuCatalog /\ d.items = t /\ d.combos = ks
    <2>1. ks \subseteq Combo
      BY <1>8
    <2> HIDE DEF t, ks
    <2> QED BY <1>1, <1>6, <2>1, Fields DEF MenuCatalog
  <1>10. Distinct(c) => Distinct(d)
    <2>1. ASSUME Distinct(c), NEW i \in 1..n - 1, NEW j \in 1..n - 1, t[i].id = t[j].id
          PROVE  i = j
      <3> DEFINE Up(x) == IF x < p THEN x ELSE x + 1
      <3> HIDE DEF t, s, n
      <3>1. \A x \in 1..n - 1 : Up(x) \in 1..n /\ t[x] = s[Up(x)]
        BY <1>4, <1>5, <1>6
      <3>2. \A x, y \in 1..n : s[x].id = s[y].id => x = y
        BY <2>1 DEF Distinct, s, n
      <3>3. Up(i) = Up(j)
        <4> HIDE DEF Up
        <4> QED BY <2>1, <3>1, <3>2
      <3> QED BY <1>4, <1>5, <2>1, <3>3
    <2> HIDE DEF d, t, n
    <2> QED BY <2>1, <1>6, <1>9 DEF Distinct
  <1>11. ASSUME Distinct(c), NEW x \in ItemIds(c), x # id PROVE x \in ItemIds(d)
    <2>1. ItemIds(d) = {t[i].id : i \in 1..n - 1}
      <3> HIDE DEF d, t, n
      <3> QED BY <1>6, <1>9, Fields
    <2> HIDE DEF s, t, d, n
    <2>2. PICK i \in 1..n : s[i].id = x
      BY <1>5
    <2>3. CASE i < p
      <3>1. i \in 1..n - 1 /\ t[i] = s[i]
        BY <1>4, <1>5, <1>6, <2>3
      <3> QED BY <2>1, <2>2, <3>1
    <2>4. CASE i > p
      <3>1. i - 1 \in 1..n - 1 /\ ~(i - 1 < p) /\ i - 1 + 1 = i
        BY <1>4, <1>5, <2>4
      <3>2. t[i - 1] = s[i]
        BY <1>6, <3>1
      <3> QED BY <2>1, <2>2, <3>1, <3>2
    <2>5. i # p
      BY <1>4, <1>11, <2>2
    <2> QED BY <1>4, <1>5, <2>3, <2>4, <2>5
  <1>12. Distinct(c) /\ Settled(c) => Settled(d)
    <2> SUFFICES ASSUME Distinct(c), Settled(c) PROVE Settled(d)
      OBVIOUS
    <2>1. ASSUME NEW k \in c.combos, NEW r, r = RemoveFirst(k.item_ids, id)
          PROVE  /\ \A i \in 1..Len(r) : r[i] \in ItemIds(d)
                 /\ \A i, j \in 1..Len(r) : r[i] = r[j] => i = j
      <3> DEFINE f == k.item_ids
                 m == Len(f)
      <3>1. /\ \A i \in 1..m : f[i] \in ItemIds(c)
            /\ \A i, j \in 1..m : f[i] = f[j] => i = j
        BY DEF Settled
      <3>2. f \in Seq(Ids) /\ m \in Nat
        BY <1>2, LenProperties
      <3>3. CASE r = f /\ \A i \in 1..m : f[i] # id
        BY <1>11, <3>1, <3>3
      <3>4. ASSUME NEW q \in 1..m, f[q] = id, r = RemoveAt(f, q)
            PROVE  /\ \A i \in 1..Len(r) : r[i] \in ItemIds(d)
                   /\ \A i, j \in 1..Len(r) : r[i] = r[j] => i = j
        <4> DEFINE Up(x) == IF x < q THEN x ELSE x + 1
        <4>1. Len(r) = m - 1 /\ \A x \in 1..m - 1 : r[x] = IF x < q THEN f[x] ELSE f[x + 1]
          BY <3>2, <3>4, RemovedAt
        <4> HIDE DEF f, m, d
        <4>2. \A x \in 1..m - 1 : Up(x) \in 1..m /\ Up(x) # q /\ r[x] = f[Up(x)]
          BY <3>2, <3>4, <4>1
        <4>3. \A x, y \in 1..m - 1 : Up(x) = Up(y) => x = y
          BY <3>2, <3>4
        <4> HIDE DEF Up
        <4>4. \A x \in 1..m - 1 : r[x] \in ItemIds(c) /\ r[x] # id
          BY <3>1, <3>4, <4>2
        <4>5. \A x, y \in 1..m - 1 : r[x] = r[y] => x = y
          BY <3>1, <4>2, <4>3
        <4> QED BY <1>11, <4>1, <4>4, <4>5
      <3> QED BY <1>7, <2>1, <3>3, <3>4
    <2>2. \A l \in d.combos : \E k \in c.combos : l.item_ids = RemoveFirst(k.item_ids, id)
      BY <1>9
    <2> HIDE DEF d
    <2> QED BY <2>1, <2>2 DEF Settled
  <1> HIDE DEF d
  <1> QED BY <1>3, <1>9, <1>10, <1>12 DEF Good

LEMMA GoodCleared ==
    ASSUME NEW sound \in BOOLEAN, NEW c \in Good(sound)
    PROVE  Cleared(c) \in Good(sound)
  <1> DEFINE d == [items |-> << >>, categories |-> c.categories, combos |-> {}]
  <1>1. c \in MenuCatalog
    BY DEF Good
  <1>2. Cleared(c) = d
    <2> DEFINE s == << >>
               ks == {}
    <2>1. Cleared(c) = [c EXCEPT !.items = s, !.combos = ks]
      BY DEF Cleared
    <2>2. d = [items |-> s, categories |-> c.categories, combos |-> ks]
      OBVIOUS
    <2> HIDE DEF s, ks, d
    <2> QED BY <1>1, <2>1, <2>2, Fields
  <1>3. d \in MenuCatalog /\ Len(d.items) = 0
    BY <1>1, Fields, EmptySeq DEF MenuCatalog
  <1>4. Distinct(d) /\ Settled(d)
    BY <1>3 DEF Distinct, Settled
  <1> QED BY <1>2, <1>3, <1>4 DEF Good

LEMMA GoodWithCategory ==
    ASSUME NEW sound \in BOOLEAN, NEW c \in Good(sound), NEW cat \in Categories
    PROVE  WithCategory(c, cat) \in Good(sound)
  <1> DEFINE cats == c.categories \cup {cat}
             d == [items |-> c.items, categories |-> cats, combos |-> c.combos]
  <1>1. c \in MenuCatalog
    BY DEF Good
  <1>2. WithCategory(c, cat) = [c EXCEPT !.categories = cats]
    BY DEF WithCategory
  <1>3. cats \subseteq Categories
    BY <1>1, Fields
  <1> HIDE DEF cats
  <1>4. WithCategory(c, cat) = d
    BY <1>1, <1>2, Fields
  <1>5. d \in MenuCatalog
    BY <1>1, <1>3, Fields DEF MenuCatalog
  <1> QED BY <1>4, <1>5, SameIds

LEMMA GoodWithoutCategory ==
    ASSUME NEW sound \in BOOLEAN, NEW c \in Good(sound), NEW cat, NEW unassign \in BOOLEAN
    PROVE  WithoutCategory(c, cat, unassign) \in Good(sound)
  <1> DEFINE cats == c.categories \ {cat}
             t == IF unassign
                    THEN [i \in DOMAIN c.items |->
                            IF c.items[i].category = cat
                              THEN [c.items[i] EXCEPT !.category = None]
                              ELSE c.items[i]]
                    ELSE c.items
             d == [items |-> t, categories |-> cats, combos |-> c.combos]
             n == Len(c.items)
  <1>1. c \in MenuCatalog
    BY DEF Good
  <1>2. WithoutCategory(c, cat, unassign) = [c EXCEPT !.categories = cats, !.items = t]
    BY DEF WithoutCategory
  <1>3. cats \subseteq Categories
    BY <1>1, Fields
  <1>4. /\ n \in Nat /\ c.items \in Seq(MenuItem) /\ DOMAIN c.items = 1..n
        /\ \A i \in 1..n : c.items[i] \in MenuItem
    BY <1>1, Fields
  <1>5. t \in Seq(MenuItem) /\ Len(t) = n /\ \A i \in 1..n : t[i].id = c.items[i].id
    <2>1. CASE unassign
      <3> DEFINE u == [i \in 1..n |-> IF c.items[i].category = cat
                                        THEN [c.items[i] EXCEPT !.category = None]
                                        ELSE c.items[i]]
      <3>1. \A i \in 1..n : u[i] \in MenuItem /\ u[i].id = c.items[i].id
        BY <1>4 DEF MenuItem
      <3>2. u \in [1..n -> MenuItem]
        BY <3>1
      <3>3. u \in Seq(MenuItem) /\ Len(u) = n
        <4> HIDE DEF u, n
        <4> QED BY <1>4, <3>2, SeqDef, LenProperties
      <3>4. t = u
        BY <1>4, <2>1
      <3> HIDE DEF t, u
      <3> QED BY <3>1, <3>3, <3>4
    <2>2. CASE ~unassign
      <3>1. t = c.items
        BY <2>2
      <3> QED BY <1>4, <3>1
    <2> QED BY <2>1, <2>2
  <1> HIDE DEF t, cats
  <1>6. WithoutCategory(c, cat, unassign) = d
    BY <1>1, <1>2, Fields
  <1>7. d \in MenuCatalog
    BY <1>1, <1>3, <1>5, Fields DEF MenuCatalog
  <1> QED BY <1>5, <1>6, <1>7, SameIds

\* What callers name in a combo: some ids, none twice unless they repeat.
LEMMA RefsFacts ==
    ASSUME NEW refs \in Refs
    PROVE  /\ refs \in Seq(Ids)
           /\ ~RepeatRefs => \A i, j \in 1..Len(refs) : refs[i] = refs[j] => i = j
  <1>1. refs \in Seq(Ids)
    <2>1. PICK m \in 0..MaxRefs : refs \in [1..m -> Ids]
      BY DEF Refs, BoundedSeq, SeqOf
    <2>2. m \in Nat
      BY <2>1, MenuAssumption
    <2> QED BY <2>1, <2>2, SeqDef
  <1>2. ASSUME ~RepeatRefs PROVE \A i, j \in 1..Len(refs) : refs[i] = refs[j] => i = j
    <2> DEFINE S == 1..Len(refs)
               T == ToSet(refs)
    <2>1. Len(refs) \in Nat /\ DOMAIN refs = S /\ Cardinality(T) = Len(refs)
      BY <1>1, <1>2, LenProperties DEF Refs
    <2>2. refs \in Surjection(S, T)
      <3>1. refs \in [S -> T] /\ \A t \in T : \E i \in S : refs[i] = t
        BY <1>1, <2>1, LenProperties DEF ToSet
      <3> QED BY <3>1 DEF Surjection
    <2>3. IsFiniteSet(S) /\ Cardinality(S) = Len(refs)
      <3>1. ASSUME NEW m \in Nat PROVE IsFiniteSet(1..m) /\ Cardinality(1..m) = m
        BY FS_Interval
      <3> QED BY <2>1, <3>1
    <2> HIDE DEF S, T
    <2>4. refs \in Injection(S, T)
      BY <2>1, <2>2, <2>3, FS_Surjection
    <2> QED BY <2>4 DEF Injection, IsInjective, S
  <1> QED BY <1>1, <1>2

LEMMA GoodWithCombo ==
    ASSUME NEW sound \in BOOLEAN, NEW c \in Good(sound),
           NEW k \in ComboIds, NEW refs \in Refs, RefsKnown(c, refs)
    PROVE  WithCombo(c, [id |-> k, item_ids |-> refs]) \in Good(sound)
  <1> DEFINE combo == [id |-> k, item_ids |-> refs]
             ks == c.combos \cup {combo}
             d == [items |-> c.items, categories |-> c.categories, combos |-> ks]
  <1>1. c \in MenuCatalog
    BY DEF Good
  <1>2. WithCombo(c, combo) = [c EXCEPT !.combos = ks]
    BY DEF WithCombo
  <1>3. ks \subseteq Combo
    BY <1>1, Fields, RefsFacts DEF Combo
  <1>4. Distinct(c) => Distinct(d)
    BY DEF Distinct
  <1>5. ItemIds(d) = ItemIds(c)
    BY DEF ItemIds
  <1>6. ~RepeatRefs /\ Settled(c) => Settled(d)
    <2>1. refs \in Seq(Ids) /\ DOMAIN refs = 1..Len(refs)
      BY RefsFacts, LenProperties
    <2>2. \A i \in 1..Len(refs) : refs[i] \in ItemIds(c)
      BY <2>1 DEF RefsKnown, ToSet
    <2> QED BY <1>5, <2>2, RefsFacts DEF Settled
  <1> HIDE DEF combo, ks
  <1>7. WithCombo(c, combo) = d
    BY <1>1, <1>2, Fields
  <1>8. d \in MenuCatalog
    BY <1>1, <1>3, Fields DEF MenuCatalog
  <1> QED BY <1>4, <1>6, <1>7, <1>8 DEF Good, combo

LEMMA GoodWithoutCombo ==
    ASSUME NEW sound \in BOOLEAN, NEW c \in Good(sound), NEW k
    PROVE  WithoutCombo(c, k) \in Good(sound)
  <1> DEFINE ks == {l \in c.combos : l.id # k}
             d == [items |-> c.items, categories |-> c.categories, combos |-> ks]
  <1>1. c \in MenuCatalog
    BY DEF Good
  <1>2. WithoutCombo(c, k) = [c EXCEPT !.combos = ks]
    BY DEF WithoutCombo
  <1>3. ks \subseteq c.combos
    OBVIOUS
  <1> HIDE DEF ks
  <1>4. WithoutCombo(c, k) = d
    BY <1>1, <1>2, Fields
  <1>5. d \in MenuCatalog
    BY <1>1, <1>3, Fields DEF MenuCatalog
  <1> QED BY <1>3, <1>4, <1>5, SameIds

LEMMA NewItemFacts ==
    ASSUME NEW c, NEW raw \in Raw, NewItem(c, raw).id \in Ids,
           NewItem(c, raw).stock \in Stock
    PROVE  NewItem(c, raw) \in MenuItem
  BY DEF NewItem, Raw, MenuItem

LEMMA Appended ==
    ASSUME NEW T, NEW c, Shape(c), c.items \in Seq(T), NEW item
    PROVE  /\ Shape(WithItem(c, item))
           /\ WithItem(c, item).items \in Seq(T \cup {item})
           /\ ItemIds(WithItem(c, item)) = ItemIds(c) \cup {item.id}
  <1> DEFINE s == c.items
             t == Append(s, item)
             d == [items |-> t, categories |-> c.categories, combos |-> c.combos]
             n == Len(s)
             U == T \cup {item}
  <1>1. WithItem(c, item) = d
    BY DEF WithItem, Shape
  <1>2. s \in Seq(U) /\ item \in U
    BY SeqMonotonic
  <1>3. n \in Nat /\ DOMAIN s = 1..n
    BY <1>2, LenProperties
  <1>4. /\ t \in Seq(U) /\ Len(t) = n + 1 /\ t[n + 1] = item
        /\ \A i \in 1..n : t[i] = s[i]
    BY <1>2, AppendProperties
  <1>5. DOMAIN t = 1..n + 1
    BY <1>4, LenProperties
  <1>6. d.items = t /\ Shape(d)
    BY DEF Shape
  <1>7. ItemIds(c) = {s[i].id : i \in 1..n} /\ ItemIds(d) = {t[i].id : i \in 1..n + 1}
    BY <1>3, <1>5 DEF ItemIds
  <1> HIDE DEF s, t, d, n, U
  <1>8. 1..n + 1 = 1..n \cup {n + 1}
    BY <1>3
  <1>9. ItemIds(d) = ItemIds(c) \cup {item.id}
    BY <1>4, <1>7, <1>8
  <1> QED BY <1>1, <1>4, <1>6, <1>9 DEF U

\* One item of import_items, whatever id it is given.
LEMMA AddedFacts ==
    ASSUME NEW c, NEW ok \in BOOLEAN, NEW raw
    PROVE  \E d, fine :
             /\ fine \in BOOLEAN
             /\ Added([catalog |-> c, ok |-> ok], raw) = [catalog |-> d, ok |-> fine]
             /\ \/ d = c
                \/ /\ NewItem(c, raw).id \notin ItemIds(c)
                   /\ NewItem(c, raw).stock \in Stock
                   /\ d = WithItem(c, NewItem(c, raw))
  <1> DEFINE item == NewItem(c, raw)
             acc == [catalog |-> c, ok |-> ok]
  <1>1. CASE ok /\ item.id \notin ItemIds(c) /\ item.stock \in Stock
    <2>1. Added(acc, raw) = [acc EXCEPT !.catalog = WithItem(c, item)]
      BY <1>1 DEF Added
    <2> HIDE DEF item
    <2>2. Added(acc, raw) = [catalog |-> WithItem(c, item), ok |-> ok]
      BY <2>1
    <2> QED BY <1>1, <2>2 DEF item
  <1>2. CASE ~(ok /\ item.id \notin ItemIds(c) /\ item.stock \in Stock)
    <2>1. Added(acc, raw) = [acc EXCEPT !.ok = FALSE]
      BY <1>2 DEF Added
    <2>2. Added(acc, raw) = [catalog |-> c, ok |-> FALSE]
      BY <2>1
    <2> QED BY <2>2
  <1> QED BY <1>1, <1>2

LEMMA GoodImported ==
    ASSUME NEW sound \in BOOLEAN, NEW c \in Good(sound), NEW raw1 \in Raw, NEW raw2 \in Raw,
           ItemIds(Imported(c, raw1, raw2).catalog) \subseteq Ids
    PROVE  Imported(c, raw1, raw2).catalog \in Good(sound)
  <1>1. Shape(c) /\ c.items \in Seq(MenuItem)
    BY Fields DEF Good, Shape
  <1>2. PICK d, ok :
             /\ ok \in BOOLEAN
             /\ Added([catalog |-> c, ok |-> TRUE], raw1) = [catalog |-> d, ok |-> ok]
             /\ \/ d = c
                \/ /\ NewItem(c, raw1).id \notin ItemIds(c)
                   /\ NewItem(c, raw1).stock \in Stock
                   /\ d = WithItem(c, NewItem(c, raw1))
    BY AddedFacts, Zenon
  <1>3. PICK T : Shape(d) /\ d.items \in Seq(T)
    <2> DEFINE item == NewItem(c, raw1)
    <2>1. Shape(WithItem(c, item)) /\ WithItem(c, item).items \in Seq(MenuItem \cup {item})
      <3> HIDE DEF item
      <3> QED BY <1>1, Appended
    <2> QED BY <1>1, <1>2, <2>1
  <1>4. PICK e, fine :
             /\ fine \in BOOLEAN
             /\ Added([catalog |-> d, ok |-> ok], raw2) = [catalog |-> e, ok |-> fine]
             /\ \/ e = d
                \/ /\ NewItem(d, raw2).id \notin ItemIds(d)
                   /\ NewItem(d, raw2).stock \in Stock
                   /\ e = WithItem(d, NewItem(d, raw2))
    <2>1. ok \in BOOLEAN
      BY <1>2
    <2> QED BY <2>1, AddedFacts, Zenon
  <1>5. Imported(c, raw1, raw2).catalog = e
    BY <1>2, <1>4 DEF Imported
  <1>6. ItemIds(d) \subseteq ItemIds(e) /\ ItemIds(e) \subseteq Ids
    <2>1. ASSUME NEW item PROVE ItemIds(WithItem(d, item)) = ItemIds(d) \cup {item.id}
      BY <1>3, Appended, Zenon
    <2> QED BY <1>4, <1>5, <2>1
  <1>7. ASSUME NEW a \in Good(sound), NEW raw \in Raw, NewItem(a, raw).id \notin ItemIds(a),
               NewItem(a, raw).stock \in Stock,
               ItemIds(WithItem(a, NewItem(a, raw))) \subseteq Ids
        PROVE  WithItem(a, NewItem(a, raw)) \in Good(sound)
    <2>1. Shape(a) /\ a.items \in Seq(MenuItem)
      BY Fields DEF Good, Shape
    <2>2. NewItem(a, raw).id \in Ids
      <3>1. ASSUME NEW item PROVE ItemIds(WithItem(a, item)) = ItemIds(a) \cup {item.id}
        BY <2>1, Appended, Zenon
      <3> QED BY <1>7, <3>1
    <2> QED BY <1>7, <2>2, NewItemFacts, GoodWithItem
  <1>8. d \in Good(sound)
    BY <1>2, <1>6, <1>7
  <1> QED BY <1>4, <1>5, <1>6, <1>7, <1>8
-----------------------------------------------------------------------------
(* A mutation, whichever it is: a good catalog is saved, or nothing is. *)

Saved(h, c) ==
    /\ mem' = [mem EXCEPT ![h] = c]
    /\ stored' = c
    /\ menu' = IF Serial THEN c ELSE menu

NotSaved(h, c) ==
    /\ Left(h, c)
    /\ UNCHANGED << stored, menu >>

Mutated(h, sound) == \E c \in Good(sound) : Saved(h, c) \/ NotSaved(h, c)

LEMMA Persisted ==
    ASSUME NEW sound, NEW h, NEW edit, Persist(h, edit), edit[mem[h]] \in Good(sound),
           Serial => menu = mem[h]
    PROVE  Mutated(h, sound)
  BY DEF Persist, Mutated, Saved, NotSaved

LEMMA Mutations ==
    ASSUME NEW sound \in BOOLEAN, NEW h \in Handles, Mutate(h),
           Live(h) => mem[h] \in Good(sound) /\ (Serial => menu = mem[h])
    PROVE  Live(h) /\ Mutated(h, sound)
  <1> DEFINE c == mem[h]
             Is(edit, d) == edit[mem[h]] = d
  <1>1. c \in Edited(h)
    BY DEF Edited
  <1>2. \A id \in ItemIds(c) : Live(h) => GetItem(c, id) \in MenuItem /\ GetItem(c, id).id = id
    BY FirstPosition DEF Good
  <1>3. CASE ClearItems(h)
    <2> DEFINE edit == [d \in Edited(h) |-> Cleared(d)]
    <2>1. Live(h) /\ Persist(h, edit) /\ edit[c] = Cleared(c)
      BY <1>1, <1>3 DEF ClearItems
    <2> HIDE DEF edit
    <2> QED BY <2>1, GoodCleared, Persisted
  <1>4. ASSUME NEW raw \in Raw, AddItem(h, raw) PROVE Live(h) /\ Mutated(h, sound)
    <2> DEFINE item == NewItem(c, raw)
               edit == [d \in Edited(h) |-> WithItem(d, item)]
    <2>1. /\ Live(h) /\ Persist(h, edit) /\ edit[c] = WithItem(c, item)
          /\ item.id \in Ids \ ItemIds(c) /\ item.stock \in Stock
      BY <1>1, <1>4 DEF AddItem
    <2>2. item \in MenuItem
      BY <2>1, NewItemFacts
    <2> HIDE DEF edit, item
    <2> QED BY <2>1, <2>2, GoodWithItem, Persisted
  <1>5. ASSUME NEW id \in Ids, NEW new \in Ids, NEW cat \in Categories \cup {None},
               NEW stock \in Given, UpdateItem(h, id, new, cat, stock)
        PROVE  Live(h) /\ Mutated(h, sound)
    <2> DEFINE item == [id |-> new, stock |-> stock, category |-> cat]
               edit == [d \in Edited(h) |-> WithUpdate(d, id, item)]
    <2>1. /\ Live(h) /\ Persist(h, edit) /\ edit[c] = WithUpdate(c, id, item)
          /\ id \in ItemIds(c) /\ (new = id \/ Renames) /\ stock \in Stock
      BY <1>1, <1>5 DEF UpdateItem
    <2>2. item \in MenuItem /\ item.id = new
      BY <2>1 DEF MenuItem
    <2> HIDE DEF edit, item
    <2> QED BY <2>1, <2>2, GoodWithUpdate, Persisted
  <1>6. ASSUME NEW id \in Ids, NEW stock \in Stock, SetStock(h, id, stock)
        PROVE  Live(h) /\ Mutated(h, sound)
    <2> DEFINE item == [GetItem(c, id) EXCEPT !.stock = stock]
               edit == [d \in Edited(h) |-> WithUpdate(d, id, [GetItem(d, id) EXCEPT !.stock = stock])]
    <2>1. /\ Live(h) /\ Persist(h, edit) /\ edit[c] = WithUpdate(c, id, item) /\ id \in ItemIds(c)
      BY <1>1, <1>6 DEF SetStock
    <2>2. item \in MenuItem /\ item.id = id
      BY <1>2, <2>1 DEF MenuItem
    <2> HIDE DEF edit, item
    <2> QED BY <2>1, <2>2, GoodWithUpdate, Persisted
  <1>7. ASSUME NEW id \in Ids, NEW delta \in -MaxStock..MaxStock, AdjustStock(h, id, delta)
        PROVE  Live(h) /\ Mutated(h, sound)
    <2> DEFINE stock == GetItem(c, id).stock + delta
               item == [GetItem(c, id) EXCEPT !.stock = @ + delta]
               edit == [d \in Edited(h) |-> WithUpdate(d, id, [GetItem(d, id) EXCEPT !.stock = @ + delta])]
    <2>1. /\ Live(h) /\ Persist(h, edit) /\ edit[c] = WithUpdate(c, id, item)
          /\ id \in ItemIds(c) /\ stock \in 0..MaxStock
      BY <1>1, <1>7 DEF AdjustStock
    <2>2. item = [GetItem(c, id) EXCEPT !.stock = stock]
      OBVIOUS
    <2> HIDE DEF edit, item, stock
    <2>3. stock \in Stock
      BY <2>1, MenuAssumption DEF Stock
    <2>4. item \in MenuItem /\ item.id = id
      BY <1>2, <2>1, <2>2, <2>3 DEF MenuItem
    <2> QED BY <2>1, <2>4, GoodWithUpdate, Persisted
  <1>8. ASSUME NEW id \in Ids, RemoveItem(h, id) PROVE Live(h) /\ Mutated(h, sound)
    <2> DEFINE edit == [d \in Edited(h) |-> WithoutItem(d, id)]
    <2>1. Live(h) /\ Persist(h, edit) /\ edit[c] = WithoutItem(c, id) /\ id \in ItemIds(c)
      BY <1>1, <1>8 DEF RemoveItem
    <2> HIDE DEF edit
    <2> QED BY <2>1, GoodWithoutItem, Persisted
  <1>9. ASSUME NEW cat \in Categories, AddCategory(h, cat) PROVE Live(h) /\ Mutated(h, sound)
    <2> DEFINE edit == [d \in Edited(h) |-> WithCategory(d, cat)]
    <2>1. Live(h) /\ Persist(h, edit) /\ edit[c] = WithCategory(c, cat)
      BY <1>1, <1>9 DEF AddCategory
    <2> HIDE DEF edit
    <2> QED BY <2>1, GoodWithCategory, Persisted
  <1>10. ASSUME NEW cat \in Categories, NEW unassign \in BOOLEAN, RemoveCategory(h, cat, unassign)
         PROVE  Live(h) /\ Mutated(h, sound)
    <2> DEFINE edit == [d \in Edited(h) |-> WithoutCategory(d, cat, unassign)]
    <2>1. Live(h) /\ Persist(h, edit) /\ edit[c] = WithoutCategory(c, cat, unassign)
      BY <1>1, <1>10 DEF RemoveCategory
    <2> HIDE DEF edit
    <2> QED BY <2>1, GoodWithoutCategory, Persisted
  <1>11. ASSUME NEW k \in ComboIds, NEW refs \in Refs, AddCombo(h, k, refs)
         PROVE  Live(h) /\ Mutated(h, sound)
    <2> DEFINE combo == [id |-> k, item_ids |-> refs]
               edit == [d \in Edited(h) |-> WithCombo(d, combo)]
    <2>1. Live(h) /\ Persist(h, edit) /\ edit[c] = WithCombo(c, combo) /\ RefsKnown(c, refs)
      BY <1>1, <1>11 DEF AddCombo
    <2>2. Live(h) => WithCombo(c, combo) \in Good(sound)
      BY <2>1, GoodWithCombo
    <2> HIDE DEF edit, combo
    <2> QED BY <2>1, <2>2, Persisted
  <1>12. ASSUME NEW k \in ComboIds, RemoveCombo(h, k) PROVE Live(h) /\ Mutated(h, sound)
    <2> DEFINE edit == [d \in Edited(h) |-> WithoutCombo(d, k)]
    <2>1. Live(h) /\ Persist(h, edit) /\ edit[c] = WithoutCombo(c, k)
      BY <1>1, <1>12 DEF RemoveCombo
    <2> HIDE DEF edit
    <2> QED BY <2>1, GoodWithoutCombo, Persisted
  <1>13. ASSUME NEW raw1 \in Raw, NEW raw2 \in Raw, ImportItems(h, raw1, raw2)
         PROVE  Live(h) /\ Mutated(h, sound)
    <2> DEFINE result == Imported(c, raw1, raw2).catalog
               edit == [d \in Edited(h) |-> Imported(d, raw1, raw2).catalog]
    <2>1. Live(h) /\ edit[c] = result /\ ItemIds(result) \subseteq Ids
      BY <1>1, <1>13 DEF ImportItems
    <2>2. Persist(h, edit) \/ NotSaved(h, result)
      BY <1>13 DEF ImportItems, NotSaved
    <2>3. result \in Good(sound)
      BY <2>1, GoodImported
    <2> HIDE DEF edit, result
    <2> QED BY <2>1, <2>2, <2>3, Persisted DEF Mutated
  <1> QED BY <1>3, <1>4, <1>5, <1>6, <1>7, <1>8, <1>9, <1>10, <1>11, <1>12, <1>13 DEF Mutate
-----------------------------------------------------------------------------
(* Registries whose load is one step. *)

RegistryInv ==
    /\ stored \in Good(TRUE)
    /\ menu \in Good(TRUE)
    /\ mem \in [Handles -> Good(TRUE) \cup {None}]
    /\ Serial => /\ stored = menu
                 /\ \A h \in Handles : Live(h) => mem[h] = menu
                 /\ \A g, h \in Handles : Live(g) /\ Live(h) => g = h

LEMMA EmptyIsGood == \A sound : EmptyCatalog \in Good(sound)
  <1>1. EmptyCatalog \in MenuCatalog /\ Len(EmptyCatalog.items) = 0 /\ EmptyCatalog.combos = {}
    BY EmptySeq DEF EmptyCatalog, MenuCatalog
  <1> QED BY <1>1 DEF Good, Distinct, Settled

LEMMA RegistryInvInit == Init => RegistryInv
  BY EmptyIsGood DEF Init, RegistryInv, Live

LEMMA RegistryInvStep == RegistryInv /\ [Next]_vars => RegistryInv'
  <1> SUFFICES ASSUME RegistryInv, [Next]_vars PROVE RegistryInv'
    OBVIOUS
  <1>1. ASSUME NEW h \in Handles, Load(h) PROVE RegistryInv'
    BY <1>1 DEF RegistryInv, Load, Live
  <1>2. ASSUME NEW h \in Handles, Drop(h) PROVE RegistryInv'
    BY <1>2 DEF RegistryInv, Drop, Live
  <1>3. ASSUME NEW h \in Handles, Mutate(h) PROVE RegistryInv'
    <2>1. Live(h) => mem[h] \in Good(TRUE) /\ (Serial => menu = mem[h])
      BY DEF RegistryInv, Live
    <2>2. PICK c \in Good(TRUE) : Live(h) /\ (Saved(h, c) \/ NotSaved(h, c))
      BY <1>3, <2>1, Mutations DEF Mutated
    <2>3. CASE Saved(h, c)
      BY <2>2, <2>3 DEF RegistryInv, Saved, Live
    <2>4. CASE NotSaved(h, c)
      BY <2>2, <2>4 DEF RegistryInv, NotSaved, Left, Live
    <2> QED BY <2>2, <2>3, <2>4
  <1>4. CASE UNCHANGED vars
    BY <1>4 DEF RegistryInv, vars, Live
  <1> QED BY <1>1, <1>2, <1>3, <1>4 DEF Next

LEMMA Always == Spec => []RegistryInv
  BY RegistryInvInit, RegistryInvStep, PTL DEF Spec

LEMMA GoodCatalogs == ASSUME RegistryInv, NEW c \in Catalogs PROVE c \in Good(TRUE)
  BY DEF RegistryInv, Catalogs, Live

\* A catalog has finitely many ids: one for each item if none is there twice.
LEMMA CountIds ==
    ASSUME NEW c \in MenuCatalog
    PROVE  /\ IsFiniteSet(ItemIds(c))
           /\ Distinct(c) => Cardinality(ItemIds(c)) = Len(c.items)
  <1> DEFINE n == Len(c.items)
             S == 1..n
             T == ItemIds(c)
             f == [i \in S |-> c.items[i].id]
  <1>1. n \in Nat /\ T = {f[i] : i \in S}
    BY Fields
  <1>2. IsFiniteSet(S) /\ Cardinality(S) = n
    <2> HIDE DEF n
    <2> QED BY <1>1, FS_Interval
  <1>3. f \in Surjection(S, T)
    <2>1. DOMAIN f = S
      OBVIOUS
    <2>2. f \in [S -> T] /\ \A t \in T : \E i \in S : f[i] = t
      <3> HIDE DEF S, T
      <3> QED BY <1>1
    <2> QED BY <2>2 DEF Surjection
  <1>4. Distinct(c) => f \in Injection(S, T)
    BY <1>3 DEF Surjection, Injection, IsInjective, Distinct
  <1> HIDE DEF S, T, f, n
  <1>5. IsFiniteSet(T) /\ (f \in Injection(S, T) => Cardinality(T) = Cardinality(S))
    BY <1>2, <1>3, FS_Surjection
  <1> QED BY <1>2, <1>4, <1>5 DEF n, T

\* What registries hold and store is a menu, whatever callers rename or repeat.
THEOREM RegistryTypeCorrect == Spec => []TypeOK
  <1>1. RegistryInv => TypeOK
    BY DEF RegistryInv, TypeOK, Live, Good
  <1> QED BY <1>1, Always, PTL

\* No catalog lists an id twice, however many registries overwrite each other,
\* as long as nobody changes an id through update_item.
THEOREM IdsAreUnique == ASSUME ~Renames PROVE Spec => []ItemIdsAreUnique
  <1>1. RegistryInv => ItemIdsAreUnique
    BY GoodCatalogs, CountIds DEF ItemIdsAreUnique, Good
  <1> QED BY <1>1, Always, PTL

\* No combo names an item that is gone, provided that besides no caller names an
\* item twice in one combo.
THEOREM CombosStayWhole ==
    ASSUME ~Renames, ~RepeatRefs
    PROVE  Spec => []CombosNeverDangle
  <1>1. ASSUME RegistryInv PROVE CombosNeverDangle
    <2>1. ASSUME NEW c \in Catalogs, NEW k \in c.combos PROVE ToSet(k.item_ids) \subseteq ItemIds(c)
      <3>1. c \in MenuCatalog /\ Settled(c)
        BY <1>1, GoodCatalogs DEF Good
      <3>2. DOMAIN k.item_ids = 1..Len(k.item_ids)
        BY <3>1, Fields, LenProperties DEF Combo
      <3> QED BY <3>1, <3>2 DEF Settled, ToSet
    <2> QED BY <2>1 DEF CombosNeverDangle
  <1> QED BY <1>1, Always, PTL

\* The suffix search ends: among one more numbers than ids there is a free one.
LEMMA UniqueIdIsFree ==
    ASSUME NEW slug, NEW existing, IsFiniteSet(existing)
    PROVE  \E n \in Nat \ {0} : /\ UniqueId(slug, existing) = << slug, n >>
                                /\ << slug, n >> \notin existing
                                /\ \A m \in 1..n - 1 : << slug, m >> \in existing
  <1> DEFINE C == Cardinality(existing) + 1
             free == {n \in 1..C : << slug, n >> \notin existing}
             Found(n) == /\ << slug, n >> \notin existing
                         /\ \A m \in 1..n - 1 : << slug, m >> \in existing
  <1>1. Cardinality(existing) \in Nat
    BY FS_CardinalityType
  <1>2. free # {}
    <2> SUFFICES ASSUME \A n \in 1..C : << slug, n >> \in existing PROVE FALSE
      OBVIOUS
    <2> DEFINE S == 1..C
               f == [n \in S |-> << slug, n >>]
    <2>1. f \in Injection(S, existing)
      <3>1. f \in [S -> existing] /\ \A m, n \in S : f[m] = f[n] => m = n
        OBVIOUS
      <3> QED BY <3>1 DEF Injection, IsInjective
    <2>2. Cardinality(S) = C
      <3>1. ASSUME NEW m \in Nat PROVE Cardinality(1..m) = m
        BY FS_Interval
      <3> QED BY <1>1, <3>1
    <2> HIDE DEF S, f
    <2>3. Cardinality(S) <= Cardinality(existing)
      BY <2>1, FS_Injection
    <2> QED BY <1>1, <2>2, <2>3
  <1>3. PICK m \in free : \A n \in free : m <= n
    <2>1. free \in SUBSET Nat
      BY <1>1
    <2> HIDE DEF free
    <2> QED BY <1>2, <2>1, Least
  <1>4. m \in 1..C /\ Found(m)
    BY <1>1, <1>3
  <1>5. UniqueId(slug, existing) = << slug, CHOOSE n \in 1..C : Found(n) >>
    BY DEF UniqueId
  <1> DEFINE k == CHOOSE n \in 1..C : Found(n)
  <1>6. k \in 1..C /\ Found(k)
    <2> HIDE DEF C, Found
    <2> QED BY <1>4
  <1>7. k \in Nat \ {0} /\ UniqueId(slug, existing) = << slug, k >>
    <2>1. UniqueId(slug, existing) = << slug, k >>
      BY <1>5
    <2> HIDE DEF k
    <2> QED BY <1>1, <1>6, <2>1
  <1> HIDE DEF k
  <1> QED BY <1>6, <1>7

\* The id add_item and import_items give a name is one the catalog does not have:
\* the plain slug, or the slug with the least suffix that is free.
FreshIds ==
    \A h \in Handles, slug \in Slugs : Live(h) =>
        \E n \in Nat \ {0} :
            /\ UniqueId(slug, ItemIds(mem[h])) = << slug, n >>
            /\ << slug, n >> \notin ItemIds(mem[h])
            /\ \A m \in 1..n - 1 : << slug, m >> \in ItemIds(mem[h])

\* A name is never refused for its id: the suffix search always finds a free one,
\* after any removals and explicit ids that look like suffixed ones.
THEOREM NamesGetFreshIds == Spec => []FreshIds
  <1>1. RegistryInv => FreshIds
    BY CountIds, UniqueIdIsFree DEF RegistryInv, FreshIds, Live, Good
  <1> QED BY <1>1, Always, PTL
-----------------------------------------------------------------------------
(* Registries whose load is three SELECTs. *)

\* h is in a request: it loads, or it has a registry.
Busy(h) == Live(h) \/ reading[h].pc # "idle"

\* What a load has read so far is what is stored.
Consistent(h) ==
    LET c == reading[h].catalog IN
    /\ c.items = stored.items
    /\ reading[h].pc \in {"combos", "build"} => c.categories = stored.categories
    /\ reading[h].pc = "build" => c.combos = stored.combos
    /\ stored \in reading[h].seen

\* One request at a time.
Alone ==
    /\ stored = menu
    /\ \A h \in Handles :
         /\ Live(h) => mem[h] = stored /\ reading[h].pc = "idle"
         /\ reading[h].pc # "idle" => Consistent(h)
    /\ \A g, h \in Handles : Busy(g) /\ Busy(h) => g = h

\* A load that is overtaken may read combos whose items are gone, but no catalog
\* lists an id twice: hence Good(FALSE).
GoodReadings == [pc      : {"idle", "categories", "combos", "build"},
                 catalog : Good(FALSE),
                 seen    : SUBSET MenuCatalog]

Inv ==
    /\ stored \in Good(FALSE)
    /\ menu \in Good(FALSE)
    /\ mem \in [Handles -> Good(FALSE) \cup {None}]
    /\ reading \in [Handles -> GoodReadings]
    /\ Serial => Alone

\* Without combos to look at, goodness is a matter of the items.
LEMMA GoodParts ==
    ASSUME NEW c \in Good(FALSE), NEW s \in Good(FALSE)
    PROVE  /\ c \in MenuCatalog /\ Shape(c)
           /\ [c EXCEPT !.items = s.items] \in Good(FALSE)
           /\ [c EXCEPT !.categories = s.categories] \in Good(FALSE)
           /\ [c EXCEPT !.combos = s.combos] \in Good(FALSE)
  <1>1. c \in MenuCatalog /\ s \in MenuCatalog /\ Shape(c)
    BY Fields DEF Good, Shape
  <1>2. /\ [c EXCEPT !.items = s.items] \in MenuCatalog
        /\ [c EXCEPT !.categories = s.categories] \in MenuCatalog
        /\ [c EXCEPT !.combos = s.combos] \in MenuCatalog
    BY <1>1 DEF MenuCatalog
  <1>3. /\ Distinct(s) => Distinct([c EXCEPT !.items = s.items])
        /\ Distinct(c) => Distinct([c EXCEPT !.categories = s.categories])
        /\ Distinct(c) => Distinct([c EXCEPT !.combos = s.combos])
    BY <1>1 DEF MenuCatalog, Distinct
  <1> QED BY <1>1, <1>2, <1>3 DEF Good

LEMMA ReadingFacts ==
    ASSUME NEW pc \in {"idle", "categories", "combos", "build"},
           NEW c \in Good(FALSE), NEW seen \in SUBSET MenuCatalog
    PROVE  [pc |-> pc, catalog |-> c, seen |-> seen] \in GoodReadings
  BY DEF GoodReadings

LEMMA InvInit == StoreInit => Inv
  <1>1. EmptyCatalog \in Good(FALSE)
    BY EmptyIsGood
  <1>2. NotReading \in GoodReadings /\ NotReading.pc = "idle"
    BY <1>1, ReadingFacts DEF NotReading
  <1> QED BY <1>1, <1>2 DEF StoreInit, Init, Inv, Alone, Busy, Live

\* What the steps of a load do to it.
LEMMA LoadSteps ==
    ASSUME Inv, NEW h \in Handles, NEW r \in GoodReadings,
           reading' = [reading EXCEPT ![h] = r],
           UNCHANGED vars,
           Serial => \A g \in Handles : g # h => ~Busy(g),
           Serial /\ r.pc # "idle" => ~Live(h) /\ Consistent(h)'
    PROVE  Inv'
  <1>1. reading' \in [Handles -> GoodReadings] /\ reading'[h] = r
    BY DEF Inv
  <1>2. ASSUME Serial PROVE Alone'
    <2>1. \A g \in Handles : g # h => ~Busy(g)' /\ reading'[g] = reading[g]
      BY <1>2 DEF Inv, Busy, Live, vars
    <2>2. Live(h)' => mem'[h] = stored' /\ reading'[h].pc = "idle"
      BY <1>1, <1>2 DEF Inv, Alone, Live, vars
    <2>3. reading'[h].pc # "idle" => Consistent(h)'
      BY <1>1, <1>2
    <2>4. stored' = menu'
      BY <1>2 DEF Inv, Alone, vars
    <2> QED BY <2>1, <2>2, <2>3, <2>4 DEF Alone, Busy
  <1> QED BY <1>1, <1>2 DEF Inv, vars

LEMMA SelectItemsInv ==
    ASSUME Inv, NEW h \in Handles, SelectItems(h)
    PROVE  Inv'
  <1> DEFINE r == [pc |-> "categories", catalog |-> [EmptyCatalog EXCEPT !.items = stored.items],
                   seen |-> {stored}]
  <1>1. r.catalog \in Good(FALSE) /\ r.seen \in SUBSET MenuCatalog
    BY EmptyIsGood, GoodParts DEF Inv
  <1>2. r \in GoodReadings
    BY <1>1, ReadingFacts
  <1>3. reading' = [reading EXCEPT ![h] = r] /\ UNCHANGED vars
    BY DEF SelectItems
  <1>4. r.catalog.items = stored.items /\ r.pc = "categories" /\ stored \in r.seen
    BY DEF EmptyCatalog
  <1>5. Serial => \A g \in Handles : ~Busy(g)
    BY DEF SelectItems, Busy, Live
  <1> HIDE DEF r
  <1>6. Consistent(h)'
    BY <1>3, <1>4 DEF Consistent, vars, Inv
  <1> QED BY <1>2, <1>3, <1>4, <1>5, <1>6, LoadSteps DEF Busy

LEMMA NextSelectInv ==
    ASSUME Inv, NEW h \in Handles, NEW pc \in {"combos", "build"}, NEW c \in Good(FALSE),
           LET old == reading[h] IN
             /\ old.pc # "idle"
             /\ reading' = [reading EXCEPT ![h] = [pc |-> pc, catalog |-> c, seen |-> old.seen]]
             /\ Serial => /\ c.items = old.catalog.items
                          /\ c.categories = stored.categories
                          /\ pc = "build" => c.combos = stored.combos,
           UNCHANGED vars
    PROVE  Inv'
  <1> DEFINE r == [pc |-> pc, catalog |-> c, seen |-> reading[h].seen]
  <1>1. r \in GoodReadings
    BY ReadingFacts DEF Inv, GoodReadings
  <1>2. Serial => \A g \in Handles : g # h => ~Busy(g)
    BY DEF Inv, Alone, Busy
  <1>3. Serial => ~Live(h) /\ Consistent(h)
    BY DEF Inv, Alone
  <1>4. Serial => Consistent(h)'
    BY <1>3 DEF Consistent, vars, Inv
  <1> HIDE DEF r
  <1> QED BY <1>1, <1>2, <1>3, <1>4, LoadSteps DEF r

LEMMA LoadInv ==
    ASSUME Inv, NEW h \in Handles,
           SelectItems(h) \/ SelectCategories(h) \/ SelectCombos(h)
    PROVE  Inv'
  <1> DEFINE old == reading[h]
             c == old.catalog
  <1>1. /\ old = [pc |-> old.pc, catalog |-> c, seen |-> old.seen]
        /\ c \in Good(FALSE) /\ c \in MenuCatalog /\ Shape(c)
    BY GoodParts DEF Inv, GoodReadings
  <1>2. Serial /\ old.pc # "idle" => Consistent(h)
    BY DEF Inv, Alone
  <1>3. CASE SelectCategories(h)
    <2> DEFINE d == [c EXCEPT !.categories = stored.categories]
    <2>1. d \in Good(FALSE) /\ d.items = c.items /\ d.categories = stored.categories
      BY <1>1, GoodParts DEF Inv, Shape
    <2>2. reading' = [[reading EXCEPT ![h].pc = "combos"] EXCEPT ![h].catalog.categories = stored.categories]
      BY <1>3 DEF SelectCategories
    <2>3. old.pc = "categories" /\ UNCHANGED vars
      BY <1>3 DEF SelectCategories
    <2>4. reading' = [reading EXCEPT ![h] = [pc |-> "combos", catalog |-> d, seen |-> old.seen]]
      <3> DEFINE mid == [old EXCEPT !.pc = "combos"]
      <3>1. reading' = [reading EXCEPT ![h] = [mid EXCEPT !.catalog = [mid.catalog EXCEPT !.categories = stored.categories]]]
        BY <2>2 DEF Inv
      <3>2. mid = [pc |-> "combos", catalog |-> c, seen |-> old.seen]
        <4> HIDE DEF old, c
        <4> QED BY <1>1
      <3> HIDE DEF mid, old, c, d
      <3>3. mid.catalog = c /\ [mid EXCEPT !.catalog = d] = [pc |-> "combos", catalog |-> d, seen |-> old.seen]
        BY <3>2
      <3>4. reading' = [reading EXCEPT ![h] = [mid EXCEPT !.catalog = d]]
        BY <3>1, <3>3 DEF d
      <3> QED BY <3>3, <3>4
    <2> HIDE DEF d
    <2> QED BY <1>2, <2>1, <2>3, <2>4, NextSelectInv DEF Consistent
  <1>4. CASE SelectCombos(h)
    <2> DEFINE d == [c EXCEPT !.combos = stored.combos]
    <2>1. d \in Good(FALSE) /\ d.items = c.items /\ d.categories = c.categories /\ d.combos = stored.combos
      BY <1>1, GoodParts DEF Inv, Shape
    <2>2. reading' = [[reading EXCEPT ![h].pc = "build"] EXCEPT ![h].catalog.combos = stored.combos]
      BY <1>4 DEF SelectCombos
    <2>3. old.pc = "combos" /\ UNCHANGED vars
      BY <1>4 DEF SelectCombos
    <2>4. reading' = [reading EXCEPT ![h] = [pc |-> "build", catalog |-> d, seen |-> old.seen]]
      <3> DEFINE mid == [old EXCEPT !.pc = "build"]
      <3>1. reading' = [reading EXCEPT ![h] = [mid EXCEPT !.catalog = [mid.catalog EXCEPT !.combos = stored.combos]]]
        BY <2>2 DEF Inv
      <3>2. mid = [pc |-> "build", catalog |-> c, seen |-> old.seen]
        <4> HIDE DEF old, c
        <4> QED BY <1>1
      <3> HIDE DEF mid, old, c, d
      <3>3. mid.catalog = c /\ [mid EXCEPT !.catalog = d] = [pc |-> "build", catalog |-> d, seen |-> old.seen]
        BY <3>2
      <3>4. reading' = [reading EXCEPT ![h] = [mid EXCEPT !.catalog = d]]
        BY <3>1, <3>3 DEF d
      <3> QED BY <3>3, <3>4
    <2> HIDE DEF d
    <2> QED BY <1>2, <2>1, <2>3, <2>4, NextSelectInv DEF Consistent
  <1> QED BY <1>3, <1>4, SelectItemsInv

\* With nobody beside it, the end of a load gives the stored catalog.
LEMMA LoadedIsStored ==
    ASSUME Inv, Serial, NEW h \in Handles, Build(h)
    PROVE  /\ reading[h].catalog = stored
           /\ stored \in reading[h].seen
           /\ \A g \in Handles : ~Live(g) /\ (g # h => reading[g].pc = "idle")
  <1>1. reading[h].pc = "build" /\ Consistent(h)
    BY DEF Build, Inv, Alone
  <1>2. Shape(reading[h].catalog) /\ Shape(stored)
    BY GoodParts DEF Inv, GoodReadings
  <1>3. reading[h].catalog = stored
    BY <1>1, <1>2 DEF Consistent, Shape
  <1> QED BY <1>1, <1>3 DEF Consistent, Inv, Alone, Busy

LEMMA BuildInv ==
    ASSUME Inv, NEW h \in Handles, Build(h)
    PROVE  Inv'
  <1>1. /\ mem' = [mem EXCEPT ![h] = reading[h].catalog]
        /\ reading' = [reading EXCEPT ![h] = NotReading]
        /\ UNCHANGED << stored, menu >>
    BY DEF Build
  <1>2. NotReading \in GoodReadings /\ NotReading.pc = "idle"
    BY EmptyIsGood, ReadingFacts DEF NotReading
  <1>3. reading[h].catalog \in Good(FALSE)
    BY DEF Inv, GoodReadings
  <1>4. ASSUME Serial PROVE Alone'
    BY <1>1, <1>2, <1>4, LoadedIsStored DEF Inv, Alone, Busy, Live
  <1> QED BY <1>1, <1>2, <1>3, <1>4 DEF Inv

LEMMA ReleaseInv ==
    ASSUME Inv, NEW h \in Handles, Release(h)
    PROVE  Inv'
  <1>1. NotReading \in GoodReadings /\ NotReading.pc = "idle"
    BY EmptyIsGood, ReadingFacts DEF NotReading
  <1>2. /\ mem' = mem \/ mem' = [mem EXCEPT ![h] = None]
        /\ reading' = [reading EXCEPT ![h] = NotReading]
        /\ UNCHANGED << stored, menu >>
    BY DEF Release, Drop, vars
  <1>3. ASSUME Serial PROVE Alone'
    <2>1. \A g \in Handles : g # h => /\ Live(g)' <=> Live(g)
                                      /\ mem'[g] = mem[g]
                                      /\ reading'[g] = reading[g]
      BY <1>2 DEF Inv, Live
    <2>2. reading'[h].pc = "idle" /\ (Live(h)' => Live(h) /\ mem'[h] = mem[h])
      BY <1>1, <1>2 DEF Inv, Live
    <2>3. \A g \in Handles : reading'[g].pc # "idle" => Consistent(g)'
      BY <1>2, <1>3, <2>1, <2>2 DEF Inv, Alone, Consistent
    <2>4. \A g \in Handles : Busy(g)' => Busy(g)
      BY <2>1, <2>2 DEF Busy
    <2> QED BY <1>2, <1>3, <2>1, <2>2, <2>3, <2>4 DEF Inv, Alone
  <1> QED BY <1>1, <1>2, <1>3 DEF Inv

LEMMA SaveInv ==
    ASSUME Inv, NEW h \in Handles, Save(h)
    PROVE  Inv'
  <1>1. reading[h].pc = "idle" /\ Mutate(h) /\ reading' = Seen
    BY DEF Save
  <1>2. Live(h) => mem[h] \in Good(FALSE) /\ (Serial => menu = mem[h])
    BY DEF Inv, Alone, Live
  <1>3. PICK c \in Good(FALSE) : Live(h) /\ (Saved(h, c) \/ NotSaved(h, c))
    BY <1>1, <1>2, Mutations DEF Mutated
  <1>4. /\ stored' \in Good(FALSE) /\ menu' \in Good(FALSE)
        /\ mem' \in [Handles -> Good(FALSE) \cup {None}]
    BY <1>3 DEF Inv, Saved, NotSaved, Left
  <1>5. reading' \in [Handles -> GoodReadings]
    <2>1. ASSUME NEW g \in Handles
          PROVE  [reading[g] EXCEPT !.seen = @ \cup {stored'}] \in GoodReadings
      <3>1. stored' \in MenuCatalog
        BY <1>4 DEF Good
      <3> QED BY <3>1 DEF Inv, GoodReadings
    <2> QED BY <1>1, <2>1 DEF Seen, Inv
  <1>6. ASSUME Serial PROVE Alone'
    <2>1. \A g \in Handles : reading[g].pc = "idle" /\ (g # h => ~Live(g))
      BY <1>1, <1>3, <1>6 DEF Inv, Alone, Busy
    <2>2. reading' = reading
      BY <1>1, <2>1 DEF Seen, Inv
    <2>3. CASE Saved(h, c)
      BY <1>3, <1>6, <2>1, <2>2, <2>3 DEF Inv, Alone, Saved, Busy, Live
    <2>4. CASE NotSaved(h, c)
      BY <1>3, <1>6, <2>1, <2>2, <2>4 DEF Inv, Alone, NotSaved, Left, Busy, Live
    <2> QED BY <1>3, <2>3, <2>4
  <1> QED BY <1>4, <1>5, <1>6 DEF Inv

LEMMA InvStep == Inv /\ [StoreNext]_storeVars => Inv'
  <1>1. Inv /\ UNCHANGED storeVars => Inv'
    BY DEF Inv, storeVars, vars, Alone, Busy, Live, Consistent
  <1> QED BY <1>1, LoadInv, BuildInv, ReleaseInv, SaveInv DEF StoreNext

LEMMA StoreAlways == StoreSpec => []Inv
  BY InvInit, InvStep, PTL DEF StoreSpec

\* What registries hold, what loads have read and what the tables hold is always
\* a menu, however loads and saves overlap.
THEOREM StoreTypeCorrect == StoreSpec => []StoreTypeOK
  <1>1. Inv => StoreTypeOK
    BY DEF Inv, GoodReadings, StoreTypeOK, Readings, TypeOK, Live, Good
  <1> QED BY <1>1, StoreAlways, PTL

\* Even a load that is overtaken by saves gives each id once: PRIMARY KEY never
\* refuses a save.
THEOREM StoredIdsAreUnique == ASSUME ~Renames PROVE StoreSpec => []ItemIdsAreUnique
  <1>1. Inv => \A c \in Catalogs : c \in Good(FALSE)
    BY DEF Inv, Catalogs, Live
  <1>2. Inv => ItemIdsAreUnique
    BY <1>1, CountIds DEF ItemIdsAreUnique, Good
  <1> QED BY <1>2, StoreAlways, PTL

LEMMA StepRefines == Serial /\ Inv /\ [StoreNext]_storeVars => [Next]_vars
  <1> SUFFICES ASSUME Serial, Inv, [StoreNext]_storeVars PROVE [Next]_vars
    OBVIOUS
  <1>1. ASSUME NEW h \in Handles, SelectItems(h) \/ SelectCategories(h) \/ SelectCombos(h)
        PROVE  UNCHANGED vars
    BY <1>1 DEF SelectItems, SelectCategories, SelectCombos
  <1>2. ASSUME NEW h \in Handles, Build(h) PROVE Load(h)
    BY <1>2, LoadedIsStored DEF Build, Load, Live
  <1>3. ASSUME NEW h \in Handles, Release(h) PROVE Drop(h) \/ UNCHANGED vars
    BY <1>3 DEF Release
  <1>4. ASSUME NEW h \in Handles, Save(h) PROVE Mutate(h)
    BY <1>4 DEF Save
  <1> QED BY <1>1, <1>2, <1>3, <1>4 DEF StoreNext, storeVars, vars, Next

\* For requests that run one at a time, the three SELECTs and the build of load
\* are the one step of Registry, and every save is its save.
THEOREM Refines == ASSUME Serial PROVE StoreSpec => ImplementsRegistry
  <1>1. StoreInit => Init
    BY DEF StoreInit
  <1> QED BY <1>1, StoreAlways, StepRefines, PTL DEF StoreSpec, ImplementsRegistry, Spec

\* There the tables hold what the successful calls made of one catalog: nothing
\* is lost, and nothing of a call that raised shows.
THEOREM TablesAreSerial == StoreSpec => []StoredIsSerial
  <1>1. Inv => StoredIsSerial
    BY DEF Inv, Alone, StoredIsSerial
  <1> QED BY <1>1, StoreAlways, PTL

\* There load keeps its promise, which overlapping requests break.
THEOREM LoadsArePersisted == ASSUME Serial PROVE StoreSpec => LoadReturnsPersisted
  <1>1. ASSUME Inv, NEW h \in Handles, Build(h) PROVE mem'[h] \in reading[h].seen
    BY <1>1, LoadedIsStored DEF Build, Inv
  <1>2. Inv /\ [StoreNext]_storeVars
          => [\A h \in Handles : Build(h) => mem'[h] \in reading[h].seen]_storeVars
    BY <1>1
  <1> QED BY <1>2, StoreAlways, PTL DEF StoreSpec, LoadReturnsPersisted
=============================================================================
