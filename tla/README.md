# Formal models of the CreateCart SDKs

TLA+ models, TLC checks and TLAPS proofs of the Python packages under
`packages/`: small headless engines (menu registry, cart, payment, delivery,
notify, shipping, auth) that keep their state behind storage protocols, and two
SQL store packages (SQLite, Postgres) that implement those protocols per tenant.

Contents: [parts](#the-parts-of-the-system) ·
[modules](#the-modules-and-the-code) · [runs](#the-runs) ·
[bounds](#bounds-and-why-they-are-enough) · [fairness](#fairness) ·
[proofs](#what-is-proved) · [checked only](#what-is-only-model-checked) ·
[disagreements](#where-code-and-documentation-disagree) ·
[left out](#what-is-not-modelled) · [what is left](#what-is-left)

## The parts of the system

| component | state | operations that change it | who it talks to |
|---|---|---|---|
| **delivery** `DeliveryService` | none of its own; orders in a `DeliveryStore` (status, timeline, courier, ETA) | `create_order`, `advance`, `set_status`, `cancel`, `assign_courier`, `set_eta` | store `get`/`save`; the `on_event` callback after each transition |
| **payment** `PaymentService` | records in an optional `PaymentStore` | `create_order`, `verify_payment` | a gateway provider (Razorpay, mock), the store |
| **tenant registry** `Database` (SQLite), `PgDatabase` (Postgres) | the `tenants` table, six tables per tenant id, an id cache in every process | `get_or_create_tenant` (called by every store's constructor), `delete_tenant`, `update_tenant`, `update_shipping_settings` | SQL |
| **SQL stores** | one row per cart, payment, delivery; three tables of a menu | `load`/`get`, `save`, `delete` | the tenant registry gives them their table names |
| **registry** `MenuRegistry` | a whole `MenuCatalog` in memory, saved whole by every mutation | items, stock, categories, combos, import | `MenuStore.load` once, `save` after each mutation |
| **cart** `Cart` | a whole `CartData` in memory, saved whole by every mutation | lines, charges, discount, tax; `totals` only reads | `CartStore` |
| **JSON-file and in-memory stores** | a file per aggregate, or a dict | `save` writes a temporary file and renames it | the file system |
| **notify** `NotifyService` | none | `notify_status` renders and sends | an SMS provider, called from delivery's `on_event` |
| **shipping** `ShippingService` | none; shipments at the courier | `ship`, `cancel`, `schedule_pickup` | Delhivery over HTTP, or a mock |
| **auth** | none | a check of a token's claims | Google |
| **js-client** | none | one HTTP request per method | the API an application writes |

**How they interact.** The packages do not import one another (the SQL stores
import the models). An application creates a store per request from a shared
`Database`, builds a service on it, and passes prices from the registry to the
cart, the cart's grand total to the payment service, and notify to delivery as
`on_event`. What is shared is therefore the database, the id cache of a process
and, when an application keeps one, a registry or cart object.

**What is hard.** No SDK takes a lock or checks a version: every operation reads
an aggregate, edits a copy and saves it whole, so two callers interleave between
the read and the save. A save, a callback or a gateway call may raise in the
middle; a process may die there. SQLite commits each `DROP` and each `CREATE`
outside a transaction by itself. A request to the courier may be carried out after
its caller was told that it failed. An id cache outlives what other processes do,
and ids of deleted tenants are handed out again. Money is rounded in four places.

**What makes each part correct.**
- *delivery*: timelines follow the transition table; terminal statuses are final;
  a courier, an ETA and a move do not undo one another; callbacks come in timeline
  order and none is lost quietly.
- *payment*: paid means that the gateway signed this payment for this order; one
  payment settles one order; the amount on record is the amount charged.
- *tenants*: no tenant sees another's rows, even when an id is used again; caches
  are right; no table is left behind; a store that was built can be used, but for
  one of a tenant that SQLite deleted half way; a setting that was saved stays; a new
  tenant starts empty.
- *registry and menu store*: ids stay unique, combos never dangle, the store
  holds what the successful calls made, a load gives a catalog that was stored.
- *cart*: the discount is within the subtotal, rounding within a bound, and more
  goods never cost less.
- *notify*: a customer's texts follow the order's timeline, and none comes twice.
- *shipping*: a waybill the caller holds is on the courier's books; a rejected call
  leaves no parcel; one call makes one parcel; a confirmed cancel and a final status
  stay true; a `pickup_id` is of a pickup that was booked.

`PROJECT.json` lists each hazard with its line and the properties that cover it.

## The modules and the code

| module | models | how |
|---|---|---|
| `Lifecycle` | `delivery/models.py`: `FLOW`, `ALLOWED`, `TERMINAL`, and what the README promises of an order | the abstract specification: an order is placed once and moves along the table |
| `Delivery` | `delivery/service.py` over a store | each operation is split at its store calls: `CreateGet`, `AdvanceGet`, `SetStatusGet`, `AdvanceSetGet`, `AssignCourierGet`, `SetEtaGet` do the read, the checks and the edit of the copy, `Save` the save, `Emit` the callback. `advance` reads twice, as the code does (its own `get`, then that of `set_status`). `cancel` is `set_status` with `cancelled`. `SaveFails`, `EmitFails` and `Crash` end a call in between |
| `Notify` | `notify/service.py` and the Twilio provider as delivery's `on_event` | extends `Delivery`: `Send` is the provider taking the text, `Notified` the callback's return, `SendRaises` a refusal or an answer that is lost after `Send` |
| `Payment` | `payment/service.py`, the providers' signature check, the stores' upsert | `CreateOrder`/`CreateSave`, `VerifyPayment`/`VerifySave`, `Abort`. `data` is the JSON of a record, `columns` the SQL columns beside it, of which an upsert changes only two. The gateway (`Pay`) and the client (`ClientVerify`) are external |
| `Shipping` | `delhivery.py`, `mock.py`, `service.py`, `models.py` of shipping | `provider` says which courier a behaviour has. A Delhivery call is `Request`, then the courier's own step (`CourierManifest`, `CourierTrack`, `CourierCancel`, `CourierPickup`), then `Return` or `Fail`; `wire` keeps the requests that have not arrived, those that were given up included. A call of the mock is one step. What the courier does is external, and free but for what the provider relies on: a manifest is answered with a success and a waybill if it made a parcel, and with no success if not (the code takes a success without a waybill, and an empty body, for a rejection); a cancel that is refused says `false` (`bool` of a text such as `Failure` is true, and an empty body is a yes); a `pickup_id` comes only with a pickup that was booked; a parcel ends once. That a pickup is answered with HTTP 200 says nothing, and the model lets the courier answer so without booking it |
| `Tenants` | `db.py` of both SQL packages, the row writes of the stores | one action per statement that commits, or that reads what a later one relies on. `backend` says which database a behaviour has; `EnsureTables`/`DropTenant` are the Postgres transactions, `EnsureTable`/`DropTable`/`DeleteRow` the SQLite steps. `UpdateTenant` is one statement, `update_shipping_settings` a read (`MergeSettings`) and a write (`SaveSettings`); `attrs` keeps which columns and keys of a tenant were saved; `torn`, a history variable that no action reads, the tenants whose tables SQLite has dropped in part and not made again. A row is the name of the tenant whose store wrote it |
| `Menu` | the catalog and the pure part of `registry.py` | operators from catalog to catalog; a suffix `dosa-2` is the pair of slug and number |
| `Registry` | `MenuRegistry` objects over a store with atomic `load` and `save` | one action per mutation: the change in memory, then `Persist`, which may raise and leave the change in memory |
| `MenuStore` | `menu_store.py` of both SQL packages under `Registry` | extends `Registry`; `load` is three SELECTs and a build, `save` one transaction that the primary key may refuse |
| `Totals` | `to_money`, `_discount_total`, `totals` | pure operators on integers: money in cents, percentages in tenths of a percent |
| `Cart` | `cart.py` over a store | `Cart` objects of one cart id: one action per mutation, with `Persist`; `RejectAddItem` and `RejectAddCharge` are the calls that raise after they changed the memory |
| `AggregateStore` | what the services take a store to be | the abstract specification: each call takes effect at once, or raises and changes nothing |
| `FileStore` | `storage/jsonfile.py` of cart, delivery, payment and registry | one action per call to the operating system: `MakeTemp`, `WriteTemp`, `Replace` of `save`; `Exists`, `Read` of `get`; `DeleteExists`, `Unlink`; `Glob`, `ReadNext`, `ListReturn`. `offer` says whether the store in use has `list` or `delete` |

`MCDelivery`, `MCNotify`, `MCPayment`, `MCTenants`, `MCRegistry`, `MCMenuStore`,
`MCCart`, `MCFileStore` and `MCShipping` give the constants their values for TLC. The
theorems are in `DeliveryProofs`, `NotifyProofs`, `PaymentProofs`, `TenantsProofs`,
`MenuStoreProofs`, `CartProofs`, `FileStoreProofs` and `ShippingProofs`. Operators named *Mutant* are wrong versions of the definition
they precede; no specification uses them. They show for every property a bug of
the code that it catches, and `PROJECT.json` pairs them.

Abstractions: names, texts, prices of menu items, tags, metadata and timestamps
are left out, since no guard or property reads them. Signatures are the pairs
they sign. In the service models store calls are atomic steps: one statement or
transaction in SQL, a dict assignment in memory, and for files what `FileStore`
is shown to implement; `MenuStore.load` is the one that is not, and is modelled
as it is. Two SQL stores that differ only in syntax are
one model.

## The runs

Passing runs (states are distinct states):

| run | question | states |
|---|---|---|
| `DeliveryRace` | two workers on one order with nothing serialised, saves and callbacks that raise, crashes: are stored timelines still lawful (`LawfulTimelines`), and is what was saved announced unless the callback raises or the worker dies (`SavedIsAnnounced`)? | 133 thousand |
| `DeliveryExclusive` | if callers keep one call per order, does the service with `Notify` as its callback implement `Lifecycle` (`ImplementsLifecycle`), with terminal statuses final, no edit lost, and a customer's texts in timeline order, none twice (`TextsFollowTimeline`), although texts are refused, answers lost and calls tried again? | 814 thousand |
| `PaymentRace` | can anything but a signature for this order make a record paid; can one payment settle two orders; do amount, cart and SQL columns stay those of the order? | 144 thousand |
| `TenantsRace` | two threads of one process create tenants at once, with clashing names, ids and explicit ids, update their settings, and delete them while nothing else runs; statements raise, deletes stop half way, the process restarts, ids are used again: isolation, caches, tables, settings that stay (`UpdatesAreKept`), new tenants that start empty, and stores that can be used (`StoreIsUsable`), in Postgres all of them and in SQLite those of tenants that no delete left half done | 2.74 million |
| `RegistryRace` | two long-lived registries overwrite each other's saves: is every catalog still consistent in itself? | 11 thousand |
| `MenuStoreSerial` | a registry per request over the SQL tables, failing saves, renames and repeated references included: do the tables hold exactly what the successful calls made (`StoredIsSerial`), and is the three-step load the one-step load of `Registry` (`ImplementsRegistry`)? Stock below 0 and values that `MenuItem` refuses are among the inputs | 25 thousand |
| `CartTotals` | any sequence of cart calls: `DiscountIsBounded`, `RoundingIsBounded` against a total that is never rounded, `MoreNeverCostsLess` | 84 thousand |
| `FileStoreRace` | two workers on the files of two keys, writes that raise, crashes between any two steps: does a reader ever see half a file (`FilesAreWhole`), do the steps add up to `AggregateStore`, does `list` return for each key what was there at some moment (`ListIsPlausible`)? | 194 thousand |
| `ShippingCalls` | calls of either courier whose requests and answers are late, lost or ambiguous, with a courier that moves parcels meanwhile: is what the callers were told true and does it stay so (`HeldIsManifested`, `NoStrayParcel`, `OneParcelPerCall`, `CancelHolds`, `FinalReportsHold`, and `PickupIsBooked` for pickups with a `pickup_id`)? | 2.17 million |

Runs that find a counterexample (see [below](#where-code-and-documentation-disagree)):
`TenantsStaleCache`, `RegistryDangling`, `MenuStoreTorn`.

The same property can pass in one run and be violated in another: the runs
differ in a named constant, and that constant is the condition under which the
code keeps the promise.

| condition on the callers | constant | what needs it |
|---|---|---|
| one call on an order at a time | `Exclusive` | `TerminalIsFinal`, `NoLostUpdate`, `ImplementsLifecycle`, `TextsFollowTimeline` |
| nothing runs beside a `delete_tenant` | `ExclusiveDeletes` | `TenantIsolation`, `CacheIsCurrent`, `NoOrphanTables`, `StoreIsUsable`, `NewTenantStartsEmpty` |
| one process, or no deletes | `Procs`, `Deleters` | `TenantIsolation`, `CacheIsCurrent`, `StoreIsUsable` |
| one settings update of a tenant at a time | `SerialSettings` | `UpdatesAreKept` |
| a registry per request, one request at a time | `Serial` | `StoredIsSerial`, `ImplementsRegistry` |
| no item twice in a combo, no new id through `update_item` | `RepeatRefs`, `Renames` | `CombosNeverDangle`, `ItemIdsAreUnique` |

`StoreIsUsable` has one exception besides, which is in its statement: a tenant that
SQLite deleted half way.

The types, `LawfulTimelines`, `SavedIsAnnounced`, and everything about payments, carts, files and
shipments need none of these.

## Bounds and why they are enough

- *Delivery*: `MaxCalls` 5 bounds the calls that pass their first guard. A
  timeline has at most five entries; two overlapping calls plus the three it takes
  to bring an order near a terminal status fit. One order without serialisation,
  since nothing relates two orders there; two in `DeliveryExclusive`, so that the
  per-order serialisation is not a global one. Bounded calls end the behaviours,
  hence `CHECK_DEADLOCK FALSE` in these configurations only.
- *Payment*: two orders made here and one made elsewhere under the same key, two
  payments, two amounts, two workers: a signature can be for the right pair, for
  another order, or for another payment. The model needs no counter.
- *Tenants*: two of the six table bases stand for all (the loop treats them
  alike; two is enough for a half-done one). Two names and ids to 2, so that an id
  comes back under the other name while another is in use; one column and two keys
  of the settings, so that an update can undo another key. Two threads of
  one process see every order of two overlapping builds; builds in two processes
  differ only in having two caches, which `TenantsStaleCache` has.
  `ExclusiveDeletes` keeps other requests away from a running `delete_tenant`;
  what happens without it is under [disagreements](#where-code-and-documentation-disagree).
- *Registry, MenuStore*: one slug, suffixes and items to 2, a combo of one or two
  references: a clash needs two items, a repeated reference a combo of two.
  `MaxRefs` 2 makes a repeat and a distinct pair possible; categories are taken
  along in `MenuStoreSerial`. `import_items` is given two items: the second may clash
  with the first, and may raise with the first already in memory. Stock runs from -2 to 2 in `MenuStoreSerial`, so
  that an `adjust_stock` can start below 0, and `Invalid` stands for a value that
  `MenuItem` refuses; stock is 0 or not tracked in `RegistryRace`, whose properties do
  not read it.
- *Cart*: two items at 5 or 15 cents up to two of each, a discount of 10 %, of
  150 % and of 12.5 cents, tax of 0 or 10 %: 5 % and 10 % of multiples of 5 give
  exact halves, so both directions of half-even rounding happen, and the subtotal
  falls below a discount that was set before.
- *FileStore*: two keys (a listing with one file done and one to do), two values
  (an old and a new content), two workers (a reader and a writer, or two writers).
- *Shipping*: three orders, one of them to a place that is not served, two
  waybills, and a status text of each kind that matters: a running one, the two that
  end an order and `undelivered`, which must not pass for `delivered`. `MaxCalls` 3
  is a call, the call it races with and the one that looks at the result; it
  ends the behaviours, hence `CHECK_DEADLOCK FALSE`. The theorems have no such bound.

## Fairness

One run has a liveness property.

`DeliveryRace`: `FairSpec` gives weak fairness to
`Step(w)`, the next step of the call worker `w` is in: the service has no
queue, no wait and no lock, so the interpreter runs a call that has begun to its
end. Nothing is assumed of callers, of faults (`SaveFails`, `EmitFails`, `Crash`
are not fair and may or may not happen) or of other workers. `SavedIsAnnounced`
says that a call past its save either announces or ends with the callback's
exception or a crash, never quietly.

`ShippingCalls` has none. The 15 s that `_http` passes to `urlopen`
(`delhivery.py:67`) bound each operation on the socket and not the call: an answer
that trickles in keeps `resp.read()` going for as long as it likes, so that nothing
in the code makes a call end, and assuming it would be the conclusion. `Fail` is
therefore something that may happen. It is a `ShippingError` for what `_http`
catches, and another exception for what it does not: the read of an error's body
(`exc.read()`, line 70), which runs in an `except` clause, and `.get` on JSON that is
not an object. `schedule_pickup` turns only the first kind into `ok=False`.

## What is proved

TLAPS checks these for every value of the constants that satisfies the named
assumptions of the modules (`DeliveryAssumption`, `PaymentAssumption`,
`TenantsAssumption`, `MenuAssumption`, `RegistryAssumption`, `CartAssumption`,
`FileStoreAssumption`, `ShippingAssumption`: names are not `None`, amounts and bounds
are naturals, items and codes are finitely many, the mock gives each order its own
waybill). A condition on the callers is a hypothesis of the theorem.

`DeliveryProofs`
- `TypeCorrect`: `Spec => []TypeOK`.
- `TimelinesLawful`: `Spec => []LawfulTimelines`, with or without serialised
  callers. `LawfulTimelines` is not inductive: a step of a call uses that the call
  names an order and that its copy is a real order, and `AdvanceSetGet` that the
  order read first still exists. `CallShape` says so, and
  `Lawful == TypeOK /\ CallShape /\ LawfulTimelines` is inductive. The heart is
  `MovedLawful`: `set_status` checks and edits *one* copy, so the entry it appends
  is allowed after the last entry of that copy, whatever the store holds by the
  time it is saved. This is why races cost updates but never lawfulness.

`NotifyProofs`, which extends it
- With `Exclusive`: `TerminalStays`, `NothingIsLost` and
  `Refines` (`Spec => ImplementsLifecycle`). The invariant is
  `Serial == Alone /\ Fresh` beside `Lawful`: no two calls are on one order (`Alone`),
  so what a call has read is still stored, and its copy is one edit away from it
  (`Fresh`). Only `Save` writes the store (`OnlySaveStores`), and all three
  theorems follow from what one save does (`SaveEffect`, `StepFacts`).
- `NotifyRefinesDelivery`: `NotifySpec => Spec`. With `notify_status` as its callback
  the delivery service is still the delivery service, so its theorems hold of the
  composition too.
- `NotifyTypeCorrect`, and with `Exclusive` `TextsAreInOrder`. The invariant `Told`
  says which entry of the timeline a call in its callback has yet to tell.

`PaymentProofs`
- `TypeCorrect`, `PaidIsSigned`, `PaymentSettlesOne`, `AmountCharged`: the four
  invariants of `PaymentRace`.
- The inductive invariant `Inv` adds what holds of calls in flight: the record a
  worker is about to save is already signed for and charged for its order
  (`InFlight`), a worker between gateway and save is alone with its order
  (`Creating`), a verification keeps the cart on record (`Verifying`); that
  columns and JSON agree (`Stored`), that a client can only name orders that exist
  (`Origins`) and that a payment id is signed once (`PaymentsOnce`).
  `PaymentSettlesOne` follows from `Stored` and `PaymentsOnce`; `AmountCharged`
  needs `Creating`, because the upsert keeps the amount of a row that is there.
  One lemma per action shows that `Inv` is preserved.

`TenantsProofs`, for any number of names, threads, processes, tables and ids and in
both databases, each theorem in the weakest setting that it holds in. Deletes that
stop half way, refused inserts and restarts are part of all of them.
- In any setting `TypeCorrect`, by `TypeInv == TypeOK /\ Shaped` (what the stage of a
  request says of its arguments).
- With `ExclusiveDeletes`, `NothingIsLeftOver` and `NewTenantsAreEmpty`. Neither is
  inductive: a build that is about to make tables needs that its row is still there
  (`Placed`), which needs that no delete is running (`Exclusion`); an insert needs
  that an id without a row has no tables; a delete that stops half way needs that ids
  are unique, and a Store object that the tables of a row are there unless SQLite has
  dropped one and not made it again (`RowsAreWhole`). `Inv` is the conjunction. It holds with stale caches
  too: a `Write` through one finds a table only if its id has a tenant again, so it
  may break isolation but never makes a table.
- With `SerialSettings` alone, `NoUpdateIsLost`: by `Merges`, an update that is about
  to write the merged dict has read every key that is saved. Deletes may overlap.
- With `ExclusiveDeletes` and `CachesAgree` (one process, or nobody deletes),
  `TenantsAreIsolated`, `CachesAreCurrent` and `StoresAreUsable`, by `Agreed`, which
  adds that the Store objects in use are of tenants on record. It is inductive only
  beside `Inv`. `StoresAreUsable` says for Postgres that all tables of every Store
  object are there, and for SQLite that they are unless the tenant is in `torn`: there
  the code does hand out stores without tables. `TenantsStaleCache` shows that `CachesAgree` is needed.

`MenuStoreProofs`, first for the registries of `Registry`
- `RegistryTypeCorrect`: what memory and store hold are items that `MenuItem` accepts,
  stock below 0 included, since nothing but `set_stock` and `adjust_stock` refuses it; without renames `IdsAreUnique`; without renames and combos
  that name an item twice `CombosStayWhole`. All three rest on `Good`: a catalog is a
  menu, its ids are distinct and its combos settled as far as the conditions on the
  callers allow. One lemma for each edit of the registry says that it keeps a catalog
  good (`GoodWithItem` to `GoodImported`), whichever catalog it is given, so that it
  does not matter which registry overwrote which or which save raised. The lemmas on
  `RemovedFirst` need that a position with a property has a least one; this is where
  `CombosStayWhole` uses that an item is named once.
- `NamesGetFreshIds`: `_unique_id` gives every name the least suffix that is free, in
  every catalog there can be, explicit ids that look like suffixed ones included. The
  model looks among one more suffixes than there are ids (`CountIds`); the code's loop
  has no bound, and so always ends.

Then for the registries whose load is three SELECTs
- `StoreTypeCorrect` (the same of the tables and of what loads have read) and `StoredIdsAreUnique` (without renames), however loads and
  saves overlap: even a torn load gives ids that are unique, since the items come from
  one SELECT, so that PRIMARY KEY refuses no save.
- With `Serial`, `Refines` (the three SELECTs and the build of `load` are the one step
  of `Registry`) and `LoadsArePersisted` (a load gives a catalog that was stored;
  `MenuStoreTorn` refutes it without `Serial`); `TablesAreSerial`: the tables hold what
  the successful calls made of one catalog. These rest on this only: a call does to
  the registry's copy what it would do to the one true catalog. `Inv` says that at most
  one registry is in a request (`Busy`), that its memory is the stored catalog, and
  that what a load has read so far is what is stored (`Consistent`). A call that raises
  takes its registry with it.

`CartProofs`
- `TypeCorrect`: carts are `WellFormed`, that is of their type, and an item that is
  not in the cart leaves no line behind.
- `DiscountsAreBounded`, `RoundingIsSmall`, `MoreIsNotCheaper`: for all amounts and
  rates. `Nearest` says that half-even rounding is within half a unit;
  `GrandTotalError` adds the errors up, and `GrandTotalGrows` shows that a larger
  subtotal is never due less although the discount on it is rounded up.
- `GoodsAddUp`: under the same settings, a cart none of whose lines is dearer is not
  dearer. It needs what the subtotal *is*: the sum of the lines. That the recursive
  function behind `SumFunction` has a solution (`SumExists`), that a sum of naturals
  is one and that a sum grows with its terms is proved by induction over the size of
  finite sets (`NatSetInduction`).

`ShippingProofs`
- `TypeCorrect` and the six invariants of `ShippingCalls`, for any number of orders,
  waybills and calls. `Inv` adds what holds between request and answer: an answer that
  was not read yet is still true (`Answers`), a request on its way has no answer and
  its call was not confirmed (`OnTheWay`), each parcel goes back to one call
  that was carried out (`Books`), the mock answers at once (`MockIsPrompt`).
  `OnTheWay` is where a request that outlives its timeout is dealt with.
  `PickupIdsAreReal` is about calls that returned a `pickup_id`; of a bare `ok` nothing
  is proved, since nothing is true. All rest on what the actions of the courier
  assume (see the [modules](#the-modules-and-the-code)).

`FileStoreProofs`
- `TypeCorrect`, `FilesWhole`: the invariants of `FileStoreRace`, by
  `Inv == TypeOK /\ CallShape /\ FilesAreWhole`. `CallShape` is needed because
  `Replace` moves whatever the temporary file holds: it says that a written one
  holds the value of its save. All actions go through one lemma, `LocalStep`: each
  replaces the call, the temporary file and the answer of one worker.
- `Refines`: `Spec => ImplementsAggregateStore`. The rename, the unlink and the
  look at a file are the moments at which calls take effect.
- `ListsArePlausible`: an action property, by `ListShape`, which says that the
  history of a listing has what the files hold and what was read.

## What is only model-checked

- Liveness (`SavedIsAnnounced`) and everything about `ENABLED`: out
  of the prover's reach.
- That the conditions of the table above are needed: the counterexamples are TLC's.

Every invariant and every action property of the runs that pass is the statement of a
theorem. Induction over finite sets and least positions
is done by hand, from `NatLessThanWellFounded` and `WFMin`, since the library's
induction theorems take an operator as a parameter.

## Where code and documentation disagree

With a run that shows it:
1. `TenantsStaleCache`: "separate tables per tenant"; a process that still has a
   deleted tenant's id in its cache (`db.py:91` of the Postgres store, 86 of the
   SQLite store) writes into the tables of the tenant that has the id now. No two
   requests overlap in this run.
2. `RegistryDangling`: "Drop references from combos so we never dangle"
   (`registry.py:142`) removes one mention per combo, and `add_combo` accepts two.
3. `MenuStoreTorn`: "Return the persisted catalog" (`storage/base.py:20`); three
   SELECTs with a save in between give a catalog that was never stored, and the
   next mutation of that registry stores it.

Seen while modelling, without a run of their own:
- `delivery/README.md` calls `delivered` and `cancelled` terminal; a concurrent call
  that read the order before saves its older status over it (`service.py:145`, also
  175 and 182). `TerminalIsFinal` fails in `DeliveryExclusive` with
  `Exclusive = FALSE`.
- Two concurrent `create_order` calls of one id both succeed and the second
  replaces the first (`service.py:71`), although line 72 says "don't clobber".
  No run has a property for it: for calls that do not overlap it is the guard itself.
- A later bad verification takes a paid payment record to failed
  (`payment/service.py:70`); `models.py:35` gives the lifecycle as
  "created -> paid/failed". `PaidImpliesSigned` is not affected.
- Two threads on one `Database`: a build that commits before and fills the cache
  after a delete leaves the deleted id in the cache (`db.py:125`), although
  `db.py:6-7` calls the handle safe to share. `CacheIsCurrent` fails if
  `TenantsRace` is run with `ExclusiveDeletes = FALSE`.
- `CartStore.delete` is to be a "No-op if it doesn't exist" (`storage/base.py:23`);
  the file store looks and then unlinks, so of two concurrent deletes one raises
  (`cart/storage/jsonfile.py:58-59`), as does a `load` that a delete overtakes.
  `AggregateStore` lets these calls raise.
- Two concurrent `update_shipping_settings` of different keys: the second writes the
  whole dict it merged onto its older read, and the first is undone (`db.py:180` of
  the SQLite store), although the method is to be a "partial update".
  `UpdatesAreKept` fails in `TenantsRace` with `SerialSettings = FALSE`. The method
  also "Returns the merged, saved dict" when the tenant does not exist and nothing was
  saved, and says that "unset keys are dropped" where the merge keeps them.
- A Delhivery call that timed out raises a plain `ShippingError` though the shipment
  may exist or come to exist (`delhivery.py:77`): a caller that ships the order again
  sends two parcels, since the request names no waybill of its own. `NoStrayParcel`
  therefore allows a parcel nobody holds after `error`, never after a rejection.
- A text that the provider refuses is never sent again: the transition is stored,
  so a retry is refused by the transition table (`service.py:134-139`).
- A negative stock is refused by `set_stock` and `adjust_stock` only: `MenuItem` takes
  any integer (`models.py:53`), and `add_item`, `import_items` and `update_item` pass it
  on (`registry.py:101`, `351`, `132-133`). `adjust_stock` then refuses each restock that
  does not reach 0. The models let the stock be negative.
- A SQLite `delete_tenant` that fails between two `DROP`s (`db.py:193-199`) leaves
  the tenant's id cached, and until the delete is done again or the process restarts,
  `get_or_create_tenant` answers from the cache (86-88) and hands out stores without
  tables. The exception in `StoreIsUsable` is this case.
- `schedule_pickup` is `ok` for any HTTP 200 (`delhivery.py:253-254`), also for a body
  that reports an error or names no `pickup_id`; and `cancel` takes the `bool` of the
  status (line 239), so that a refusal in words, or an empty body (line 68), is a yes.
- `import_items` that raises midway leaves the earlier items in memory
  (`registry.py:340`), and the next save of that registry writes them.
- `add_charge` drops the old charge before the new amount is validated, and
  `add_item` raises the quantity of a line before the price is
  (`cart.py:181`, `89`): `RejectAddCharge` and `RejectAddItem`.
- `add_item` on a line that exists does not validate the price (`cart.py:90`): a
  negative one is saved, and the cart no longer loads. `CartAssumption` takes
  prices to be the menu's, which the registry validates.

## What is not modelled

- *auth* and *js-client*: they keep no state. Auth is one pure check of a token's
  claims, with the signature left to a library; the client is one HTTP request per
  method, to a server that is not in this repository.
- The set-up of the schema and the migration of old databases when a handle is made:
  it comes before the handle can be used.
- Of *shipping*, `serviceability`, `rate` and `quote`: read-only. Of *notify*, the
  wording of texts and a `send` that no callback makes.
- `update_tenant(shipping_settings=...)` called directly: it replaces the settings
  whole, as its text says.
- A `PaymentService` without a store keeps no state.
- Read-only operations: listing, search, tracking, counts, `to_dict`.
- The overlap of a delete with a build of the same tenant: the code leaves tables
  of an id without a tenant there, and no document promises otherwise.

## What is left

- `Checkout`: registry, cart and payment composed as an application would, so that
  what is charged is the total of a cart whose prices were the menu's. The code that
  composes them is the application's and not in this repository.
- `Auth`: the table of accepted claims, as a pure operator.
