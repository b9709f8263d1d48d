# A TLA+ model of horon-engine

horon-engine is a hierarchical key-value store in Rust. A key is a path, every
path has a parent, and a node of the tree also has a position in the Poincaré
disk and, if the client gives it some, semantic coordinates. Any number of
threads share one `Store` through `&self`; there is no global lock. The tree is
held in several concurrent maps (DashMap), a striped array of mutexes serializes
the writers that place children under one parent, and everything else relies on
the order in which a call touches the maps.

That order is what this project is about. The modules are translations of the
Rust code at the level of single accesses to shared state; TLC explores their
interleavings on small instances, and the TLA+ proof system proves what it can
for every number of threads, keys and nodes. Two parts have another shape. The
queries prune, and what they answer is compared with a plain scan, over every
store that a small instance can reach. The file provider of the extensions
persists, and its file operations fail, are torn, or are cut short by a crash.

## 1. Inventory

Calls go down one chain: `Store` (store.rs) → `HTTStorage` (storage.rs) →
`HyperbolicTreeTensor` (tree_tensor.rs) → `HyperbolicTensorNetwork`
(tensor_network.rs) → `CellIndex` (cell_index.rs) and `SemanticIndexCache`
(semantic_index.rs), whose trees are `VpTree`s (metric_tree.rs). `SemanticDisk`
reads a store it is given, and the extension manager stands beside the chain. No
layer sends messages or has threads of its own; they interact through calls and
the shared maps alone.

| Component | State | Operations | What makes it correct |
|---|---|---|---|
| Striped locks, `concurrency.rs` | 64 mutexes | `lock`, `lock_two` | a guard covers its keys; two guards never deadlock; every call returns |
| Tree tensor, `tree_tensor.rs`, `hash_table.rs` | `path_map`, `id_to_path`, `parent_locks` | `insert`, `insert_positioned`, `insert_data_only`, `embed_existing`, `update_value`, `set_node_metadata`, `set_semantic`, `get`, `delete`, `list_*`, queries, `validate` | concurrent calls act as whole calls on a map of paths; the maps agree; no orphan; ids only upgrade |
| Tensor network, `tensor_network.rs` | `nodes`, `points`, `child_counts`, the cell index, the semantic cache | `add_node_data_only`, `add_node_inner`, `commit_child_index`, `unregister_node_with_parent`, `remove_detached_node`, `nearest_*`, `validate_network` | one slot per child; the counter never goes back; queries see what was written |
| Semantic index cache, `semantic_index.rs` | an epoch, a map from slices to trees | `bump`, `get_or_build` | a fresh tree misses no write; the cache is bounded |
| Cell index, `cell_index.rs` | `cells`, `node_cell`, `band_load`, `band_sectors` | `insert`, `remove`, `knn`, `within_radius` | the four maps agree; a query misses no id that was there all along; pruning is sound |
| Metric tree, `metric_tree.rs` | a vantage-point tree, built once | `build`, `search_knn` | equal to a sorted scan |
| Storage, `storage.rs` | none of its own | `store`, `store_data_only`, `store_positioned`, `delete`, `list` | upserts, ancestors made on the way |
| Store, `store.rs` | none of its own | delegation, `check_slice`, `find_outliers`, `embed_all` | errors map one to one; bulk calls are resumable; outliers depend on the population alone |
| Semantic disk, `semantic_disk.rs` | one cached tree and its epoch | `index`, `nearest`, `classify_*`, `concept_of` | the cached tree is current; nearest equals a sorted scan; an anchor belongs to its own concept |
| Extensions, `extension.rs` | the list of extensions, the provider's cache and files | register, initialise, shut down; `store`, `retrieve`, `delete`, `set_metadata`, `flush` | lifecycle order; what was acknowledged survives failures and crashes |
| Key registry, `registry.rs` | a map of names | `register`, `lookup` | names and keys stay one to one |
| Geometry, `hyperbolic_geometry.rs`, `klein.rs` | none | Möbius addition, distances, child placement | arithmetic |
| Constants, configuration, `constants.rs`, `config.rs` | none | builders | |
| Metrics, errors, helpers | counters | counting, formatting | |

The hard behaviours, each listed at its line in PROJECT.json:

* **Stale reads before a lock.** `insert` resolves the parent before it has the
  parent's stripe, `delete` reads the ids whose stripes it then locks, and
  neither looks again at what it read.
* **Two names for one lock.** The stripe of a parent is found by its unique id,
  or by its path in `insert_data_only`; the id of a node changes when it is
  embedded. Writers of one path may hold different stripes.
* **Writers without a lock.** `update_value`, `set_node_metadata` and
  `set_semantic` hold only the guard of the path's entry, so that
  `embed_existing`, which copies a node and swaps its id, can pass them by.
* **Several maps, no transaction.** A node is in up to ten entries of six maps;
  insert and delete change them one by one while readers follow them.
* **An epoch as the only fence** between semantic writers and cached trees.
* **Partial failure.** A placement past the safe radius, or after `MAX_PROBE`
  occupied slots, is refused in the middle of an insert or a bulk embed.
* **Pruned searches.** The cell index and the VP-tree skip what a bound rules
  out; a bound that is too high loses true neighbours, and no caller can tell.
* **Numeric edges.** A `u32` child counter, a saturating band load, products of
  squared distances that saturate or underflow in pruning tests.
* **Crashes.** The file provider writes data and metadata to two files and
  caches the metadata; what a crash or a failed write leaves is read again.
* **Two names for one file.** The provider's files are found by a path without
  its leading slashes, its cache by the path as it is given.

## 2. Modules

| Module | Models | Role |
|---|---|---|
| `LockTable` | the contract of `concurrency.rs` | abstract: all keys of a call in one step, exclusively |
| `StripedLock` | `concurrency.rs` | detailed: one mutex at a time; refines `LockTable` |
| `StripedLockProofs` | | invariant, mutual exclusion, no wait cycle, refinement |
| `ClientRules` | no code: what clients are assumed to avoid | the five rules, as which calls clash; extended by the next two |
| `PathStore` | the promise of the tree to clients that keep the rules | abstract: a map of paths, each call atomic |
| `TreeTensor` | `tree_tensor.rs` with the node maps of `tensor_network.rs` | detailed: one step per access; uses `LockTable`, refines `PathStore` |
| `TreeTensorProofs` | | invariant, placements under one parent serialized; invariant of the maps under the rules for clients; every property of `tree` |
| `TreeStoreProofs` | | invariant of calls in progress; the refinement of `PathStore`; embeds keep the data |
| `SemanticIndex` | `semantic_index.rs` with `nearest_semantic`; the cached tree of `semantic_disk.rs` | writers, walks, caches |
| `SemanticIndexProofs` | | invariant, cached trees current, queries recent, the cache bounded |
| `CellIndex` | the concurrent part of `cell_index.rs`, and the names the tree gives its ids | updates and queries over five maps |
| `CellIndexProofs` | | invariants, loads and answers honest; maps agree and queries complete where cells are not shared |
| `Storage` | `storage.rs`, and `embed_all` of `store.rs` | jobs made of several calls on the tree; extends `PathStore` |
| `StorageProofs` | | invariant of the jobs, what their answers mean, files survive, for jobs whose calls keep the rules |
| `PoincareDisk` | the geometry the searches compare by | points at rational distances |
| `CellSearch` | the bounds, the walk and the visitors of `cell_index.rs` | pure: extends `PoincareDisk` |
| `MetricTree` | `metric_tree.rs` | pure: building, walking, pruning in fixed point |
| `SemanticDisk` | `semantic_disk.rs` | pure: extends `MetricTree` |
| `Search` | the queries of `store.rs`, `tree_tensor.rs`, `tensor_network.rs` | a store that changes, and what each query answers; composes the four above |
| `SearchProofs` | | bounds of cells and pruning tests of trees sound, walks keep the best; spatial and semantic queries as scans, outliers, classification |
| `FileStorage` | the file provider of `extension.rs` | file operations, faults, cache |
| `Extensions` | the manager and the registry's lock of `extension.rs` | lifecycle; extends `FileStorage` |
| `ExtensionsProofs` | | invariants of provider and manager, acknowledged writes stay |
| `MC*` | | small instances of these for TLC |

The composition follows the code: `TreeTensor` instantiates `LockTable`, whose
`Acquire` is what `StripedLock` is shown to implement, so that the interleavings
of single mutexes need not be explored a second time below the tree. In the same
way `Storage` works on `PathStore`, which `TreeTensor` implements for clients
that keep the rules (section 3). The points of `TreeTensor` stand for the
entries of `CellIndex`, and its changes to nodes are the writes of `SemanticIndex`; neither index calls back. What a query
answers is split in the same way: `CellIndex` and `SemanticIndex` say which
nodes it can see while others write, `Search` which of those it returns.

### How each corresponds to the code

**StripedLock.** `owner` is the array of mutexes, `StripeIndex` is
`stripe_index`, `LockOrder` the comparison in `lock_two`. `CallLock` and
`CallLockTwo` begin a call, `Take` is one `Mutex::lock` that returned, `Drop`
one guard going out of scope; the order of the drops is left to the caller.
Poisoning is not modelled (`lock` recovers the guard, so it changes nothing).

**TreeTensor.** `pathMap`, `idToPath`, `nodes`, `points` and `childCount` are
the maps; `nil` entries are entries that are absent. `held` is the stripes, and
`pc` with the locals (`parentId`, `ownId`, `newId`, `copy`) is the position in
the Rust function. One action is one access to a shared map, or several between
which no other thread's access matters: `Place` peeks at the counter, probes and
commits, because every access that could come between is either under the same
parent stripe or hits a map that `Place` reads once. (The probe of a slot and
the insertion of the node are separate steps, `Place` and `Register`: that is
where two parents without a point collide, see section 4.) `update_value`, `set_semantic` and `get` hold the guard
of the `path_map` entry across their use of the node, and are one step each.
`embed_existing` calls itself for the parent: `frames` is its call stack.
`DeleteRead` … `Unlink` are the lines of `delete` in order, with the parent id
read before the lock and the removed id used after it.

A path is the sequence of its components. A unique id is what the code hashes
(the key for a data-only node, level and position for an embedded one), so that
the hash is taken to be injective. A position is the sequence of child indices
that leads to it from the origin: `compute_child_placement` is a function of the
parent's position and the index, and the origin stands in for a parent without a
point. `Unsafe` says which positions are past `max_safe_radius`. `validate` and
`validate_network` are predicates that `QuiescentExact` compares with what it
says of the maps itself.

**SemanticIndex.** `Mutate` then `Bump` is every writer (a node is changed
under its shard, and then the epoch is advanced); `LoadEpoch`, `Lookup`,
`PreRead`, `Visit`, `Cache` are `get_or_build`, with the iteration over the node
map as one step per node; `scan` is `nearest_semantic_scan`. Coordinates are the
number of the write that set them, so that a tree shows how old each of its
entries is. `committed` and `floor` are history variables: what had been
acknowledged, and what had been when a query began.

The disk's tree is the argument `Disk` of a query: it always builds, and
`CacheDisk` replaces the tree that is there by its own, older or newer.

**CellIndex.** One action per entry of one map, in the order of `insert`,
`remove` and `detach`. A cell is a model value with a band: which cell a point
falls into is arithmetic, and a point may be given any cell. A query walks every
band in use and every cell recorded for it. Around the index are the accesses of
the tree: `Name` records the path of an id after it is indexed, `Forget` removes
the path before the id leaves the index, and `Resolve` looks up the hits of a
query and drops those without a path. `settled` and `seen` are history: the ids
a query must find, and those it may find.

**Storage.** A job is one call of a client, and a program of calls on the tree,
with nothing held between them; `pc` is the position in it. `Ask` makes the next
call, `Serve` is the moment at which the tree performs it, and `React` is what
the Rust code does with the answer: `Scan` is one turn of
`find_missing_ancestors`, `MakeCheck` and `Make` one ancestor of the loop in
`store`, `TargetCheck`, `Target` and the update the end of it. `store`,
`store_data_only` and `store_positioned` differ in the kind of insert alone.
`exists` is a `get` whose data is not looked at. `todo` is the vector of missing
ancestors, or the sorted keys of `embed_all`; `list_subtree` walks a map that
changes under it, so that `List` comes to the paths one by one and in any order,
and puts each where the sort of the keys would.
`removed`, `stored` and `due` are history variables. As the tree is the map of
paths only for clients that keep the rules, `MayAsk` lets a job make a call only
while it clashes with no call in progress and with no data-only path (`stubs`)
that is there: jobs overlap as they like, their calls do not. Nothing in the code
makes a job wait like that. What the run `storage` and `StorageProofs` show is of
such clients; observations 1 to 3 are what befalls others.

**PoincareDisk** holds points at which every quantity the searches compare is a
rational number: the radii at which e^r is 1, 3/2, 2, 3 or 4, in the twelve
directions with whole coordinates on the circle of radius 5. Distances are given
by their cosh, which is how `cell_index.rs` compares them, in units of 1/14400.
`pseudo_angle` is the diamond angle, truncated as in the code; `Cosine` and
`SineSquared` are rounded so that a bound stays a bound, the tables standing for
`cos_sin_of_gap`.

**CellSearch** is `expand` with its parts: `radial_bound`, `bound_for_gap` with
its three cases, `cell_bound`, `envelope`, and the two visitors. Bands are
walked by bound, sectors by offset from the query's own; `BandStep` and
`SectorStep` are the bodies of the two loops, which `expand` and `WalkSectors`
run as often as there are bands and sectors, a `break` leaving nothing to visit;
`ceiling` is the limit of the moment. A query is the point with either a k or a limit, as the walk is
one for both.

**MetricTree** computes in fixed point of `IntBits`.`FracBits` bits that
truncates and saturates as `g_math` does; the code has 63.64, and the module
assumes of a width only that the first number is odd and the second even, from 2
on. `Power` is 2^n as a function, so that it can be proved about. `build` is
`build_node`: the first entry is the vantage point, the median score divides the
rest, scores equal to it go right (`NodeOver`); a tree is the table of its nodes,
put together from a node and the tables of both halves (`Joined`).
`search_knn` descends into the nearer half
and decides on the other with the candidates it has by then. `Separated` is the
pruning test, in squared distances for semantic coordinates and in squared
ratios for the disk. `sqrt_upper_bound` is the two Newton steps of the code.

**SemanticDisk** places a node at the weighted barycenter of the concepts it has
an affinity to, in Klein coordinates, as a vector (t, x, y), so that no division
is needed; `classify_point` compares the anchors' (1 - <x, k>) gamma, as the
code does. `nearest` works on the nodes with a single affinity, which lie at an
anchor.

**Search** has one variable, what each stored key has: a place or none, and its
coordinates. Its actions are the calls that change that; its operators are the
queries, each with the path it takes through the code: the check of the slice,
the choice between the scan and the tree, the k + 1 from which the node itself is
dropped, the resolution of the answers. A store of four keys reaches every
combination of the nodes in `Kept`.

**FileStorage.** A path is the slashes it begins with and the name of its file:
`path_to_fs_path` drops the slashes, the cache is indexed by the path whole, and
`list` gives every path back with one slash (`logical_path`), whatever it was
stored as. So a file has as many entries in the cache as it has spellings, and a
delete or a save is of one of them. `Spelled` is the set of paths with which
clients set metadata and delete; `OneSpelling` says that it has one of each file,
which the code asks of nobody. Reads and `store` are by any spelling. Other
spellings of a file that only the file system knows, such as `a//b`, are not
modelled, nor that `list` with a prefix that has no slash finds nothing.
A call of the provider is a sequence of file operations, each of
them a step; the provider is taken mutably, so there is one call at a time.
`Fail` ends the call with an error at any step and leaves the file as it was or
torn, `Crash` loses the cache as well. `save_metadata` writes the whole map, so
that `set_metadata` is the change of the cache and then `Save`. `known` is what
the caller may rely on, `unsure` what calls that ended in an error may have
changed.

**Extensions.** `order` is `dependency_order`, which is the order of
registration. Each call of the manager is one step, since the registry's lock is
held throughout; `Through` is the loop that stops at the first extension that
returns an error or panics, and a panic poisons the lock, after which
`manager_mut` refuses every call. Replacing or removing the provider drops its
cache.

## 3. What is checked

| Run | Instance | Shows |
|---|---|---|
| `lock` | 3 threads, 4 keys on 3 stripes, 1 call each | guards exclude, waiting has no cycle and ends, the array refines `LockTable` |
| `tree` | 2 threads, 4 paths (two children, one grandchild), every kind of call, all rules | maps, child lists, counters, geometry and `validate`, at each step and at rest |
| `tree_values` | 2 threads, 3 paths in a chain, 2 values, 1 coordinate | every interleaving is a sequence of whole calls (`PathStore`); placements under one parent are serialized |
| `semantic` | 3 threads, 2 nodes, 2 slices and the disk, room for 1 slice | no query misses an acknowledged write; the cache is bounded |
| `cell` | 3 threads, 2 ids, 3 cells in 2 bands | the maps agree at rest, queries are complete and honest, loads count |
| `storage` | 2 threads, a chain of 3 paths, every kind of job, calls within the rules | a put takes effect or something was removed, no file turns into a directory, `embed_all` passes no key by |
| `search` | 4 keys, 13 kinds of node, 3 bands, 5 concepts | every pruned query answers as a scan does |
| `extensions` | 2 extensions, 2 files of 2 spellings each, written by one of them, 2 keys of metadata, 2 faults | acknowledged writes stay, metadata never outlive their data, extensions run in order |
| `lost_update`, `orphan_race`, `cell_lost`, `radius_missed` | the smallest that shows it | the findings below |

**Bounds.** Two threads are enough for every race between two calls, and each
thread makes calls without limit, so that a long history is part of the runs;
three are used where a third party matters (a ring of waiting threads; two
writers and a query). The paths are the smallest that have a parent, a child
with siblings and a grandchild. `MaxIndex = 1` stops new children where the
counter has passed 1, which is enough for a slot to be freed and the next one
taken; `MaxProbe = 3` is enough for a probe that skips a slot; `Hint = {0, 1}` makes
`insert_positioned` ask for a slot that is taken, was taken once, or comes next.
`OuterGrandchild` puts the safe radius where a grandchild on a later slot
crosses it, so that both refusals occur. `MaxCalls = 1` bounds the lock run,
where one call per thread already makes every cycle; `MaxWrites = 1`,
`MaxSlices = 1` and `MaxQueries = 2` bound the semantic run: one write between
any two steps of two queries is the race at issue, and a second slice forces an
eviction. `MaxQueries = 1` bounds the cell run, as queries change nothing there
and do not meet. The
storage run has no bound but its instance: three paths in a chain are the fewest
with an ancestor that is neither the root nor the parent, and one value besides
the empty one of directories tells what a property asks. All three can be
removed; the longest is put with and without a position, so that its ancestors
are made on the way, while the first of these is put or embedded too. Each kind of
job is made, those that differ from `put` in one step of one path each.

The search run is a set of stores rather than a race: the root and three
children reach k = 2 with a node too many, ties at the median and at the k-th
distance, two nodes at one place, nodes in one cell, in another sector and in
another band, and nodes without a place or without coordinates. `Kept` is
chosen so that a walk is cut short in each of the ways there are, and with
`IntBits = 5` the squared distances of its coordinates do saturate in a product,
as they would in the code from about 2^31 on. A score alone does not saturate
(`DistancesAssumption`): where it does, from distances of about 3 * 10^9 on in
the code, the tree sees ties that the scan, which ranks by other numbers, tells
apart. `MinNodes = 2` and
`MinPopulation = 3` put both sides of each threshold within reach. In the
extensions run two faults let a failure be followed by a crash; one value
suffices, as an entry is either there or not.

**Rules for clients.** The code accepts any call at any time, and under that
freedom several of its promises do not hold; the five rules of `Discipline` name
what clients must avoid for them to hold, each with its reason:

| Rule | Keeps apart | Without it |
|---|---|---|
| `delete_alone` | a delete and an insert or embed at, above or below it | finding 2, observation 2; also, the id of the stripe that delete locks may be out of date |
| `no_write_during_embed` | a write and an embed of the same node or a descendant | finding 1 |
| `no_data_only_child` | deleting a node and having data-only children under it | observation 3 |
| `embed_parents_first` | placing a child under a data-only parent | observation 5; also, embedding the parent afterwards builds a node with an empty child list, and the children are unlisted |
| `one_kind_of_insert` | a data-only insert and a placed insert of one path | observation 1: both succeed, under different stripes |

The rules are in `ClientRules`, and there are two ways in which they enter a
specification. `TreeTensor` has them as a constant, so that a run or a theorem says
which it assumes; `Storage` has them all, as `MayAsk`. No property or theorem
about the tree's contents is free of them; those that are free of them are in the
next paragraph.

What the stripes guarantee whatever clients do, that placements under one parent
are serialized, is proved for every `Discipline` (section 5). `ShareCells` is the
like for the cell index: `FALSE` keeps two updates from one cell at a
time, which nothing in the code does (finding 3), and `OneSpelling` the like for
the files of the provider (observation 4).

**Fairness.** Only the lock run checks liveness. `WF(Take)` says that a thread
waiting for a mutex that stays free gets it, `WF(Drop)` that a thread with a
guard runs on to drop it: what the scheduler and the standard mutex give. The
standard mutex is not fair, so strong fairness is not assumed, and each thread
makes finitely many calls; with endless calls a waiting thread may be passed
over for ever.

**Stopping.** Deadlock is checked wherever the code cannot stop. In the lock run the
threads may rest once all are out of calls (`Rest`); elsewhere a thread can
always make another call. In the storage run a job waits where its
next call would break a rule, and may wait for ever: while a path has a
data-only child that nobody removes, it cannot be deleted. In the extensions run
the system really may stop: once a panic has poisoned the registry's lock every call is refused, and only a
restart, of which there are `MaxFaults`, helps.

## 4. Findings

1. `lost_update`: `embed_existing` copies value and coordinates under the
   parent's stripe, which writers of the node do not take. A write between the
   copy and the swap of the ids is acknowledged and lost.
2. `orphan_race`: `insert` resolves the parent before it locks, and rechecks
   only its own path. A delete of the parent in between succeeds, and the insert
   succeeds after it. Two variants need more steps: the delete of a node that is
   being embedded, or deleted and inserted again, locks the stripe of an id the
   node no longer has.
3. `cell_lost`: `detach` lets go of a cell between finding it empty and
   removing it; an id put there in between is lost to every query.
4. `radius_missed`: `radial_bound` takes the nearer of a band's two edges also
   for the band in which the query lies, where nothing can be ruled out. A
   `find_within` whose radius is below the distance to that edge ends its walk
   before it has begun and answers with no node at all, however near they are.
   `RadiusAsScan` shows that this is the only case: elsewhere the answer is that
   of a scan. `nearest_k` is not affected, as its limit is always the distance
   of a node. Where bands are as wide as the levels of the tree are apart, nodes
   lie on the edges and nothing is seen of it; with other spacings it shows.

Findings 1 and 2 are of histories that the rules exclude: they cannot be seen in
`tree`, `tree_values` or `storage`, and the theorems about the tree's contents do
not speak of them. Nor do they speak of the first three and the fifth of these
observations, which have no run of their own; where an instance is named, TLC
shows them on it.

1. `insert_data_only` locks the path of the parent (tree_tensor.rs:279), `insert`
   its id (326), so that both may find one path free at once; what is published
   last (295) replaces what was there. `put_data_only` of `/a/b` makes `/a` as an
   empty directory in just this way while another thread puts the file `/a`, and
   the file's content is gone though both puts answer Ok, against the comment of
   `store` on ancestors made concurrently (storage.rs:112-113). Run `tree_values`
   without `one_kind_of_insert`: `ImplementsPathStore` is violated. Of the jobs
   of `Storage`, `FilesSurvive` does not hold then.
2. A `put_data_only` finds its path free as soon as a delete has unmapped it, and
   adds its node (tree_tensor.rs:289); the delete, which holds another stripe
   (672), then removes the node by its id, which is that of the path for the old
   node and the new one alike. The put publishes a path without a node (295) and
   answers Ok, and no `get` ever finds the value. Run `tree_values` without
   `delete_alone`: `ImplementsPathStore` is violated. `PutTookEffect` does not
   hold then.
3. `delete` asks the child list (tree_tensor.rs:684), in which data-only children
   never appear. One thread suffices: put `/a/b` as data only, remove `/a`, and
   `embed_all` of `/a` answers `NotFound`, though nothing was removed while it ran.
   The orphan stays. Run `tree_values` without `no_data_only_child`, and with one
   thread: `ImplementsPathStore` is violated by the delete. `NotFoundMeansRemoved`
   does not hold then.
4. The file provider drops the leading slash of a path for the file
   (extension.rs:493-499) and keeps it for the cache (620, 692, 702). Metadata set
   for `a` are missing when asked for as `/a`, if that has an entry of its own, and
   the next save of that entry takes them out of the file. `delete` of `a` likewise
   leaves the entry of `/a`, which `get_metadata` serves and `flush` writes back.
   The way there is short, as `list` gives back `/a` for what was stored as `a`.
   Run `extensions` with every path in `Spelled` (`AnySpelling`) and no faults:
   `AckedStays` is violated.
5. Two data-only parents have no point, so the first child of each is placed
   around the origin under the same unique id, with different stripes held; the
   check that the slot is free and the insertion of the node are separate, and
   one node replaces the other: run `tree` without `embed_parents_first`, with a
   child under each of two siblings.
6. `validate` answers `false` for every store that holds a data-only node, since
   `validate_network` (tensor_network.rs:905-910) asks for a point for every
   node. `QuiescentExact` shows that at rest this is its only reason.
7. The product of two squared distances underflows in 64 fraction bits when both
   are about 1e-5 or less; `sqrt_upper_bound` of zero is zero, which is no upper
   bound (metric_tree.rs:356), and the VP-tree prunes true neighbours of nodes
   that lie that close together. The search run uses whole units, where nothing
   underflows, and so do the theorems about the VP-tree.
8. `neighbors_semantic` resolves its own key after the query has run
   (tree_tensor.rs:1014): if the path is deleted meanwhile, the node is among its
   own neighbours. `nearest_neighbor_point` (tree_tensor.rs:872) may answer
   `NotFound` on a store with nodes, while the nearest is being inserted or
   deleted.
9. `commit_child_index` adds one to a caller's `u32` hint
   (tensor_network.rs:501), which overflows at the largest.
10. Metadata that could not be saved remain readable from the provider's cache,
   and are gone after a crash, or once the provider is replaced or removed
   (extension.rs:703). A torn metadata file is refused by `set_metadata` from
   then on; only `delete` clears it.
11. Registering over a running extension does not shut it down, and a panic in an
   extension makes the registry refuse every later call.
12. The data file of the path `a.metadata` is the metadata file of `a`.

## 5. What is proved

Each theorem holds for every value of the constants that the named assumptions
of the module admit: any set of threads, keys, nodes or paths, any hash
function, any rules for clients, runs of any length (`MaxCalls`, `MaxWrites` and
`MaxIndex` may be any number). Every proof has the same form: an inductive
invariant, a lemma for the initial states, one lemma per action, and theorems
that read the properties off the invariant.

**`StripedLockProofs`** (assumes that there is a stripe, that hashes are
naturals and that `Nobody` is no thread). `LockInv` adds to the types that a
thread waits for its stripes in strictly ascending order, that every stripe it
holds is below those, and that inside it holds exactly the stripes of the keys
it asked for. From it follow `MutualExclusion`; `DeadlockFreedom`, as along a
chain of waiting threads the awaited stripe only grows, so that in any set of
threads the one that waits for the greatest waits for none of the set; and
`Refinement`: the step that takes the last mutex is `Acquire`, the first guard
dropped is `Release`, all else is a stutter. `GuardsCoverKeys` alone is not
inductive: it says nothing of a thread that holds one of two mutexes.

**`SemanticIndexProofs`** (assumes slices are numbers). `CacheInv` relates, for
every tree there is, a tag to what was committed. `Stored`: what counts as
committed is in the node map. `Floors`: what a query must see was committed by
then. `Walks`: a walk in progress has seen, of the nodes it has visited, all
that was committed when its query began, and while the epoch has not moved all
that is committed now. `Tags`: the same of a cached tree whose tag is the
current epoch. `Lookups`: a query that has read an epoch can take any tree of
that epoch, *including those other threads are still walking*, as these may
reach the cache before it looks. `DiskTag`: what the disk's single tree was built from,
whichever builder came last. `Answers`: what is returned. Without `Lookups`
the invariant is not inductive: the epoch may move between the load and the
lookup, so that `Tags` no longer speaks of the tree that is found.
`CacheCoherence` and `QueriesSeeReturnedWrites` follow. `CacheWithinLimit` says of
the cache that eviction makes room for one entry at a time, whichever builders
race.

**`TreeTensorProofs`**, first part (assumes that paths contain the root and their parents,
that no id is `Nil`, that probing tries a slot at least once and hints are
indices). `TreeInv` adds to the types `Calls` (which call a step belongs to; an
embed has a path to work on until it returns), `Chosen` (what a call has
resolved and chosen exists when it is used) and `Guards` (a placement works
under the stripe of the parent it resolved; stripes exclude each other).
`PlacementsSerialized` follows: the peek at the sibling counter and its commit
act as one step, which is also what entitles `Place` to be a single action.
`TypeCorrect` includes that no data-only id ever has a point.

Its second part proves every property of the run `tree`, for any number of
threads, any tree of paths, any placement that is refused and any probing, under
the hypothesis `MapRules \subseteq Discipline`: clients keep four of the five
rules, which the code does not enforce. `MapsInv` is `TreeInv` with

* `IdsOK`: a data-only id is that of its path, an embedded one is one slot
  beyond the id of a published, embedded parent, at the level of its depth. That
  two paths never share an id (`OnePath`) is a consequence, by the level and by
  the position, and needs no clause;
* `NodesOK`, `EntriesOK`, `ChildrenOK`: what a path needs is in the map, and
  *what is in the map is some path's or some call's*. The claims of calls are
  `Owns` (a node not yet published, or not yet taken out), `Names` (an entry of
  `idToPath`) and `Lists` (a place in a child list). They are what makes
  the properties inductive, and what makes `QuiescentExact` follow: at rest no call
  claims anything, so that inclusions become equalities;
* `PointsOK`, `CountersOK`: points are the embedded nodes, counters belong to
  points and lie above the children listed;
* `ThreadOK`, for each step of each call: what a call resolved before it had its
  stripe is still so (`ParentAt`, `TargetAt`), the id it chose is nobody else's
  (`SlotAt`), its node, entry and counter are there until it has published them
  (`NodeAt`, `ListedAt`, `CountedAt`, `EntryAt`), and what a delete read before
  its lock is what it removes after it (`DeleteAt`).

Each rule enters at one place. `delete_alone`: a parent resolved without a stripe
cannot vanish before the stripe is taken, and no placement passes the child check
of a delete, whose stripes need not be those of the placement (`DeleteAlone`).
`no_data_only_child`: `list_children` does not see those, so that the check
would let an orphan be made. `embed_parents_first`: an insert finds a parent
with a position, so that its key is an id and its children do not stack on the
centre. `one_kind_of_insert`: `insert_data_only` locks the parent's path, the
others its id, and one path could be inserted under both (`TargetsApart`).
The fifth, `no_write_during_embed`, is not used: what an embed may lose is a
value, never the shape of the maps. The code enforces none of these; the run
`orphan_race` shows what happens without `delete_alone`. `MapsInv` itself was checked
by TLC on the instance of `tree` before it was proved, with all rules and with
these four alone (1,975,353 states). `IdsUpgrade` follows from `TargetAt` at the
two steps that publish.

`NoOrphans`, which `orphan_race` violates, is neither checked nor proved under
these rules: it would say little there, as they exclude the race of finding 2 and
the sequence of observation 3 by which nodes are orphaned. What is checked and
proved is what the child check of `delete` rests on, `ChildrenListed`: a
positioned child is in the child list of its parent at every moment, also while
it is upgraded or a sibling goes. It needs the same rules: a child that is placed
under a data-only parent drops out of the list when the parent is embedded. That
delete heeds the check is part of `ImplementsPathStore`.

**`TreeStoreProofs`** proves the property of `tree_values` that says what the
tree is for, `ImplementsPathStore`, and `EmbedKeepsData`, under the hypothesis
`Rules \subseteq Discipline`: clients keep all five rules (`AnswerAssumption`
adds that `Nil` is no data and no answer). `StoreInv` is `MapsInv` with

* `WritesApart`: the fifth rule, `no_write_during_embed`;
* `AnswersOK`: a call has its answer exactly when it is about to return;
* `AncestorsAt`: an embed works towards the path it was asked for, and once it
  has seen that path, it and every ancestor on the stack stay mapped until the
  end. So `not_found` is given by the first look alone, and the second looks,
  under the lock, never meet a path that has gone;
* `CopyAt`: what an embed has copied is what the node it is about to retire
  still says. This is the clause that `lost_update` breaks: a write between
  `Snapshot` and `Publish` is excluded by `WritesApart` and by nothing in the
  code. The write may be to an ancestor that is embedded on the way, which is
  why the rule speaks of every path above the embed's own;
* `NewAt`: a node about to be published says what its insert was asked for, or
  what its embed has copied so far, coordinates last.

`StoreImplemented` follows by showing of each step what clients see of it
(`Seen`). A call takes effect at the step that settles its answer: an insert at
`Publish`; a write or a read at its one step; an embed at its last frame; a
refusal where it is decided; and a delete at `Unmap`, three steps before it
answers, so that what comes after it is not seen. That
an insert may answer `not_found` from `Resolve`, long before or without its lock, is
no exception: it is true at that step. That `has_children` is true needs an
argument (`ListedBelow`): the child that `list_children` finds may be one an
insert is about to publish or one a second delete has yet to take out, and in each
case a path below is mapped, by `ChildrenOK` and the stripes. `StoreInv` was
checked by TLC on the instance of `tree_values` (657,064 states) before it was
proved.

**`CellIndexProofs`** (assumes that bands divide the cells and that `None` is
no cell, no id and no set of ids) has two invariants. `Inv` holds of every
history. `CallOK` says, for each step of an update, where the entries have its
id (`Place`) and for which cell the id counts in a band's load (`Counted`):
neither is always the cell that `node_cell` gives, as `insert` moves the id
before it lets go of the old cell, and `detach` the other way round. `FreeIds` says
the like of ids that no call works on, `LoadExact` that a load is the number of
ids that count for its band, and `Foreseen` that a query has been told of all
that it may come upon. `NoGhosts` and `LoadsCount` follow, though entries may
be lost. `ApartInv` adds, under the hypothesis `~ShareCells`, what finding 3
breaks otherwise: that ids are `Present` in the entries of their cells, that an
empty entry or a mark without entry belongs to a call that is about to remove
it (`Entries`, `Sectors`), and that what a query has left to read leads it to
every id it owes (`Underway`). `QueriesComplete` and `MapsComeToAgree` follow. The
hypothesis is one on clients and the code does not enforce it; `cell_lost` is
the run without it.

**`StorageProofs`** is about jobs whose calls keep all five rules, as `Storage` lets
no other call be made; without them `PutsTakeEffect`, `NotFoundIsRemoval` and
`FilesStay` fail (observations 1 to 3). It is `StoreImplemented`, under the same
rules, that carries the results over to the tree. (The module assumes that paths
are sequences of names that contain the root and their parents, that `Dir` is no
value a client puts, and that nodes made with different values differ.) `At` says
what holds at each step of a job with the ancestors or keys it has left: they are a chain of parents up from the path
(`TodoAt`); what a step writes below or onto has `Lived`, that is, it is there
or was removed while the job ran (`GroundedAt`); and what an `embed_all` owes is
ahead of it (`DueAt`). `AnswerOK` says what an answer means by the time the job
looks at it, when the tree may have changed again. `PutTookEffect` alone is not
inductive, as an update after a lost race answers for a path that the job has
not inserted; `NotFoundMeansRemoved` needs the chain. The order in which
ancestors are made enters through `GroundedAt`: the parent of each is the one
made before.

**`ExtensionsProofs`** (assumes that `None`, `Torn`, values, metadata and keys
are told apart, and that `list`'s spelling is one). `ProviderInv` relates files, cache, `known` and `unsure` at each
file operation: the file agrees with what the caller knows (`FileAgrees`) but
for a delete that has removed it, the cache (`CacheAgrees`) but for the entry
being saved, and a torn file or a cache ahead of its file is owed to a save that
failed or is to come (`FileBehind`). These three are claimed under `OneSpelling`
only, where a file has one entry in the cache (`CacheOwned`, `Alone`); types, the
order of a delete's two removals (`MetadataGoesFirst`) and the manager are
proved for any spellings. `AcknowledgedStays` has `OneSpelling` as its hypothesis, and is
false without (observation 4). It does not promise that all that was acknowledged can be
read: after a save that was torn none of the file's metadata can. `AckedStays` alone is not inductive: it
says what is read, and a crash changes where that comes from. `ManagerInv` says that
names are in the order once and running extensions are among the registered.

**`SearchProofs`** (assumes that bands cover the radii in ascending order, that
the sectors of a band divide a turn, that anchors are points, that `None` is
neither a point nor a site, that the width is one of those above, that slices are
finite sets of dimensions, and that no squared distance between coordinates that
may be kept saturates over a slice that is compared). The state is simple,
`Stores` says that finitely many nodes are stored and the root is placed; what
takes the proof is that a query over it answers as a scan does, for any bands,
sectors, points, k and limit.

* *The bounds* (`DistanceBounds`, `CellExceeds`, `EnvelopeExceeds`): for each of
  the three cases of `bound_for_gap`, the law of cosines gives that no point at
  the gap or more is nearer than the bound; a point of a sector is at its gap or
  more, both ends wrapped on their own, and `envelope` is below the bound of
  each sector that far off. `exceeds` compares in units that truncate, downward.
* *The ranking* (`Before`, `Ahead`, `Best`): the first k by score and id of
  a union are those of the first k of its parts (`BestOfBest`), what lies past
  a full set of k changes nothing (`BestUnchanged`), and k + 1 without the node
  itself are the k best others (`BestWithout`), whether or not it was among them.
* *The loops*: after each step what is found is `Found`, the answer to the query
  over all that was seen, where what a bound has skipped counts as seen
  (`SectorState`, `BandState`). A skip is right as the ceiling is the worst of k
  found (`SkipFound`). The band walk may cut off bands whose radial bound is past
  the limit, so that for a query with a limit it is complete only if the limit
  `Reaches` the query's own band: then no cut occurs before a band that holds an
  answer (`OwnBandLeast`, `OtherBands`, `BandCut`). That is the hypothesis
  `RadiusAsScan` has, and finding 4 is the case without it; `knn` needs none, as
  its ceiling is a distance that some point has.
* *Recursive functions*: that a function with `walk[n]` defined from
  `walk[n - 1]` exists is proved (`Loop`, `LoopFunction`) and not presumed, and
  what it computes follows by induction over the set of steps for which the
  invariant holds (`SetInduction`, from the library's well-founded order), the
  number of bands or sectors left being what decreases. No induction theorem with
  an operator as parameter is used.

The semantic queries, of which `SpecSemanticAsScan` and `SpecOutliersAsNaive` say
that they are scans, rest on four arguments about the VP-tree:

* *`build` and `search_knn` are functions* (`BuildExists`, `SearchExists`): each
  call is about fewer ids, so `RankedRecursion` gives one for all.
* *`build` makes a tree* (`BuildIs`): by induction over the number of ids, each
  node of the table divides its part into itself, what is below the median of
  the scores from it, and the rest.
* *The pruning is sound* (`EuclideanPruning`). A Newton step rounded down is no
  lower than the root rounded down, whatever it starts from (`NewtonAbove`), and
  a quotient that saturates only raises it (`NewtonStep`); so `sqrt_upper_bound`
  is within its rounding of an upper bound (`RootAbove`), and as scores are whole
  units the test says exactly that hi + lo - worst is positive and its square
  above 4 hi lo (`SeparationGap`). The guard of `sq_product_may_saturate` is what
  makes the product exact. The Cauchy-Schwarz inequality, over sums
  with any number of terms (`SpansMore`, `SumsSpan`), then puts every entry of the
  half in question beyond the worst found (`LeftFar`, `RightFar`). That is where
  the coordinates of whole units are needed: observation 7 is the case without.
* *The walk keeps the k best* (`SearchIsBest`): by induction over the size of a
  part, what has been found after it is the best of all seen so far and the part
  (`Searched`), whichever half comes first; the second descent is decided with
  what the first has found (`DescendKeeps`).

A scan ranks by squared distances and the tree by these in units, which order
alike (`SliceKnn`); `neighbors_semantic` and the peers of `find_outliers` drop the
node itself from k + 1 (`OthersOfTree`).

`SpecClassifyIdentity` unfolds the barycenter of a single affinity to the
anchor's site, whose distance from the anchor is none (`DeriveOne`,
`ClassifyOne`); sums over a set are given as a table (`SumExists`).

**Only model-checked:** `EveryCallReturns`, which is liveness, and `DiskAsScan`,
the queries of the semantic disk over its VP-tree. The disk's pruning test
compares squared ratios that are floored to the width: a score is below its
ratio, the test is of (a - b) / (1 - ab) and not of a difference, and with few
fraction bits the floors outweigh what separates two nodes. TLC finds it sound
with the points of the run and 10 fraction bits; a theorem would have to bound
the number of fraction bits from below by the radii that occur. What build and walk contribute is
proved for it as well (`BuildIs`, `SearchIsBest`). Every other property of every
passing run is stated by a theorem. `EmbedKeepsData` and `MapsAgree`, which
violation runs show violated, are theorems under the hypothesis on clients that
these runs drop.

## 6. What is not modelled, and why

* The Q64.64 arithmetic of positions and distances, in `g_math`, an external
  crate, and with it Möbius translation, the placement of children and the turn
  of a Klein barycenter back into Poincaré coordinates. The searches are checked
  at points with rational distances, and only the VP-tree's own arithmetic is in
  fixed point; that the rounding of the code's width leaves the bounds of cells
  below the true distances is not shown.
* The shard locks of DashMap: a call on a map is one step. That a thread which
  holds the guard of one entry waits for the shard of another is therefore not
  seen.
* `set_node_metadata`, and `get_semantic` under concurrency: they have the steps
  of `update_value` and `get` on another field.
* `SemanticDisk::build`, which embeds the taxonomy in a private store and takes
  the anchors' sites from it: the sites are a constant. Trajectories are a map
  of `classify_sample` over samples.
* Queries by descent (`find_descendants_spatial`), and the adapters with which
  users query a store by code of their own.
* The configurations and capabilities of extensions, the directories of the file
  provider and its transactions, which the code refuses.
* Key normalisation in `storage.rs`: every name is a normalised path.
* Deleting or inserting the root: `Path \ {Root}` is what clients name.
* The moment of `embed_existing` in which a node is in the map under both of its
  ids: a semantic walk may then see the key twice.
* Components marked not_modelled in PROJECT.json, with the reason at each.

## 7. Plan

Every component with state of its own is modelled, and every safety property
but that of the semantic disk's tree is proved. What is left:

1. The placement loop against a counter of w bits: `commit_child_index` advances
   an `u32` past the index taken, and the counter of `TreeTensor` is a natural
   number.
2. Which of the five rules each property of the tree needs by itself: `MapsInv`
   asks for four of them at once, `StoreInv` for all.
3. The semantic disk's tree (`DiskAsScan`) for every width that is wide enough for
   the points of the disk, and the Euclidean one for coordinates that are not
   whole units, down to where a product underflows (observation 7).
