# A TLA+ model of kuery

kuery copies objects of many Kubernetes clusters into a SQL database and answers
nested queries over them. This directory models its two halves, the **write path**
(command, controller, discovery, informers, garbage collector) and the **read path**
(filters, relations, transitive relations, tree assembly, pagination), checks them with TLC on small
instances and proves the central results for all instances with TLAPS.
`PROJECT.json` lists components, runs, mutants, the map from definitions to source
lines, findings, hazards and theorems; this file explains them.

## 1. Inventory

| Component | Source | State | Operations | Module |
|---|---|---|---|---|
| Store | `internal/store` | tables `clusters`, `resource_types`, `objects` | upserts, deletes, `ListStaleClusters` | `Store` |
| Sync controller | `internal/sync/controller.go` | map `sc.clusters` under `sc.mu`, one context per run, `lastRefresh` per CRD watcher | `Engage`, `Disengage`, `runInformers`, `watchCRDs` | `SyncController` |
| Discovery | `internal/sync/discovery.go`, `blacklist.go` | none of its own; clears and refills `resource_types` | `RunDiscovery` | `SyncController` |
| Command | `cmd/kuery/main.go` | one goroutine per cluster of `--kubeconfigs` | `parseKubeconfigs`, `Run`, `engageClusterFromKubeconfig` | `Command` |
| Event handlers | `internal/sync/handler.go` | none; client-go keeps caches and queues | `OnAdd`, `OnUpdate`, `OnDelete` | `EventSync` |
| Garbage collector | `internal/gc/gc.go` | the list of a pass | `Run`, `collect` | `GarbageCollector` |
| Write path as a whole | the above | the above, shared tables | all of them interleaved | `Kuery` |
| Transitive relations | `internal/engine/transitive.go` | rows of a recursive CTE | base, recursive and final SELECT | `Transitive` |
| Queries with relations | `engine/validate.go`, `generator.go`, `relations.go`, `tree.go`, `engine.go` | BFS queue, row set, tree under construction | `Validate`, `generateWithRelations`, `scanFlatRows`, `AssembleTree`, `executeWithRelations` | `RelationQuery` |
| Pagination | `engine/generator.go`, `engine.go`, `tree.go` | a client's cursor or offset | `buildOrderBy`, `buildCursorFilter`, `executeFlat`, count | `Pagination` |
| Object filters | `engine/generator.go` | none; reads `objects`, `resource_types`, `clusters` | `buildRootClauses`, `buildObjectFilterWithRT` | `Filters`, `Matching` |
| References and selectors | `engine/relations.go`, `refs.go` | none; reads `objects` | `buildRelationJoin` and its eight joins | `Relations`, `Matching` |
| Projection | `engine/projection.go` | none | SQL text generation | not modelled |
| kcp discovery | `internal/sync/kcp.go` | none | `RunKCPDiscovery`, called from nowhere | not modelled |
| API server, metrics, API types | `internal/server`, `internal/metrics`, `apis` | none of interest | wiring | not modelled |

**How they interact.** The components of the write path share nothing but the
tables, and no transaction spans two statements. `Engage` writes the cluster row,
runs discovery, registers a cancel function and leaves two goroutines behind.
Informers push events through one queue per type to a handler that issues one
statement per event; a resource served in several versions has an informer for
each, and all of them write the same rows. The CRD watcher runs discovery again. The garbage collector
reads the clusters table and deletes. Queries are single SQL statements and see
the tables between two of those steps.

**What is hard.** The lock is released around every store call; the cancel
function is registered only after discovery; handlers use
`context.Background()` and outlive the run they belong to; discovery is a delete
followed by many inserts; the collector decides on rows it read earlier; failed
writes are logged and never retried; a restart empties every cache but not the
tables. On the read side: recursion over graphs with cycles, three independent
limits, a tree rebuilt from a text column, a row comparison that has to agree
with `ORDER BY`, and every clause written twice, for two databases that treat
NULL and JSON differently.

**What makes each component correct.** At most one run per cluster, and none on a
row that says stale. `resource_types` is what the last discovery of the live run
wrote, and converges to what is served. Rows converge to the API server's
version. Nothing of a collected cluster is left, and only expired clusters are
collected. A query returns what was asked for, below the right parent, and says
so when it was cut; a filter selects what its description says, on either
database. Pages neither repeat nor skip rows.

## 2. Modules and how they correspond to the code

### Write path

* **`Store`**: one operator per SQL statement, table to table. A table is a total
  function with a value for "no row". Columns no property tells apart are gone.
  Both upserts of a cluster end with `ttl` 3600 (the column default when
  `Disengage` leaves it zero), so the TTL is one constant. A type is a
  group-version-resource; the primary key of `resource_types` has no version, so
  the upsert of another version of the same `GroupResource` replaces the row.
* **`SyncController`**: an element of `Calls` is one call of `Engage` or
  `Disengage`; a call that engaged lives on as a *run* (its informers and CRD
  watcher). `pc` is the place in `Engage`, `Disengage` or `RunDiscovery`; every
  critical section and every store call is a step. `ctx` is the run's context.
  `RunDiscovery` (`Fetch`, `Clear`, `Populate`, `Discovered`) is shared by `Engage`
  and the CRD watcher; in a watcher its store calls fail once the context is
  cancelled. `window` is the set of runs within 30 s of `lastRefresh`. Any store or
  discovery request may fail (`Fault`), discovery may also answer in part.
  `ChangeCRD`, `Tick` and `Crash` are the environment.
* **`Lifecycle`** is the abstract specification of the controller: a cluster is down,
  engaging, starting, up or disengaging, and its row changes only with the phase. No
  map, no contexts, no discovery. `SyncController` maps to it by the calls under way
  and the live runs of a cluster (`Phase`), and the status column.
* **`Command`**: a process is started with one of several flags, a goroutine per cluster
  loads the kubeconfig, starts the cluster's runtime, waits for its cache, calls
  `Engage` and logs the outcome; the process may end at any point and be started again.
  The calls are those of an instance of `SyncController` *without* `Serialized`.
* **`EventSync`**: `upstream` is the API server, `cache` and `queue` are client-go's,
  modelled from how they are used: differences are observed, one handler per type
  takes events in order, a resync repeats cached objects, a missed deletion comes
  as a tombstone. Every served version of a resource has its own informer, cache and
  handler (`Informs`), and all write the row of the same key. `Handle` is `OnAdd`/`OnUpdate`/`OnDelete` with its one statement.
  `Drop` is what a cancelled listener does with the rest of its queue.
* **`GarbageCollector`**: `Collect` lists and applies the TTL test; three steps
  delete objects, types and the row; `GiveUp` is the `continue` of each error path.
* **`Kuery`** composes the three over the shared tables (`INSTANCE` with the same
  variable names): every action is an action of one component that leaves the
  variables of the others alone. Calls and passes overlap freely. The history variable
  `raced` collects the clusters for which a call was under way while a pass had them on its
  list; no action reads it.

### Read path

* **`Transitive`**: a row of the CTE is the chain of objects that led to it; the
  columns `path`, `depth` and `visited` are functions of it. The database takes rows from
  a frontier and adds their extensions; the final SELECT takes rows generation by
  generation until the LIMIT. The relation and the clusters of the objects are
  arbitrary. The order of the rows under LIMIT is that of the queue in which
  SQLite and PostgreSQL evaluate a recursive CTE; SQL does not promise it.
* **`RelationQuery`**: a relation block is the sequence of relation names leading
  to it. The BFS queues blocks, each block's SELECT joins from the roots through
  all its ancestors and applies only its own filters and limit, rows are read in
  text order of their path up to `MaxTotalRows`, and `AssembleTree` works with
  paths alone. A path is its sequence of `.`-separated segments; segments are
  numbers in text order, with the one case in which a `-` sorts before the `.`
  that ends a segment kept (`Hyphenated`). Which pairs a join accepts is an
  arbitrary relation (`Related`). A transitive block contributes chains of several
  objects, and the plain blocks right below it join from the recursive CTE; the CTE's
  evaluation itself is `Transitive`.
* **`Pagination`**: a page is one statement and its count another; before and after
  either the table changes. A client pages by cursor or by offset. The
  order's columns with tiebreakers, `ORDER BY` with a direction per column, and the
  cursor's row comparison with one operator are modelled separately, as they are
  in the code.
* **`Filters`**, **`Relations`**: pure operators. An `ObjectFilter` is the sequence of its
  criteria that are set; each has the truth value its SQL clause has, per dialect,
  with absent labels, JSON null columns and dotted keys treated as each database
  treats them. A clause the code writes once per database is written once per database:
  short names, categories, conditions, label keys, owners, selectors, and the paths of
  references, where SQLite has a subquery per shape of path (`SQLitePath`). Events, links
  and groups are the same expression in both and one operator here. The statements that a
  database rejects are predicates (`MayFail`, `JoinMayFail`).
* **`Matching`**: one request, root query or relation block, on one of the two databases,
  answered in one step at any point of a discovery refresh (`ClearTypes`,
  `InsertType`). Its properties compare the answer with a reference definition written
  from the comments of `types.go` (`Means`, `Meant`), with the other dialect, and
  with the opposite relation.

## 3. Runs

| Run | Result | What it shows |
|---|---|---|
| `controller` | pass | `TypeOK`, `OneLiveRun`, `LiveRunIsActive`, `DiscoveryIntact`, the refinement `ImplementsLifecycle`, and under fairness `TypesConverge` |
| `command` | pass | `EngagedIsSynced`, the refinement `CallsSerialized`, and under fairness `EveryClusterReported` |
| `events` | pass | `TypeOK`, `OnlyOthersRegress`, and under fairness `RowsConverge`, `OneRunDeletes` |
| `ghost_rows` | violation | `DeletesPropagate` fails across two runs |
| `write_path` | pass | `NoOrphanRows`, `PassTargetsExpired`, and under fairness `ExpiredCollected`, with all components |
| `gc_race` | violation | `DeletesOnlyExpired` fails when a cluster is engaged during a pass |
| `transitive` | pass | `SimplePaths`, `FindsAllReachable`, `LimitKeepsParents` |
| `relations` | pass | `AttachedToParent`, `OnlyWanted`, `NothingReadIsLost`, `CompleteUnlessFlagged` |
| `dotted_name` | violation | `NothingReadIsLost` fails for names with a dot |
| `matching` | pass | `OnlyMeant`, `AllMeant`, `DialectsAgree`, `Opposites`, `ReferencesTyped` |
| `pagination` | pass | `NoDuplicates`, `NothingSkipped`, `PagesInOrder`, `CountIsTotal` |
| `cursor_ties` | violation | `NothingSkipped` fails for objects of two clusters or kinds |

Every property of a passing run has a mutant, a plausible bug in the mapped code
(a `cancel()` forgotten, a `continue` forgotten, an inclusive comparison), under
which TLC finds it violated.

### Bounds, and why they are enough

* `controller`: one cluster (calls for different clusters share only the lock),
  two calls, one fault, one CRD change, one tick. Two calls are the shortest history
  with a run and a successor. The change comes after a run has refreshed for the CRD it
  started with, so its notification can fall inside the window and be dropped. Three
  types: a CRD's resource in two versions and one on the blacklist, none watchable,
  because nothing here reads what a run watches (`write_path` and `events` do). The safety properties and
  the refinement are also proved without these bounds, as are the safety properties of
  all runs below.
* `command`: one cluster, two kubeconfigs for it, two starts, one fault, one CRD
  change. Flags name the cluster twice with a blank entry between, once, not at all,
  and beside a malformed entry.
* `events`: two successive runs, one object, two served versions, three changes of
  the object (create, then update, delete, create again), one failing write.
  `ghost_rows` needs one served version and two changes.
* `write_path`: two calls, a TTL of two ticks, so that a cluster can be stale and not
  expired, and a clock that stops there, one fault, one CRD change, one object. Engage,
  Disengage and collection fit in it, and a row made anew by a Disengage during or after the pass.
  Calls are interchangeable and used in order (`CallsInOrder`). The CRD changes while the first
  run watches and before the clock ticks (`EarlyCRDs`): that is enough for a refresh to be
  under way at any later step. `gc_race` needs three calls (engage, disengage, engage
  again) and no CRDs.
* `transitive`: all 512 relations over three objects and all assignments to two
  clusters, depth two, LIMIT three: cycles through and beside the root, depth limit and
  LIMIT all bite. Non-root objects and clusters are symmetric.
* `relations`: five objects, two of them roots. One request has three plain blocks on
  two levels with filters on both and a limit on one; the other has `descendants+`
  with events below it, and the transitive variant `events+`, which there is not, is refused.
  Every subset of the pairs that may be related, a cycle
  among them; limits that default, cut and are refused, depths that default, cut and
  are refused, and a row limit of five, below the largest result.
* `pagination`: five rows that differ in name and namespace, pages of two, three
  insertions or deletions, default order and order by kind, cursor and offset.
* `matching`: ten objects of seven kinds in two clusters, with and without labels,
  conditions, owners, selectors, references, annotations, one of them unreadable, and two
  Secrets of the same name in two groups; nine resource types, some
  without short names or categories; every criterion alone, combinations in one and
  in two entries, cluster filters, and every relation with and without filters.

`CHECK_DEADLOCK FALSE` is in every configuration because the system may rest: no
call, no change, or a query that has been answered.

### Assumptions about the environment

* `Serialized`: calls for one cluster do not overlap. The controller does not enforce
  it: with the constant `FALSE`, `LiveRunIsActive` fails (below). The program's one
  caller grants it: `CallsSerialized` says that `Command`, which assumes nothing of the
  kind, implements `SyncController` with `Serialized`, because `parseKubeconfigs`
  returns a map and the goroutines of a process die with it.
* Clusters in `raced` are excepted by `NoOrphanRows` and `PassTargetsExpired`, and only
  they: Engage and Disengage do overlap passes in the model, as nothing in the code keeps
  them apart. What happens to such a cluster is `gc_race`.
* `Orderly` (run `pagination`, stated as an assumption of `MCPagination`): orders use
  fields of `ValidSortFields` and ascend, and namespace and name tell the objects apart. The code enforces neither
  the direction nor the identity; `cursor_ties` and the remark on `generator.go:834`
  below show what happens without. `CountIsTotal` does not need it.
* `MatchingAssumption`: what the API servers and the API grant the tables and requests.
  Label values and uids are not NULL, short names are lower case, informers run only for
  discovered types, so that an object has its type, and `Lower` is idempotent and
  tells the built-in reference kinds apart.
* `QueryAssumption`: objects are finitely many and a request is a tree: with a block it has the
  block above it. Which queries the properties of `relations` are about is said by predicates
  that `MCRelationQuery` asserts of its instance (`InstanceInScope`) and the theorems have
  as hypotheses where they need them. The code checks none of them:
  * `Undotted`: an object adds two segments to a path (`dotted_name` is the case without);
  * `Identified`: kind, namespace and name tell objects apart, as they do in one cluster
    (`tree.go:95` below);
  * `OneWay`: two relations of one block that lead to the same object are not continued
    from there (`tree.go:95` below);
  * `LimitsAtBottom`: only blocks with none below them have a limit (`generator.go:398`
    below);
  * `AllShallow`: below a transitive block are only plain ones, on one level
    (`generator.go:260-318` below).
* `Kuery!Tick`: the unit of the clock is of the order of a TTL (3600 s); a handler's
  store call ends after 10 s, so no event of a cancelled run survives a tick. Writes of
  such a handler within the tick are in the model.
* A failing write had no effect (a statement is atomic and its error means it was
  not applied).

### Fairness

Weak fairness only. `SyncController`: goroutines proceed and their requests return
(clients carry timeouts), and of queued CRD notifications, the end of the 30 s and the
5-minute resync something happens as long as something can (`Watch`). `Command`: the goroutines and the steps of `Engage` proceed;
nobody has to start or stop the process. `EventSync`: watches deliver, the 10-minute resync happens,
handlers return. `Kuery`: calls proceed, the collector's ticker fires, its
statements return. Nobody has to call `Engage`, change an object or crash, and
faults are finite in number. Crashes are not: `ExpiredCollected` says for itself that
the process stays up in the end.

### What the runs say about the code

The design holds up where calls are serialised: contexts make stale discoveries
harmless (`DiscoveryIntact`), resyncs repair lost and late writes of existing
objects (`RowsConverge`), the order objects, types, cluster makes a failed
collection repeatable (`NoOrphanRows`, `ExpiredCollected`). `AssembleTree` quietly
drops the surplus of nested SELECTs, which ignore the filters above them
(`OnlyWanted`), and the path order makes the row limit safe (`NothingReadIsLost`).
The log line "cluster engaged" can be relied on (`EngagedIsSynced`), which the status
column cannot: it says active also after an Engage that failed. The hand-written
pairs of clauses agree where neither database rejects the statement (`DialectsAgree`),
with the exceptions that property names.

The violation runs each contradict a sentence of the repository; `PROJECT.json`
quotes it under `findings`. Further disagreements came up while modelling and
are not runs of their own.

Write path:

* `controller.go:107`, `controller.go:127`: `Engage` registers its cancel function
  only after discovery, so a `Disengage` in between cancels nothing, marks the row
  stale and returns, and informers start that nobody stops (controller.go:120 "stops
  all informers and marks the cluster as stale", README.md:510). No caller in the
  program does this.
* `gc.go:62`: a cluster exactly at the end of its TTL is collected; design.md:375 and
  design.md:770 ask for `last_seen + ttl < now()`. `Expired` follows the code, and
  `PassTargetsExpired` and `DeletesOnlyExpired` grant it.
* `gc.go:72` is the run `gc_race`: `collect` tests status and TTL on rows it listed earlier
  and deletes unconditionally; a cluster engaged in between loses its rows while its
  informers run. The other direction is in the excepted clusters as well: a handler or a
  discovery of the new run may write after the cluster row is gone.
* `controller.go:188`, `controller.go:219`: `watchCRDs` may return early, and the run would
  never refresh again. Neither return is in the model: Engage has just made a client from the same
  configuration, and `AddEventHandler` is refused by a stopped informer only.
* `main.go:44`: `--sync-enabled` is never read. `main.go` never disengages, never
  starts the garbage collector and keeps no record of names: a cluster dropped from
  the flag stays active for ever (README.md:510-511).
* `discovery.go:104`, `handler.go:118`: with several served versions the `api_version`
  of a row and of its resource type is that of the last writer.
* `kcp.go:49`: the loop variable `s` hides the store, so `updateResourceTypeIdentity`
  (line 80) never stores an identity; the code has no caller.
* `controller.go:206`: a CRD notification within 30 s is dropped, and the resync
  has nothing to report once no CRD is left, so the deletion of the *last* CRD may
  never reach `resource_types` (README.md:502). `TypesConverge` therefore speaks of
  clusters that have a CRD.
* `handler.go:74`: no event updates `last_seen` (design.md:373, README.md:509).
* `gc.go:86`: the gauge `kuery_clusters_total` is only ever decremented
  (README.md:564).

Queries:

* `transitive.go:97`: `visited` starts without the root, so on a cycle the root is
  found below itself (transitive_test.go:141 says it should not). `SimplePaths` and
  `FindsAllReachable` speak of objects other than the root.
* `transitive.go:154`: `linked+` never leaves its cluster (README.md:295).
* `transitive.go:217`: a transitive relation with a filter refers to an alias that
  does not exist outside the CTE, and the statement fails (`Read` with `Filtered`).
* `tree.go:95`: the path has no cluster; of two roots with equal kind, namespace
  and name the later one takes over the children of both. The path has no relation
  either: an object reached from the same parent by two relations has one path, and the later
  of its two rows takes over what is below both. `relations` uses objects of one cluster
  (`Identified`) and relations that do not meet where the request goes on (`OneWay`), so
  `AttachedToParent` does not cover this; that
  the second is needed came up in the proof of `AttachedToParent`.
* `generator.go:398`: a relation's limit is per query, not per parent
  (types.go:245), and does not set `incomplete` (types.go:271); on a block with
  blocks below it, it cuts parents whose children are read and then dropped.
  `CompleteUnlessFlagged` excepts blocks with a limit, and `relations` limits a
  block at the bottom only.
* `generator.go:457`: with relations, roots come in path order, not in the order
  requested (design.md:672).
* `generator.go:834`: the cursor comparison has one operator for all columns while
  the tiebreakers are always ascending; a descending order repeats and skips rows.
  `pagination` uses ascending orders.
* `generator.go:150`: a cursor together with relations refers to the alias `obj`, which
  that statement does not have, so it fails.
* `generator.go:141`: `SELECT *` with the join of a cluster-label filter selects columns
  of both tables, some of the same name, into `root_objects`.
* `generator.go:260-318`: below a transitive block only plain blocks one level down are
  generated, without their limit and whatever the depth; deeper blocks and transitive
  ones are left out in silence. `Wanted` and `CompleteUnlessFlagged` say so.
* `tree.go:169`: from the second generation of a transitive relation on, the flags for
  id, cluster and mutablePath are not found and the fields stay empty.

Filters and relations:

* `generator.go:613` and `relations.go:218`: SQLite reads a label key with a dot as a
  path, and finds NULL: filters on such a key match nothing, and its `NotIn` and
  `DoesNotExist` match everything. `OnlyMeant`, `AllMeant` and `DialectsAgree` except these.
* `discovery.go:73`, `handler.go:100`: missing lists are stored as JSON null, for which
  PostgreSQL's `jsonb_array_elements` raises an error in kind, category and owner
  clauses; fixtures of the tests store `[]` (README.md:32 "PostgreSQL (prod)").
* `generator.go:613`, `generator.go:696`, `generator.go:718`: the key of a label criterion is
  written into the text of the statement as it is (in `relations.go:218` it comes from a
  selector and is concatenated by the database). In the model a key is data, so this says
  nothing of keys with a quote in them, which are no valid label keys and which `Validate`
  does not refuse.
* `relations.go:303`, `relations.go:319`: one object with an annotation
  `kuery.io/relates-to` that is no JSON makes every statement with a linked relation fail
  that reads it, on both databases (`JoinMayFail`).
* `generator.go:718`: the `?` of `labels ? 'key'` is a placeholder to gorm, and takes the
  argument of a later clause.
* `generator.go:736`: a jsonpath is a boolean predicate in PostgreSQL and a path in SQLite.
* `generator.go:688`: an `In` without values gets no clause and so accepts every object,
  while to a reader it accepts none; its entry takes the objects of its other criteria.
  `Complete`, the premise of `OnlyMeant` and `AllMeant`, excludes it. This came up in the proof of `OnlyMeant`.
* `generator.go:516`: an entry without clauses is dropped from the OR instead of matching
  everything; `generator.go:573`: an empty `apiGroup` cannot select the core group.
* `generator.go:340`: the filter entries of a relation are AND-ed, those of the root
  (types.go:76) OR-ed.
* `relations.go:137`: references use the built-in paths, never the registry, so the
  annotation `kuery.io/refs` (README.md:534) has no effect; the kind of the source is
  ignored, without a kind filter so is that of the target, cluster-scoped targets
  are never found from namespaced sources, and the target's kind is compared in its exact case (types.go:131).
  The group of the target (refs.go:13, design.md:645-649) plays no role either: a request for the
  kind Secret finds the objects of any group whose kind is Secret and whose name fits, and
  since an empty `apiGroup` is no criterion it cannot say that it wants the core one.
  `ReferencesTyped` excepts these rows, by name, and no others.
* `relations.go:201`: a Service, whose selector has no `matchLabels`, selects nothing, and
  `matchExpressions` are ignored; in PostgreSQL the empty selector passes over objects
  without labels.

## 4. Proofs

`SyncControllerProofs` proves, for every set of clusters, calls and types and all
bounds, from `ControllerAssumption` (a finite set of types, `None` not a cluster or
call, bounds in Nat):

* `TypeCorrect`: `Spec => []TypeOK`;
* `OneLiveRunCorrect`, `LiveRunIsActiveCorrect`, `DiscoveryIntactCorrect`: with
  `Serialized`, `Spec => []OneLiveRun`, `[]LiveRunIsActive`, `[]DiscoveryIntact`.

None of the three is inductive. A new run must not meet a live one when it
registers, and nothing at that step says so: the reason lies in the first critical
section, many steps earlier. The invariant `IInv` therefore speaks of *owners*, calls
on their way or live runs:
`CtxShape` (where a call can be before and after its context exists),
`MapHoldsLive` (the map holds live runs of the right cluster) and, when calls are
serialised, `LiveIsRegistered` (every live run is in the map, so the next call
finds and cancels it), `UniqueOwner` (one owner per cluster), `OwnerActive` and
`OwnerTypes` (from its own writes on, the row and the types are the owner's). The
proof has a lemma for the critical section, and one step per action.

It also proves `LifecycleImplemented`: with `Serialized`, `Spec =>
ImplementsLifecycle`. The refinement mapping looks at *some* call under way; that it is
a function of *the* call is `UniqueOwner` of `IInv` again (`PhaseShaped`). Each action
then either moves one cluster along the abstract life (`Entered`, `Moved`, `Opened`,
`Recorded`, `Failed`) or leaves every phase and status alone (`Unmoved`, `Stutter`).

`CommandProofs` proves, for every set of clusters, kubeconfigs and flags and any number
of starts, `EngagedIsSyncedCorrect` and `CallsSerializedCorrect`: `Spec =>
CallsSerialized`, where `Spec` makes no assumption about overlap. A step of `Command`
that opens a call must be shown to find no other call for the cluster under way. The
invariant follows main.go's argument: goroutines belong to the running process
(`ProcessShape`), a process has one per cluster because `parseKubeconfigs` returns a map
(`OnePerCluster`, lemma `ParsedIsMap`), and `Engage` is only where its goroutine is
(`JobShape`). The restriction `Serialized` adds to the controller's next-state relation is
then always met (`SerialStep`). `Serialized` in the theorems about `SyncController` is thus discharged for
this program. In `KueryProofs` it stays a hypothesis of one theorem, because
`Kuery` is not composed with `Command`.

`EventSyncProofs` proves `TypeCorrect` and the action property `OnlyOthersRegressCorrect`. A write
is made with the state of the object when its event was queued, so what the row holds
at that time has to be known: `QueueOrder` (a queue is in the order of versions and
no newer than its cache), `LateIsOld` (what a cancelled run still writes is no newer
than what its successor has seen) and `RowsFollow` (a row ahead of an event was put
there by another served version). `OneLive` and `Behind` carry these three.

`KueryProofs` proves `PassTargetsExpiredCorrect` for any overlap of calls and passes, and
with `Serialized` also `NoOrphanRowsCorrect`. Both are about clusters outside `raced`.
The first needs `PassAlone`: no call is under way for a cluster of the list, so that
its row is the one that was listed; time only makes it older. `NoOrphanRows` fails if
anyone may still write for a cluster whose row is about to go: the call or run that owns the
cluster is excluded by `OwnerActive` and `PassAlone`, since its row would be active; a cancelled run with events in its
queues (`Late`) by `LateIsFresh`, its cluster was marked stale since the last tick and is not
expired; and what the first two deletes removed stays removed (`Emptied`).

`TransitiveProofs` proves, for every set of objects, relation, assignment to
clusters, depth and LIMIT: `SimplePathsCorrect`, `LimitKeepsParentsCorrect` and
`FindsAllReachableCorrect`. The
second needs `PrefixClosed` (a row's parent is a row), `GenerationOrder` (rows are
read only after all shorter ones) and `ReadLater` (nothing is read before the CTE
is complete). The third is an equality of sets without the root. Every row's end is within its length of the
root (`FoundIsWithin`, over the row's prefixes, `AllPrefixes`). Conversely every object within `d` steps is
the end of some row of at most `d` steps (`WithinIsFound`, by induction on `d`), by
`Closed`: the extensions of a row that left the frontier are rows; an object the cycle
check refuses is on the row already, and then a prefix of the row ends in it.

`PaginationProofs` proves, for every finite set of rows, every limit and number of changes,
`CountIsTotalCorrect`, and with `Orderly` also `NoDuplicatesCorrect`, `PagesInOrderCorrect` and
`NothingSkippedCorrect`. First come lemmas on the order: the cursor's comparison and `ORDER BY`
are one relation when all columns ascend (`OneOrder`, `CursorOrder`), and it is a strict total order
because the tiebreakers identify a row (`TotalOrder`). The rank of a row counts
the rows before it and orders rows (`RankCounts`, `RankOrder`), and a page is the rows of consecutive ranks
(`PageRanks`). Then `ByCursor` says that what was there all the time is either returned or
still after the cursor, however the table changes, and `ByOffset` that the k-th row
returned has rank k - 1 while the table rests.

`MatchingProofs` proves `OppositesCorrect`, `ReferencesTypedCorrect`, `OnlyMeantCorrect`,
`AllMeantCorrect` and `DialectsAgreeCorrect` for any tables and requests that meet
`MatchingAssumption`. The invariant is small (an answer is the result of the query on the
types as they are, and clusters at rest have all their types); the work is in lemmas about the clauses:
the clauses of the two databases for short names and categories, conditions, label keys and owners come down to the same condition
(`SameElement`, `KindClause`, `ConditionClause`, `SameKey`, `SameLabels`), for which values that are NULL and columns that are null have
to be told from absent ones, and SQLite's subqueries read the fields PostgreSQL's paths name (`PathTable`); each criterion is true exactly when `Means` says (`HoldsMeans`), on both databases alike
(`HoldsAgree`), and so is their AND and OR (`OrGroups`, `FilterMeans`), and the joins of
the two dialects and of opposite relations agree (`JoinsAgree`, `OppositeJoins`).

`RelationQueryProofs` proves, for every finite set of objects, every relation between them, every
set of requests and all limits that meet `QueryAssumption`:

* `OnlyWantedCorrect`: `Spec => []OnlyWanted`, for all requests and all names. A row counts as
  returned when it and all its ancestors are in the tree; that these are the nodes it
  hangs below is the third theorem, under its hypotheses;
* `NothingReadIsLostCorrect`: with `Undotted /\ LimitsAtBottom`, `Spec => []NothingReadIsLost`;
* `AttachedToParentCorrect`: with `Undotted /\ Identified /\ OneWay`, `Spec =>
  []AttachedToParent`;
* `CompleteUnlessFlaggedCorrect`: with `Undotted /\ LimitsAtBottom /\ AllShallow`, `Spec =>
  []CompleteUnlessFlagged`.

The four share one invariant, along the stages of a query, because what the response lacks is
decided stages earlier: `QueueInv` (a block the generator is to have a SELECT for has one, or
is reached from the queue), `RowsInv` (the rows of a SELECT that was evaluated are there, but for those a
LIMIT left out, and a LIMIT keeps the shortest), `ScanInv` (a row is read after all
rows whose path is a prefix of its own) and `TreeInv` (every path AssembleTree has met has a node,
and a row whose parent path it has met is in the tree). The rest are lemmas about rows and
paths. The ancestors of a row are rows of the blocks passed on the way to it (`Places`,
`AncestorChain`), also through a transitive block, where rows of one block differ in length. A path
has two segments per object, so `parentPathOf` of a row's path is the path of its parent
(`FlattenPairs`, `AncestorPath`). So a row that was read and is wanted was preceded by its ancestors
(`AncestorFetched`, `ReadAttached`): nothing is lost at `MaxTotalRows`. A response
without the flag has all roots (`RootCount`), hence all rows. That the node found under the parent's
path *is* the parent takes more: equal paths have equal objects by `Identified`, and
equal blocks by `OneWay` (`PathsDiffer`, `SameBlocks`).

**Induction.** The provers cannot instantiate the library's induction theorems, which take an
operator. Where induction over numbers is needed, the proofs take the least element of a
*set* of numbers, which `WFMin` of `WellFoundedInduction` provides (`LeastNumber`,
`NumberInduction`). A recursive function of `Transitive` is unfolded in this way
(`UnfoldsExists`, `WithinUnfolds`), and so is the one in the library's `FlattenSeq`
(`FlattenPairs`).

**Only model-checked.** Everything under fairness: `TypesConverge`, `RowsConverge`,
`OneRunDeletes`, `ExpiredCollected` and `EveryClusterReported`, because the prover has no
rules for fairness. Every invariant, every action property and both refinements that the passing runs
check are also theorems.

## 5. Not modelled

* Projection: a translation of a JSON skeleton to SQL text, without state.
* Cursors by creation time; cursors, `OFFSET` and count together with relations (the first
  produce a statement that fails, see above).
* The checks of order fields, direction and page in `Validate` (validate.go:47-62): they
  read nothing but the request and refuse it. `Pagination` starts from requests that passed.
* The returns of a handler for an event that is no object or cannot be made a row: to
  the row, they are a failed write.
* The reference registry beyond the built-in paths, and kcp discovery: no caller.
* API server wiring, metrics, API types: no state or decision of their own.

## 6. Plan

Done: `Store`, `SyncController` with versions, `Lifecycle` and the refinement,
`EventSync`, `GarbageCollector`, `Kuery`, `Command`, `Transitive`, `RelationQuery`
with transitive blocks, `Filters`, `Relations`, `Matching`, `Pagination` with offset
and count, and the proofs above, which state every safety property of the passing runs.
What is left:

* **`Kuery` with `Command`**: the hypothesis `Serialized` of `KueryProofs` discharged
  as it is for `SyncController`.
