# TLA+ specifications of the data platform operator

The operator watches a cluster-scoped `DataPlatform` object and keeps an Iceberg
catalog (LakeKeeper), its Postgres and object store, an identity provider
(Keycloak), authorization (OpenFGA, OPA), a query engine (Trino), dashboards
(Superset) and demo tables in step with its spec. This directory holds TLA+
models of the operator's control logic, TLC configurations that check them on
small instances and TLAPS proofs for all instances.

## Inventory

| Part | State | Operations | What makes it correct |
|---|---|---|---|
| Reconcile pass (`dataplatform_controller.go`) | the in-memory object, the results `progressing`, `storeReady`, `authReady`, `fgaReady`, the OIDC and OpenFGA configs | `Reconcile`, `reconcile`, the three stacks, requeue | Ready vouches for one generation; nothing waits for itself; no lost wake-up |
| Status (`apply.go`) | ten conditions with status and observed generation | `setCondition`, `conditionTrue`, `patchStatus` | a stored claim is true whatever stale copy it was computed from |
| Handlers (`postgres.go`, `minio.go`, `oidc.go`, `keycloak.go`, `openfga.go`, `lakekeeper.go`, `opa.go`, `trino.go`, `superset.go`) | the workloads and their configuration | apply, poll readiness, return a config | gates between them; no partial configuration reaches a consumer |
| Warehouse and catalog client (`warehouse.go`, `catalog.go`) | LakeKeeper's warehouse, roles, grants | bootstrap, grants, warehouse, roles | idempotent under retries and lost answers |
| Access store and groups (`authzstore.go`, `access.go`) | OpenFGA store, model and tuples; Keycloak groups | find or create, write tuples, sync members | one store of a name, a model that fits the spec, members get role and tuple |
| Objects (`apply.go`, `namespace.go`) | Secrets, Services, ConfigMaps, namespaces and their owner | `apply`, `ensureGeneratedSecret`, `ensureNamespace` | generated passwords never change; one owner |
| Jobs (`minio.go`, `sampledata.go`) | bucket Job, seed Job | create, poll, delete when failed or outdated | the Job that succeeded is the one the spec asks for |
| API types (`dataplatform_types.go`, `defaults.go`) | spec and defaults | `IsEnabled`, `IsEmbedded`, ... | |

The parts interact in three ways. Within a pass, handlers run one after another
and hand on configs and conditions. Between passes, only the stored status and
the cluster's objects survive. From outside, watch events (of the DataPlatform
and of every owned object) and requeues start the next pass. What is hard about
it: the object a pass works on comes from a cache that lags; the user edits the
spec in mid-pass; any API call can fail after earlier ones took effect; the
operator can stop anywhere; conditions outlive the generation they were set
for; and a Ready platform is mostly not polled. `PROJECT.json` lists these
hazards at their lines.

## Modules

| Module | What it is | Instances |
|---|---|---|
| `Reconciler` | one DataPlatform, its worker, API server, cache, queue and workloads: every step of a pass | `MCReconciler` |
| `AuthzStore` | the OpenFGA store behind row filters and column masks, found or created over unreliable calls | `MCAuthzStore` |
| `SeedJob` | the one-shot Jobs that seed the demo tables and make the bucket, and what their containers do | `MCSeedJob` |
| `CatalogSync` | the calls of one warehouse pass to LakeKeeper, Keycloak and OpenFGA: bootstrap, grants, warehouse, roles, members, tuples | `MCCatalogSync` |
| `Credentials` | generated Secrets, object ownership, and the way of the identity secrets into Keycloak's and OPA's pods, with one or two platforms | `MCCredentials` |
| `WriteOnce` | the abstract specification that `Credentials` implements for the realm's signing key | |
| `TrinoRollout` | how a change of `spec.trino` reaches the running coordinator | `MCTrinoRollout` |
| `Reconciler_proofs`, `AuthzStore_proofs`, `SeedJob_proofs`, `CatalogSync_proofs`, `Credentials_proofs`, `TrinoRollout_proofs` | inductive invariants and TLAPS proofs, one module for each component | |

`Reconciler` composes the handlers: each is one action that succeeds or fails.
The other modules look inside one handler each, at the calls it makes one by
one and at what happens between them:

| Module | Step of `Reconciler` |
|---|---|
| `AuthzStore` | `reconcileAccessStore` within `ReconcileOpenFGA` |
| `SeedJob` | the Jobs of `ReconcileMinio` and `ReconcileSampleData` |
| `CatalogSync` | `ReconcileWarehouse` |
| `Credentials` | `ReconcileKeycloak` and `ReconcileOPA` |
| `TrinoRollout` | `ReconcileTrino` |

### Reconciler: state

| Variable | Code |
|---|---|
| `specs` | the spec of every generation; the last is `metadata.generation` |
| `status` | `status.conditions` in the API server, with `observedGeneration` |
| `cache` | the informer's copy of the DataPlatform, read by `r.Get` |
| `objects` | which workloads were applied; for LakeKeeper, OPA and Trino also with which OIDC and OpenFGA config |
| `up` | workloads with `ReadyReplicas >= 1` and Jobs that succeeded, as the informer shows them |
| `warehouse` | the warehouse exists in LakeKeeper |
| `queued` | the key is in the work queue (a set, so one bit) |
| `pc`, `dp`, `local` | the running pass: next handler, in-memory object, local results |
| `faults` | faults spent |

### Reconciler: actions

A pass starts with `StartPass`; `SkipLakekeeperStack`, `ReconcilePostgres` or
`ExternalPostgres`, `ReconcileMinio` or `ExternalObjectStore`,
`ReconcileKeycloak` or `ReconcileAuth`, `ReconcileOpenFGA` or `ReconcileAuthz`,
`ReconcileLakekeeper`, `ReconcileWarehouse`, `SkipTrinoStack` or `ReconcileOPA`
and `ReconcileTrino`, `ReconcileSuperset`, `ReconcileSampleData` and `Conclude`
are the handlers in the order of the code; `PatchStatus` ends it. A handler is
one action: the cluster may change between handlers, and a handler that reads
the readiness of several workloads reads them at one moment.

`FailStep` is any API call of a handler failing, with `FailureModes` saying
which workloads were applied before it and which condition the handler marks;
`FailWarehouse` a failing catalog call, before or after the warehouse exists;
`FailPatch` a failing status write; `Crash` the operator stopping in mid-pass.
`EditSpec`, `SyncCache`, `Rise` and `Fall` are the user, the informer and the
cluster.

The status write is refused exactly when the cache is behind at that moment:
`patchStatus` reads the object again from the cache and sends its resource
version. It does not compare with the version the pass started from, so a pass
may overwrite conditions it never saw; the model includes that.

Left out of the data: names, images, sizes, endpoints, reasons and messages;
Secrets, Services and ConfigMaps next to a workload; the number of replicas;
the delay of a requeue (a requeued key is in the queue at once); the
configuration of Superset. A Job that fails and is replaced is one that has not
succeeded yet. An external Secret that is missing stays missing within a
generation.

### AuthzStore: state and actions

| Variable | Code |
|---|---|
| `want` | `spec.authz` as type and relation pairs; `{}` when there are no policies or Trino is off |
| `name`, `edits` | `spec.authz.openfga.rowFilterStore`, which a user may edit, too |
| `stores` | OpenFGA's stores in id order, deleted ones included, each with its append-only models |
| `pc`, `req`, `reqName`, `seen`, `id` | the running `EnsureAuthzStore`: its next call, its request, the name it looks for, the continuation token, `rowFilterStoreID` |
| `given` | the store id in OPA's pod template (`opa.go:112`); none while OpenFGA is not ready |
| `last` | history: the store OPA was last given under each name |
| `late`, `delayed` | calls the operator gave up that may still take effect |
| `faults` | faults spent |

`Begin`, `ListPage`, `CreateStore`, `CheckModel` and `WriteModel` are the calls
of `EnsureAuthzStore` in order, one action for each HTTP call; `ApplyOPA` hands
the store on to OPA, and `NotReady` is a pass that finds OpenFGA down and hands
on none. `Fail` is a call
that fails without effect, and also a restart of the operator; `LoseAnswer` a
call that took effect and whose answer is lost; `GiveUp` the client's timeout on
a call that takes effect later, in `Arrive`, or never. `EditSpec` and
`DeleteStore` are the user and an administrator. Listing pages by position is
how OpenFGA, external to this repository, is taken to behave: ids are ordered
by creation. A model is abstracted to what `authzModelShape` keeps of it.
Policies whose type is `user` or `group` are left out; the API accepts them but
the resulting model defines a type twice.

### SeedJob: state and actions

| Variable | Code |
|---|---|
| `kind` | which Job: the seed Job (`ensureSampleDataJob`) or the bucket Job (`ensureMinioBucket`); never changes |
| `want`, `edits` | `sampleData.schema` or `minio.bucket` of the spec |
| `cm` | the ConfigMap with the SQL |
| `job`, `cached`, `events` | the Job on the API server, in the informer's cache, and the changes between them |
| `pods` | running pods: the Job they belong to, the schema they mounted, the statement they are at |
| `rows` | how often each table was filled |
| `adrift`, `left` | `INSERT`s that run on in Trino without their container, and all there have been |
| `pc`, `req`, `ready` | the running handler, its target, and the target the condition names |
| `faults`, `manual`, `made` | faults spent, whether a Job was deleted by hand, Jobs created |

`Begin`, `Examine`, `DeleteJob` and `CreateJob` are the handler with the cluster
moving between its calls; `Examine` tests success before failure and hash, as the
code does. `StartPod`, `RunStatement`, `Commit`, `RestartPod`, `FinishPod` are
the container with its shell script and the statements of `sampleDataSQL`, of which
the `INSERT ... WHERE NOT EXISTS` are kept. A statement reads its table when it
starts and commits later. Nobody cancels a query: when a container ends in
mid-`INSERT` (`RestartPod`, `FailJob`, `RemoveJob`), `Abandon` leaves the query
to Trino, and `EndQuery` commits it, or not, at any later time, also after the
next container has found the table empty. A container that lost the answer of a
query starts again after that query ended. `MaxLag` bounds how many
versions the cache is behind; it makes writers wait, so it is no lossy queue.

### CatalogSync: state and actions

`todo` is what is left of the running pass, one element for each kind of HTTP
call and each principal or group, with the relations or members it still has to
be made for. A role that was found or made (`UseRole`) is followed by the step
of its grants and the step of its members, as in the loop of
`EnsureAccessRoles`. `owner`, `grants`, `warehouses`,
`roles`, `roleGrants` and `assigned` are LakeKeeper, `members` Keycloak, `store`
and `tuples` OpenFGA; `req`, `fga`, `read` and `roleID` are what the pass has
learned; `ready` and `vouched` are WarehouseReady and the members it stands for.
`roleGrants` hold rights: a relation on one warehouse for those that
`grantRoleAccess` gives by warehouse id, without a warehouse for those on the
project (`Right`).

`Begin`, `Bootstrap`, `EnsureGrants`, `EnsureWarehouse`, `ReadMembers`,
`PlanAccess`, `FindRole`, `CreateRole`, `GrantRoleAccess`, `AssignMember`,
`WriteTuple` and `Finish` are the calls in the order of the code, and `EndLoop`
leaves a loop that has nothing left to do. `WarehouseConflict` is a warehouse
that LakeKeeper refuses as there already without listing it, which the client
takes for success. The names in `defaultAccessGroups`
are distinct, which `CatalogConstants` says. `Refused` is
an answer that is neither success nor "already done", `Fail` a call without
effect or a restart, `LoseAnswer` a call with an effect whose answer is lost.
`Join`, `Leave`, `RecreateKeycloak` (its database is an emptyDir and only what
the realm import brings survives), `DeleteRole`, `ReplaceStore`, `OtherRole`,
`BootstrapByUser` and `EditWarehouse` are everybody else. Nothing is remembered
between passes, so nothing about progress is part of the state when `todo` is
empty. The upsert of a user that precedes a grant is part of the grant, since
nothing reads it back.

### Credentials: state and actions

`view[o]` is the sequence of versions of object `o` from the one the cache shows
to the one the API server holds. Reading takes the first; creating is refused
when the last exists; updating is refused unless the two are the same. `pods`
hold the template they were made from and what they loaded when they started.
`Create`, `Update` and `Apply` are the calls of `apply.go`;
`EnsureNamespace` to `ApplyOPADeployment` are the Keycloak handler and the OPA
handler, one action for each object (the readiness of Keycloak decides AuthReady
only, and the pass goes on to OPA either way); `StartPod`, `LoadPod`, `RetirePod`, `LosePod` the
cluster; `DeleteSecret` an administrator. One worker serves all platforms in
turn. `Init` has an empty cluster or what an operator without signing key and
OPA client left.

The secrets are numbered as they are stored. Field `trino` stands also for the
operator's own client secret, which is never added to an older Secret, and `opa`
for Superset's, which is. `ensureGeneratedSecret` and `apply` read an object
twice with the same result here; readiness is read without lag; OpenFGA's
namespace is there from the start. The instances keep the namespaces of
Keycloak and of OpenFGA apart (see "Limits").

`WriteOnce` says what a generated secret promises to whoever holds it: it gets a value
once and keeps it, and nobody uses another one. `KeyIsWriteOnce` is the
refinement, with the stored signing key of each namespace as `value` and the
keys that ready Keycloak pods signed in with as `inUse`.

### TrinoRollout: state and actions

`want` is the spec, with its configuration as a number and its workers as 0 or
1. `secrets` and `deploys` are versions from cached to stored, one sequence for
each informer, so the two caches lag independently. `pods` are the
coordinator's, with template hash and loaded Secrets. `order` is the order in
which Go iterates over `extraCatalogs` in this pass. `ApplyConfig` covers the
three applies of the handler in their order, `ReconcileWorkers` the worker Deployment or its
deletion, `Check` `deploymentReady`. The shared secret of OAuth, file-based
access control and properties are all part of the numbered configuration; the
removal of a ConfigMap that older versions made and the Service are left out.
An update is refused as stale when the Deployment has changed since the cached
version, its status included.
Keycloak (`keycloak.go:410`) and Superset (`superset.go:339`) are rolled in the
same way; only Trino's rollout is modelled.

## Runs

| Run | Instance | Checks | Result |
|---|---|---|---|
| `platform` | `Reconciler`: twelve shapes of spec, four of them rejected, edits between three of them, 1 fault | `TypeOK`, `ReadyConsistent`, `WarehouseTruth`, `OPABeforeTrino`, `LakekeeperComplete`, `OutageReported`, `Converges` | holds, 0.8 million states |
| `store` | `AuthzStore`: pages of 1, 2 names, 2 edits, 2 faults, 1 late call | `TypeOK`, `OneStore`, `GivenUsable`, `NoChurn`, `StoreKept`, `Settles` | holds, 1.1 million |
| `jobs` | `SeedJob`: both Jobs, 2 targets, 2 faults, or 1 edit and 1 fault, lag 3 | `TypeOK`, `ReadyAfterWork`, `SeededOnce`, `DeletesOnlyUnwanted`, `Settles` | holds, 0.4 million |
| `sync` | `CatalogSync`: 2 warehouses, 2 principals, 2 groups, 3 users of whom one is a service account, pages of 2 roles and 2 members, any two disturbances, or a move, a fault and a loss | `TypeOK`, `OnlyMembersGranted`, `RolesNotMixed`, `ReadyComplete`, `Converges` | holds, 0.2 million |
| `tenants` | `Credentials`: two platforms at one Keycloak namespace, 2 faults | `TypeOK`, `OneOwner`, `OwnerWrites`, `KeyIsWriteOnce` | holds, 0.2 million |
| `secrets` | `Credentials`: one platform, 2 faults or 1 deleted Secret | `KeycloakConverges`, `OPAConverges` | holds, 0.3 million |
| `rollout` | `TrinoRollout`: 1 edit and 1 fault, or 2 edits | `TypeOK`, `PodsNotStale`, `ReadyAfterPod`, `RollsForward`, `Converges` | holds, 0.4 million |
| `fail_closed` | `Reconciler`: embedded Keycloak and OpenFGA, 1 fault | `TrinoStaysGuarded` | violated |
| `opa_outage` | the same, no fault | `OPAOutageReported` | violated |
| `seed_early` | `Reconciler`: Trino alone, then with LakeKeeper and sample data | `SeedAfterWarehouse` | violated |
| `seed_renamed` | `SeedJob`: the seed Job, 1 edit | `ReadyMeansMade` | violated |
| `rollout_orders` | `TrinoRollout`: two extra catalogs, no edit, no fault | `Converges` | violated |

### Bounds

In `jobs`, `sync`, `secrets` and `rollout` a scenario (an operator `Scenario` of the MC module, named as an
ACTION_CONSTRAINT) says which disturbances the run combines. It only ever
forbids edits, faults and the like, none of which has fairness, so it removes
behaviours with more disturbances and no others, and liveness is checked
on whole behaviours.

- `Reconciler`: `MaxGeneration` is 2, since a stale copy is stale by one
  generation, and the proofs cover more. The specs are chosen so that every
  branch of every handler runs; embedded services that only repeat a pattern
  already in a spec are made external. The constant `Edits` says which spec may
  be edited into which: the longest chains of gates are not combined with
  edits, and they come up one at a time (embedded identity and authorization in
  one spec, stateful services in another, demo tables in a third).
- `AuthzStore`: two names and two edits allow a rename and its reverse; a page holds one store and LakeKeeper's own store comes first,
  so every search turns a page; a late call can be a create or a model write.
- `SeedJob`: two targets allow an edit while a Job runs; two faults a container
  that ends in mid-`INSERT` and a failed Job, a lost answer or a failing delete
  after it.
- `CatalogSync`: the two warehouse names are interchangeable, so the run starts
  with one of them (`DefaultSpec`); a page holds the operator's two roles and
  no more, so a role of others can push one of them off it and `CreateRole` is
  told that a role exists which it does not see; a group of two members and a
  service account, which is listed first, overflows the page of members.
- `Credentials`: with two platforms at one namespace each can win the race for
  each object; two faults split the race twice.
- `TrinoRollout`: two edits put three configurations in flight between caches,
  Secrets, Deployments and pods. Passing runs have at most one extra catalog
  (`Orders = 1`). Workers above 0 are all alike to the handler.

Deadlock is not checked in the runs of `Reconciler`: a Ready platform without
embedded auth that nobody touches really is at rest. In the other modules
passes go on for ever.

### The five violations

They are disagreements between the code and what is said of it:

- `fail_closed`. While OpenFGA's Postgres has no ready replica,
  `reconcileOpenFGA` returns a config without `opaURL`, `reconcileTrino` takes
  that for "no access control" and rolls the coordinator without it. The
  README says the access features fail closed if OpenFGA becomes unreachable.
- `opa_outage`. The readiness of OPA is computed and discarded; Ready is said to
  mean that every enabled component is ready.
- `seed_early`. The gate of the seed Job accepts the `WarehouseReady=True` that
  was set while LakeKeeper was disabled.
- `seed_renamed`. After an edit of the schema the succeeded Job of the old one
  makes SampleDataReady True for a schema in which nobody made a table; the API
  documents it as "True when demo Iceberg tables are seeded". The bucket Job
  does the same.
- `rollout_orders`. The hash of the catalogs follows the iteration order of a
  Go map; with two extra catalogs an unchanged spec keeps replacing the coordinator.

### Limits

Some properties hold only up to a point, which their statement names. Beyond it
the code does what follows; the models contain these behaviours, some of them
only with other constants than the runs use:

- A changed schema or bucket is never seeded or made once a Job of the name has
  succeeded (`sampledata.go:116`, `minio.go:320`), and the condition is True for
  it all the same: that is the run `seed_renamed`. `ReadyAfterWork` and `Settles`
  promise the named target while the spec is unedited.
- An `INSERT` whose container ended commits beside the one of the next container
  (`sampledata.go:322-343`), so rows can come once more for each of them;
  `SeededOnce` counts them in `left`. The pod of a Job that was deleted for an
  edit or by hand may live on and fill a table beside its successor
  (`sampledata.go:120`). `SeededOnce` holds until then.
- Users who leave a group keep role and tuple (`access.go:105`), although
  `dataplatform_types.go:181` speaks of membership that is synced. `Converges` of
  `CatalogSync` is about members, and says nothing of those who left. Members
  beyond the first 500 (`access.go:194`) are not seen either.
- A role beyond the first page (`catalog.go:342`) is not found and cannot be
  created again, so every pass fails; `Converges` has WarehouseReady not True
  then.
- OpenFGA in Keycloak's namespace: OPA's copy replaces the Secret with all
  client secrets (`opa.go:61`). OPA's pod is not replaced when its Secret
  changes (`opa.go:225`): after the client secrets were deleted and generated
  again, OPA's Secret follows, but a pod that runs keeps the dead one.
  `OPAConverges` promises the Secret always and the pods while nothing was deleted.
- The signing-key and client Secrets and the namespace that two platforms name
  together may belong to either of them and are used by both without a question;
  `OneOwner` is about the realm and Keycloak.
- An edit that brings no new configuration, because it takes an earlier one up
  again or only changes the workers, may leave a pod that loaded the Secrets in
  between, with a hash that fits (`trino.go:60`). `PodsNotStale`, `RollsForward`
  and the last part of `Converges` hold until then.
- A rename of `rowFilterStore` (`openfga.go:153`) leaves the old store and its
  tuples behind and makes another one; `OneStore` and `StoreKept` are about the
  stores of one name. Find and create are two calls, so a create that was given
  up can take effect beside its retry. `OneStore`, `StoreKept` and `NoChurn`
  hold until the first call that takes effect late; `Settles` shows that even
  then a single store ends up in use whose model fits. Tuples an
  administrator wrote to the other store are not carried over.
- `LakekeeperComplete` tests OpenFGA's half of the gate: the config of an
  embedded Keycloak is complete before Keycloak is ready, so the other half
  only delays LakeKeeper.

### Fairness

- `Reconciler`: `OperatorFairness` is weak fairness of the worker
  (controller-runtime hands out every queued key and a pass runs on) and of the
  informer. `Converges` has the premise `WorkloadFairness`, that a deployed
  workload eventually becomes ready: it speaks of a healthy cluster.
  `OutageReported` does without it.
- `AuthzStore`: weak fairness of the operator's next call, since the requeue of
  embedded auth (`requeueAccessSync`, `dataplatform_controller.go:113`) brings
  pass after pass, and of `Arrive`, since the connection of a late call does not
  live for ever. `Settles` is therefore about platforms with embedded auth; with
  an external provider a Ready platform is not polled, and a store deleted
  by hand stays deleted until the next edit or watch event.
- `CatalogSync`: weak fairness of the pass for the same reason; members are
  only read with embedded auth.
- `SeedJob`: weak fairness of the handler (a condition that is not True is
  requeued, and Jobs are owned and watched), of the informer, of pods that can
  take a step and of the garbage collector.
- `Credentials`: strong fairness of `Begin(p)`, since the work queue is first
  in, first out, so no platform is passed over for ever; weak fairness of the
  rest of the pass, informers and the Deployment controller.
- `TrinoRollout`: weak fairness of passes, which the events of owned objects
  and the timers bring, of both informers and of the Deployment controller.

Faults, edits and other people have no fairness and are bounded, so "once
faults stop" is every behaviour.

### Mutants

The operators marked `Mutant` in the modules are plausible bugs. Each replaces
the definition after it in one run and makes TLC report the property the
mutants list in `PROJECT.json` names.

## Proofs

`Reconciler_proofs` proves, for every set of specs and all bounds:

| Theorem | Statement |
|---|---|
| `TypeCorrect` | `Spec => []TypeOK` |
| `InvCorrect` | `Spec => []Inv` |
| `ReadyCorrect` | `Spec => []ReadyConsistent` |
| `WarehouseCorrect` | `Spec => []WarehouseTruth` |
| `GuardCorrect` | `Spec => []OPABeforeTrino` |
| `LakekeeperCorrect` | `Spec => LakekeeperComplete` |

They assume only `SpecsAssumption` (a non-empty set of well-formed specs) and
`BoundsAssumption` (natural bounds). None of the properties is inductive, since
each speaks of what is stored while the pass that stores it works on its own
copy. `Inv` adds

- `PassInv`: at each step, which conditions the pass has already claimed for its
  generation if its local results say "ready", up to `Vouched(dp.cond)` just
  before the status write. `AbortPass` shows that an error path claims nothing.
- `ConfigInv`: which config the pass carries, by step, and that a pass that
  carries both configs has applied OPA when it reaches Trino.
- `ClaimInv`: `WarehouseTruth` of all three copies of the conditions (API
  server, cache, pass). A stale copy stays true because the warehouse is never
  removed.
- `GenInv`: no condition names a generation that does not exist yet. Without it
  an edit could make an old claim speak of the new spec.

`ConditionSteps` and `ObjectSteps` summarise how any step can change the three
copies and the workloads, so that the preservation lemmas argue about five kinds
of step instead of thirty actions.

`AuthzStore_proofs` proves, for every set of policies and of names, page size and bound:

| Theorem | Statement |
|---|---|
| `StoreTypeCorrect` | `Spec => []TypeOK` |
| `GivenCorrect` | `Spec => []GivenUsable` |
| `OneStoreCorrect` | `Spec => []OneStore` |
| `StoreKeptCorrect` | `Spec => StoreKept` |
| `NoChurnCorrect` | `Spec => []NoChurn` |

They assume `PoliciesAssumption`, `NamesAssumption` and the bounds only.
`GivenUsable` is inductive with `OwnStore` (past the search, the run works on a
store of the name it looks for, and what it hands to OPA has a model), because
stores only grow (`Grown`). `OneStore` needs `Searched`: what the
pages read so far said is still true when the store is created, which holds
because only this run creates stores until a call takes effect late.
`StoreKept` needs both and `Held`: the store that the run found was the one OPA
was given last under that name, or that one is deleted, and this stays true until OPA
is given it. `NoChurn` needs that a run which is about to write found
a latest model of another shape (`Lean`), which again holds while only this run writes.

`SeedJob_proofs` proves, for both Jobs, every set of targets and all bounds, of
which one is the lag of the cache:

| Theorem | Statement |
|---|---|
| `TypesHold` | `Spec => []TypeOK` |
| `ReadyStandsOnWork` | `Spec => []ReadyAfterWork` |
| `OnlyUnwantedDeleted` | `Spec => DeletesOnlyUnwanted` |
| `RowsInsertedOnce` | `Spec => []SeededOnce` |

The handler decides on a cached Job, so each property needs the versions of the
Job between cache and API server.

- `WorkInv`: every version that anybody knows or will get to know (`Known`) and
  that succeeded stands for filled tables (`Worked`), since a container has run
  all statements before the one it is at (`Ran`) and, before the first edit,
  everything is about one target (`OneTarget`).
- `HistoryInv`: a Job has one pod and none once it has ended (`Owned`), and the
  cached Job and the unseen changes lead up to the stored one (`Followed`). A
  Job that failed or is outdated stays so, so the decision to delete is still
  right when the delete arrives, which goes by name (`Unwanted`).
- `OnceInv`: without edits and deletions by hand a Job goes only after it
  failed, when its pod has ended, so one container works at a time and there is
  room for what it inserts (`Alone`, `Room`): rows and queries adrift of a table
  never exceed the queries left behind by more than one (`Balanced`). A
  container that finds the table empty while a query is adrift is the case that
  makes this more than `rows <= 1`.

`TrinoRollout_proofs` proves, for all bounds and any lag of the two caches:

| Theorem | Statement |
|---|---|
| `TypesHold` | `Spec => []TypeOK` |
| `NoPodStale` | `Spec => []PodsNotStale` |
| `CoordinatorRollsForward` | `Orders = 1` gives `Spec => RollsForward` |
| `ReadyComesFromPod` | `Spec => []ReadyAfterPod` |

`RolloutInv` says, until an edit brings no new configuration, that nothing
written is ahead of the pass (`Forward`) and that the Secrets only advance and
no hash, template or loaded pod is ahead of them (`SecretsFirst`). It is the
order of the writes in `reconcileTrino` as a statement about all versions that
the caches have not seen yet. `RollsForward` has the hypothesis that the
catalogs are hashed in one order, which the code guarantees for at most one
extra catalog; beyond that the run `rollout_orders` shows what happens. `UpInv`
says that every status on its way to the cache that counts a ready pod is still
true; it holds while no pod is lost, since a rolling update retires a ready pod
only when its successor is ready.

`Credentials_proofs` proves, for every set of platforms, whatever namespaces they
name, and all bounds:

| Theorem | Statement |
|---|---|
| `TypesHold` | `Spec => []TypeOK` |
| `OnlyOwnersWrite` | `Spec => OwnerWrites` |
| `RealmAndKeycloakOneOwner` | `Spec => []OneOwner` |
| `SigningKeyWriteOnce` | `MaxDeletes = 0` gives `Spec => KeyIsWriteOnce` |

`apply` compares owners on the cached version; the write is refused when that is
not the stored one, which makes the comparison hold for the stored object.
`OwnedInv` adds that all versions of an applied object have one owner, so that
a pass which got past the realm still owns it when it applies Keycloak. The
refinement of `WriteOnce` rests on `KeyInv`: every version of the key, the pass,
the realm and the pods have the stored key or none. The initial states map to
initial states of `WriteOnce`, and each step either generates a key where there
was none, or lets a pod take up the stored one, or maps to a stutter. The
hypothesis `MaxDeletes = 0` is needed: a Secret that is deleted by hand is
generated anew, which no write-once value does.

`CatalogSync_proofs` proves, for all principals, groups, users, page sizes and
bounds:

| Theorem | Statement |
|---|---|
| `TypesHold` | `Spec => []TypeOK` |
| `OnlyMembersGetAccess` | `Spec => []OnlyMembersGranted` |
| `NoRoleMixed` | `Spec => []RolesNotMixed` |
| `ReadyMeansComplete` | `Spec => []ReadyComplete` |

- `TypedInv`: what the pass has read and what is left of it has been asked for:
  relations of the principal or group, people who have been members
  (`ReadSound`, `StepsSound`).
- `AccessInv`: grants and members of a role are written directly after it was
  found or made (`Placed`), and the id in hand is that of a role of the group's
  name, if that role still exists (`InHand`). Ids are never given out twice
  (`IdsNamed`), so a deleted role's id cannot turn into that of another group.
- `ReadyInv`: whatever WarehouseReady vouches for is in place or still a step
  of the running pass (`Underway`), the rights of the roles on the very
  warehouse the pass is about, and the last step is the one that sets the
  condition (`Ordered`). Without losses outside the operator nothing that is in
  place goes away, so when the last step is all that is left, everything is
  there.

The proofs summarise what any step does to the roles (`RolesChange`), to the
pass (`PassChange`) and to the rest (`GrantsChange`, `TuplesChange`,
`OwnerChange`, `HousesChange`, `StatusChange`), and argue about these few kinds
of step instead of 25 actions.

With these, every invariant and every action property that a passing run checks
is also a theorem.

Only model-checked: the liveness properties (`Converges` of three modules,
`OutageReported`, `Settles` of two modules, `KeycloakConverges`,
`OPAConverges`), which need fairness and are out of the prover's reach.

## Plan

The handlers that decide, retry or call other services are each modelled at
least in part (`PROJECT.json` says of every component what is left out), and
all safety properties that hold are proved. What is left:

1. An abstract specification of `AuthzStore` (one store whose latest model is
   what a spec asked for) and the proof that it is implemented until the first
   call takes effect late.
2. An abstract specification of a condition (`WarehouseReady` as a claim that is
   made only for what holds) that `CatalogSync` and the warehouse step of
   `Reconciler` both implement, which would tie the two modules together.
3. A spec of `Reconciler` that is both secured and seeded, with edits, which is
   too large for TLC today; its safety is proved, its liveness is not checked.

## Not modelled

- Deletion of a DataPlatform: the operator has no finalizer; Kubernetes removes
  what a platform owns.
- The addresses a catalog call goes to, port forwards, JSON and token requests
  (`catalog.go`): a call that does not come through is a failing call.
- Passthrough values: images, sizes, names, endpoints, resource requests, pod
  specs, security contexts, the text of rendered configuration, the Services
  beside workloads.
- The passwords of the databases and of MinIO: they take the same way through
  `ensureGeneratedSecret` as the signing key and are not followed separately.
- Generated code (`zz_generated.deepcopy.go`, `groupversion_info.go`), flag
  parsing and wiring (`cmd/main.go`), the vendored Rego policies, and the
  manifests under `config/` and `deploy/`.
