# A verification development of the PV migration manager

This directory holds TLA+ modules that model Karmada_with_PVMigration, its
management side and the pipeline from the member that feeds it, the TLC
configurations that check them on small instances, and TLAPS proofs about them. Sources are quoted as `file:line`,
with `internal/management/` left out where it is clear.

## 1. Inventory

### Components

| Component | State it keeps | Operations | Hard behaviours |
|---|---|---|---|
| Migration reconciler (`migration.go`) | `PVMigration.status`: phase, plan hash, one reference per Work | gate, record the plan, create Works, observe them, take receipts, conclude | stale cache, optimistic-lock conflicts, crashes between any two calls, peers that race for a claim |
| Cleanup reconciler (`cleanup.go`) | detached marks, `Completed` | find a Work gone, wait for its deletion, delete it under preconditions, conclude | the Work or its evidence changes between read and delete; a deletion that takes its time |
| Routing repair (`work_routing.go`) | the UID-bound intent in the reference | record the intent, edit the Work once | crash between intent and edit, a Work replaced in between |
| Standalone pairs (`standalone.go`) | PV and PVC UIDs in the references | decide that PV and PVC are bound to each other, compare with the receipt | the two halves are reflected at different times |
| Plan builder (`migration.go` BuildWorks, `plan.go`) | none | Works and hash from the source snapshot | snapshot drift |
| Binding gate (`validateBinding`, `validateSelectedTargetHold`, `internal/volumeclaims`) | none | admit or refuse a request | overlapping requests, same-second ties, holds of another operation |
| Member collector (`internal/member/pvsync_controller.go`) | `PVMetadata.status` on the source | collect PVs and PVCs, keep the last good ones | collections that mix two moments, scaling, int32 ordinals |
| Resource interpreters (`config/karmada/ric`) | none | reflect PV, PVC and PVMetadata; aggregate PVMetadata | last good records with mixed generations |
| Metadata discovery (`discovery.go`) | PVMetadata and PropagationPolicy objects | create them once per workload and cluster | Create then a cached Get |
| Manager process (`cmd/manager`) | none | runs the controllers, one worker each | restarts |
| Karmada and the target cluster (external) | Work conditions and reflections, member objects | apply, reflect, finalize, bind | status that lags; objects lost and made again |

The two reconcilers and the discovery share one manager, with one worker per
controller. Typed objects (`PVMigration`, `PVMetadata`, `StatefulSet`) are read
from its informer cache, which is late; unstructured ones (`ResourceBinding`,
`Work`, `PropagationPolicy`) are read from the API server, which is what the
default client of controller-runtime does with them. The reconcilers interact only through the
API server, that is through the status of the `PVMigration` and the Works in
`karmada-es-<target>`. The cleanup starts where the migration stops (`Ready`).
Karmada carries a Work to the member and its status back; the source snapshot
comes the other way, from the member collector over the aggregation of
`PVMetadata` to BuildWorks.

### What makes it correct

* Works are those of the plan on record, whatever the snapshot becomes.
* Evidence, once Ready, is not taken back by a late writer.
* The cleanup deletes only what it verified, as it verified it.
* Receipts name a PV and a PVC that were bound to each other.
* Two requests do not both rely on the Works of one claim.
* The only edit of a Work is on record before it is made.
* Completed means every Work recorded applied and gone.
* A request that comes first for its claims gets there, over restarts.
* To who only reads statuses, a request goes through one life, whatever
  happens in the caches and passes below (the abstract specification).
* A plan moves whole ordinals, one to one, and every Work is of the plan first
  recorded; a pass creates one only after it was shown the source that the
  plan was recorded for.
* What reaches BuildWorks is one collection of what was bound, and never an
  earlier one than before.
* Once the source is quiet, the snapshot shows it as it is.
* A policy is made only for a PVMetadata of discovery's own making; a
  stranger that takes over the name is dispatched by a leftover policy at most,
  and in the end not at all. Each cluster of the placement gets a PVMetadata in
  the end.

`PROJECT.json` lists every component and every hazard with its line.

## 2. Plan

1. **Core (done).** `WorkEvidence`, `ControlPlane`, `MemberCluster`,
   `MigrationReconciler`, `CleanupReconciler`, composed by `Management`;
   `MCManagement` instantiates it; `ManagementProofs`, `SafetyProofs`,
   `EvidenceProofs`, `ReservationProofs` and `LifecycleProofs` prove about it, each
   resting on the one before.
2. **`RequestLifecycle` (done)**: what a request promises to readers of its
   status, an abstract specification that `Management` is checked, and in
   `LifecycleProofs` proved, to implement.
3. **`ClaimLanes` and `PlanBuilder` (done)**: which claims a StatefulSet uses,
   the rules of validateBinding on target claims, BuildWorks and planHash;
   proved about in `PlanProofs`.
4. **`SnapshotPipeline` (done)**: the member collector against scaling and
   rebinding, the reflection and the aggregation with last good records;
   proved about in `SnapshotProofs`.
5. **`Discovery` (done)**: PVMetadata and policies with the cached reads;
   proved about in `DiscoveryProofs`.
6. **Proofs of Management (done)**: every safety invariant and action property of
   its runs, and the refinement of `RequestLifecycle` (section 6).
7. **The hold annotations (left)**: validateSelectedTargetHold and validateWorkHold over small
   ResourceBindings, instead of the outcomes that `ValidateBinding` tells apart.

## 3. Modules

### WorkEvidence

The records and predicates without state: references and statuses
(`api/v1alpha1/pvmigration_types.go`), Works, and the predicates
`ValidateWork`, `WorkGenerationAllowed`, `Repairable`, `StandaloneStatus`,
`WorkApplied`, `SplitPairApplied`, `StandaloneReceiptMatches`, each named for
its function. A Work is described by what the code tells apart: its UID,
generation, owner label, whose plan its manifest was built from (`owner`,
`plan`), whether it still preserves the member object (`preserve`), whether the
routing annotations are there, whether it is terminating, its Applied
condition (`cond`) and its reflection (`status`). Equality of manifests
(`comparableWorkSpec`) is then equality of `owner` and `plan` with `preserve`
and `routed`. UID 0 stands for the empty string. A standalone volume is two
Works, related by `PvcOf`.

### ControlPlane

The shared state, one action per step of users, operators, Karmada's
aggregation and scheduler.

| Variable | Stands for |
|---|---|
| `mig[q]` | the PVMigration `q` in the API server |
| `seen[q]`, `feed` | the informer cache, and the writes it has not been told |
| `born[q]` | `creationTimestamp`, whole seconds |
| `works[k]`, `births[k]` | Work `k`, and how many there were of that name |
| `member[k]`, `minted[k]`, `bonds` | objects on the target, UIDs given out, every pair ever bound (history) |
| `snapshot` | the usable source snapshot in PVMetadata, or None |
| `binding` | the ResourceBinding |
| `faults`, `interrupts` | how many disturbances and failures there were (bounds) |

`PatchStatus` is `Status().Patch` with the optimistic lock: nothing is sent
without a change, and the record is replaced only if it still is the copy the
pass started from. Equality of records stands in for the resource version; a
record never returns to an earlier value while a pass holds that value, because
one worker per controller runs and the cleanup touches only Ready requests.
For one request the cache is at most one write behind: every writer but the
creation and the deletion compares with the cached copy. Across requests the
watch delivers in the order of the writes. Works, the ResourceBinding and the
snapshot are read as they are when read; a cache that lags there is a step of
the environment taken later, with one exception: a *cached* Work read as missing
or present after it changed is caught by Create (AlreadyExists) and by the
resource version of the delete, as `RCreate` and `CDelete` have it. `RCreate` reads
and creates in one step since nobody else creates Works of these names.

A request's spec is immutable (CEL rule in the CRD), so that the
`observedGeneration` checks never fail and are left out. Messages are left out;
a patch that changes only the message is a stutter. A PVMigration has no
finalizer, hence deletion removes it at once.

### MemberCluster

External: the execution controller (`KarmadaApply`, sets the Applied condition
with the generation or, as Karmada v1.14 does at times, with none), the
work-status controller (`KarmadaReflect`, only when the routing annotations name
the Work), the finalizer (`KarmadaFinalize`), the volume controller
(`SettleTemplate`, `BindPair`) and the faults of the target (`TemplateFault`,
`PairFault`: PV, PVC or both deleted and made again with other UIDs).
`ReflectionOf` is the Lua of the PV and PVC interpreters.

### MigrationReconciler

`rpass` is the reconciliation under way: the copy it started from, the plan it
built, the references as changed in memory, the position in the loop and the
Works it remembers (`read`).

| Action | Code (`migration.go`) |
|---|---|
| `RStart` | 46-53, the request is read; Ready and Completed are left alone |
| `RPend` | 59-60, 63-65, 83-85, `setPhase` Pending; `GateCloses`: refused, or an API call of validateBinding failed (174, 184, 195, 301) |
| `RRecordPlan` | 71-82 |
| `RProceed` | 83-91 |
| `RSkip`, `RCreate`, `RObserve`, `RRefuse` | one turn of the loop, 92-133 |
| `RIntend`, `RRecordIntent` | `work_routing.go` 75-79 |
| `RPrepareRepair`, `RRepair` | `work_routing.go` 81-86 |
| `RConclude` | 134-160 |
| `RFail` | every other error return, and the loss of an answer |

`ValidateBinding` has the static checks as membership in `Admissible`, the
ResourceBinding as a record of what the checks tell apart (it matches, it is
suspended, whether the target is absent, alone or one of several, and which
request the hold designates), and the peers in full. Claims overlap when plans
share the name of a Work, for a Work is named after its target claim. The phase
`Failed` and the error "identity changed" cannot occur once the hash agrees: the
hash covers the manifests, their names and their number.

### CleanupReconciler

`cpass` likewise. `CStart` 22-35; per Work `CSkip` 41-43, `CDetach` 48-50,
`CAwait` 58-61, `CApprove` 54-98 (all the checks), `CDelete` 99-101,
`CRefuse` every refusal; `CConclude` 103-112. The read and the Delete are two
actions: between them anything may happen, and the preconditions decide.

### Management, RequestLifecycle and MCManagement

`Management` composes them: a step is one of the migration reconciler, the
cleanup reconciler, the surroundings, or `Crash`, which loses both passes and
lists the cache anew. `MCManagement` gives the constants their values.

`RequestLifecycle` has one variable, the life of each request: its stage
(unfiled, open, ready, completed, gone), its plan, which Works of the plan are confirmed and
which are released. Its five actions say what may happen to it, and nothing of
caches, Works, clusters or passes. `Management` refines it by `LifeOf`: the
stage is read off the phase (`StageOf`: Pending, Preparing and Failed are
open), the plan is the recorded hash, a Work is confirmed when its reference is
`applied` and released when it is `detached`. `ImplementsLifecycle` says that every
behaviour of `Management` is then one of `RequestLifecycle`: a status write
from a stale copy that undid a stage, exchanged a plan, confirmed a rival or
released before Ready would be no step of it.

### ClaimLanes and PlanBuilder

`ClaimLanes` has no state: `Generated` and `StandaloneClaims` are the claims of
`internal/volumeclaims/standalone.go`, counted in int64, `TemplateClaims` and
`CollectedClaims` those that the collector goes through, counted in int32
(`Int32` in `Width` bits). A generated name `template-set-ordinal` is a pair of
the template and the ordinal.

`PlanBuilder` is one request against a source that changes at any time, also
during a pass. A pass is a sequence of API calls, one action each, and reads the
request, the PVMetadata and the StatefulSet from caches that are late
independently of each other. It builds the plan from what it read (`Accepted`:
`TargetsValid` from validateBinding, `Buildable` from BuildWorks), compares
`PlanHash` with the record in its copy of the request, and goes through the Works.

| Variable | Stands for |
|---|---|
| `sts`, `snapshot`, `hash` | the StatefulSet, the usable snapshot, `status.planHash` in the API server |
| `seenSts`, `seenSnapshot`, `seenHash` | the same as the caches show them |
| `pc`, `base`, `md`, `left` | the pass: where it is, the recorded hash and the snapshot that it read, the Works it has not come to |
| `works` | the Works created |
| `first`, `shownSets`, `shownSnapshots` | history: the snapshot of the recorded plan; what the caches have shown since the pass started |

| Definition | Code |
|---|---|
| `StandaloneStays`, `OrdinalsComplete` | the target claims in validateBinding |
| `OneToOne`, `SameLane`, `OneSourceOrdinal`, `PortableVolume` | the checks of BuildWorks |
| `StandaloneClaim` | standaloneClaim: the claim can be staged with the volume |
| `BuildWorks`, `PlanHash` | the manifests, and what planHash takes of them and of the source |
| `PStart`, `PReadMetadata` | 46-54, 55-58 |
| `PReadSet` | 59-91, the StatefulSet being read at 184 and compared from there on |
| `RecordPlan` | 71-82; the lock compares with the copy read at the start |
| `CreateWork` | 92-114, one turn of the loop |
| `PEnd` | every other return, and a restart |
| `Scale`, `Collect` | the source changes; the snapshot is any that a collection of a StatefulSet could give |
| `DeliverSet`, `DeliverSnapshot`, `DeliverRecord` | the watches |

Between the read of the snapshot (56), that of the StatefulSet (184) and the
Create (109) anything may happen, and each read may show what is no longer so.
The code cannot promise that a Work fits the source at the instant of its
creation, and nothing in it says so. `SourceUnchanged` and `StandaloneClaimsFree`
say what its checks do promise: a pass creates a Work only after the caches have
shown it, since it started, the source that the plan was recorded for, and a
StatefulSet that leaves the claim alone. A pass that remembered an earlier check, or
made it only before the plan is recorded, would violate them. What becomes of a Work that
exists (observation, repair, cleanup) is the subject of `Management`; here a pass may
go on creating missing Works for as long as the request exists, which is more
than the code does.

The checks of a single volume (NFS, no node affinity, bound to its claim, access
modes, and so on) do not depend on anything else, so that they are membership of
its content in `Portable` and `Claimable`. Contents are opaque: the hash covers
the whole manifest. The hash itself is injective here (SHA-256 in the code).

### SnapshotPipeline

| Variable | Stands for |
|---|---|
| `sts`, `pvc`, `pv` | the source, with UIDs, bindings and incarnations of a volume's name |
| `copy` | the member's PVMetadata and its status |
| `item` | that status as Karmada reflected it |
| `record` | the cluster's item in `status.clusters` on the control plane |
| `kpass` | the collection under way |
| `bonds`, `collected` | every claim and volume ever bound; every collection published (history) |

`KStart`, `KReadSet`, `KReadClaim`, `KReadVolume`, `KPublish`, `KReport` are
Reconcile, collect and collectVolume, one API read per action, so that the
source may change between any two of them; `KFail` is every other error return and a
restart. The status patch has the optimistic lock. `Reflect` and `Aggregate`
are the Lua of `pvmetadata_resource_interpreter.yaml`. `RestoreCopy` is Karmada making the
copy again, without a status. Since the spec of a PVMetadata is immutable its generation
is 1 for good, so `observedGeneration` tells only whether something was ever
collected, which `obs # None` says. `at` stands for `collectedAt`: the number
of the collection, where one equal to the one before keeps its number, since a
time that grows with each poll would tell nothing more and never end.

### Discovery

One ResourceBinding, its StatefulSet and its clusters. A name is the pair of the
StatefulSet's UID and the cluster, as stableName hashes them.

| Action | Code (`discovery.go`) |
|---|---|
| `DStart` | the ResourceBinding is read |
| `DReadSet`, `DNoSet` | the StatefulSet: opted in, or missing or not opted in, which ends the pass (41-46) |
| `DMissMetadata`, `DCreateMetadata`, `DMissAgain` | Get, Create (AlreadyExists is no error), Get again, from the cache |
| `DCheckMetadata` | the conflict check: label and spec are ours, or the pass ends |
| `DCheckPolicy`, `DCreatePolicy` | the PropagationPolicy: there and equal, in conflict, or made |
| `DFinish`, `Interrupt` | the end; a failed call or a restart, which lists the cache anew |

The surroundings are external: the watch (`DeliverSet`, `Deliver`), the garbage
collector of owner references (`Collect`), moves of the workload, the StatefulSet made
again or its label changed (`OptInOrOut`), deletions, and others who put an object
under a name of discovery's (`UsurpName`) or point a policy elsewhere (`Retarget`).

A policy selects the PVMetadata by name (discovery.go:97), not by UID: Karmada
takes whatever has the name to the policy's cluster (`Dispatched`). The owner
reference has the UID, and tells only the garbage collector that the policy
belongs to an object that is gone (`Orphaned`). Nobody asks it before the object
under the name is dispatched.

### MCPlan, MCSnapshot, MCDiscovery

Values for the constants of the three modules above.

## 4. What is checked

| Run | Instance | Question |
|---|---|---|
| staging | one request for a standalone pair, 2 snapshots, 1 disturbance | `TypeOK`, `WorksFollowPlan`, `CompletedDetached`, `ReceiptsTruthful`, `DetachVerified`, `ImplementsLifecycle` |
| overlap | two requests for one Work, two instants, any binding, 1 disturbance | `ReservationExclusive`, `ReliesOnOwn`, `CompletedRetains`, `ImplementsLifecycle` |
| repair | a legacy request, 2 snapshots, 2 disturbances, 1 failure | `RepairIntended`, `DetachVerified`, `ReadyDurable`, `FirstCompletes` |
| progress, pair_progress | as overlap, as staging, without disturbances, 1 failure | `FirstCompletes` |
| placement | two templates, two ordinals, an alias; requests of two mappings and of whole ordinals; one claim remade or with another volume; 1 change, late caches | `TypeOK`, `OrdinalsMoveWhole`, `WorksOfOnePlan`, `SourceUnchanged`, `StandaloneClaimsFree` |
| collection | one template, up to two replicas, an alias, two volumes; 2 changes or losses, 1 failure | `TypeOK`, `SnapshotIsOneCollection`, `CollectionComplete`, `VolumesWereBound`, `SnapshotAdvances`, `QuietSourceReflected` |
| discovery | two clusters, three placements, 2 moves, changes of the label or deletions, 1 intrusion, 1 failure | `TypeOK`, `StrangersByOrphansOnly`, `StrangersLeftAlone`, `EveryClusterServed` |
| recreation, winner, zero_generation, alias | smallest instances, no disturbance or (alias) as collection in two bits | the findings of section 5 |

Every property of a passing run has a mutant in `PROJECT.json`: a slip in one
definition of the model, such as a dropped optimistic lock, a precondition on
the UID alone, a claimRef that is not compared or an aggregation that mixes two
records, that makes TLC report the property.

**Bounds of Management.** `MaxFaults` bounds what others do to the system (edits, label
changes, foreign deletions, binding and snapshot changes, member faults, deletion of
the record), `MaxInterrupts` failed calls and restarts, `MaxTime` the instants of creation.
Nothing else is bounded: generations, UIDs and births grow only with
disturbances and creations, which the plan limits. One request and two Works are enough for
every interaction within a request, because references are independent but for
the pair and for "all of them"; two requests and one Work for every interaction
between requests, which is by pairs. Two disturbances allow a change and its
reversal or two different ones. Two snapshots, interchangeable (symmetry, in the
one run that has no liveness property and more than one snapshot), are
all that an equality test can tell. Deadlock checking is off: when every
request is finished and the budgets are spent there is nothing left to do.

**Bounds of the other modules.** In PlanBuilder the rules speak of two mappings at a
time, or of one mapping and the templates of its ordinal: two templates and two
ordinals give each of them a case, requests of any two mappings the senseless ones and
those of four the swap, the stay and the merge of whole ordinals. Of two mappings the first
is one of three, since the two templates, and the two ordinals, have the same
part in every rule. Three contents are not
portable, portable, and portable with the claim; two identities are a claim and
volume and what is made again under their names. At most one claim of a snapshot differs from the
others (`OneUnusual`): the checks of a volume look at it alone, and a hash
differs if one item does. One change is enough for a pass to see another source than the one
that recorded the plan; it may come at any point of a pass, and each cache shows it when it likes. In SnapshotPipeline two
ordinals make a collection of two claims, between which claim and volume can be
remade, exchanged by two volumes, or the StatefulSet scaled; two disturbances lose the
copy and the item both. Discovery has two clusters because a pass goes through them
in order; two moves leave and return.

**Fairness of Management** (`FairSpec`). Weak fairness on deliveries of the watch, on the
steps of a pass under way (a worker runs its handler to the end), on Karmada and the volume
controller, and on the arrival of the first snapshot. Strong fairness on the *start* of a
pass for each request: the handler returns `RequeueAfter` (`delay`,
migration.go:30-35) or an error, so that a request is put back each time, and
the queue is first-in first-out, so that it is taken again however
often the worker is busy with others. No fairness on users, operators, faults
or restarts. `FirstCompletes` is conditional on the request being first by at
least a second, and promises nothing after a disturbance: after an edit of its Work the
code refuses for good, by design. The liveness checks of `repair` are about the
behaviours in which none occurs.

**Fairness of SnapshotPipeline.** Weak fairness on the collector (it polls, and its
handler runs to the end), on the reflection, the aggregation and the restored
copy. Nothing is asked of the source: `QuietSourceReflected` is about behaviours in
which it is healthy from some point on, whoever made it so.

**Fairness of Discovery.** Weak fairness on the reconciler, which is put back after the poll
interval or an error, on each delivery of the watch and on the garbage collector.
`EveryClusterServed` is about clusters that stay in the placement of a StatefulSet
that stays opted in. A name under which somebody else's object stands ends the
pass, at the cost of that cluster and those after it; `Reached` asks that there be
no conflict at the cluster or before it, so that a conflict further on must not
matter. `StrangersLeftAlone` is about behaviours in which intrusions end, as
they do here after `MaxIntrusions`: from some point on no policy dispatches a stranger.

## 5. What the runs found

* **A detached Work can be created again** (`recreation`,
  `NoRecreationAfterDetach`). migration.go:66 says that "a restart never
  recreates a detached Work" and docs/validation.md:35 asks to "confirm deleted PV Works
  are not recreated". One pass makes the request Ready; the next starts before
  the cache has heard of it, from a copy that still says Preparing with the Work not
  applied. Before it reads the Work, the cache catches up and the cleanup deletes
  the Work and records it detached. The migration pass then finds the Work
  missing, not applied in its copy, and creates it (migration.go:109). Its status
  patch fails on the lock; the Work stays.
* **Overlapping requests of one second can block each other**
  (`winner`, `OverlapHasWinner`). The test at management_test.go:577 expects a
  deterministic winner. If the request with the larger UID was alone when it
  created the Work, the other one, filed in the same second, is "older" by UID
  (migration.go:206) and blocks it, and is itself refused since the Work is the
  first one's.
* **Generation 0 is accepted for repaired Works** (`zero_generation`,
  `ZeroGenerationOnlyCreateOnce`): migration.go:512 against
  docs/architecture.md:52, which limits it to generation `<=1`.
* **An explicit alias of a generated claim can be left out of the snapshot**
  (`alias`, `AliasesCollected`). volumeclaims.Standalone leaves an alias to the templates
  ("collected with the templates", standalone.go:26) and counts the ordinals in int64; the collector
  counts `startOrdinal+replicas` in int32 (pvsync_controller.go:116). When the sum
  overflows, the templates yield nothing, and the alias goes with them: a
  collection without it is published as good. `CollectionsComplete` (section 6) proves
  that the overflow is the only way to an incomplete collection.

Three more observations, which no document contradicts. A Completed request can
lose its volume when somebody clears `preserveResourcesOnDeletion` on a Work
between the evidence and the deletion, even on one that is already
terminating: hence `faults = 0` in `CompletedRetains`. And discovery's pass
ends at the first conflict (discovery.go:78), so that the clusters after it in the placement
are not served either: hence `Reached` in `EveryClusterServed`. Also, a
policy that outlives its PVMetadata, or is made from a cached copy of one that is gone,
dispatches a stranger that takes over the name, until the garbage collector
finds its owner missing: `StrangersByOrphansOnly` does not say that strangers are
never dispatched, because they are.

## 6. What is proved

`ManagementProofs` proves `TypeCorrect`, `Spec => []TypeOK`: one lemma per
group of actions, resting on lemmas that say that each kind of change of a
Work, a reference, a request or a member object keeps its type.

`SafetyProofs` proves three properties for every value of the constants that
meets the assumptions below: any number of requests, Works and snapshots, any
plans, any budgets.

* `PlanFollowed`: `Spec => []WorksFollowPlan`
* `CompletionThorough`: `Spec => []CompletedDetached`
* `EvidenceDurable`: `Spec => ReadyDurable`, an action property

None of them is inductive. The inductive invariant `SafetyInv` adds what the
copies in flight may be:

* `CacheFollows`, `MigrationPassFollows`, `CleanupPassFollows`: a copy that has
  a plan, in the cache or in a pass, has the plan of the request, and a
  migration pass past the gate builds from exactly that plan. Without it a
  pass that read an old copy could create a Work of another plan.
* `NothingBeforeFiling`: nothing exists for a request not yet filed, so that
  the record it gets is the first, and a deleted one does not come back.
* `PassesApart`: a migration pass started from a copy that was not Ready, a
  cleanup pass from one that was, and the cleanup only adds detached marks. With the
  optimistic lock (`PatchStatus` compares with the copy) this is why a Ready
  record is out of reach of a migration pass.
* `CleanupThorough`: a cleanup pass that has missed nothing (`all`) has found
  every Work it passed applied and gone.

The argument first reduces the actions to five shapes of step
(`WorkSteps`, `RecordSteps`, `CacheSteps`, `MigrationPassSteps`,
`CleanupPassSteps`: what a step can do to a Work, a record, the cache and the
two passes), then shows from the shapes that each conjunct is kept
(`FilingKept`, `ApartKept`, `ThoroughKept`, `CompletedKept`, `PlanKept`).
TLC agreed with every conjunct on the instances of section 4 before it was
proved.

Assumptions: `PlanAssumption` (plans are non-empty sequences of Works, which
BuildWorks guarantees at migration.go:347; a PV Work has one PVC Work, which is
no PV Work), `NoneAssumption` (None is none of the values it stands in for),
`OrderAssumption` (UIDs are totally ordered), `BoundsAssumption`.
The age order and the delivery order of the watch are not used here.

`EvidenceProofs` first says what a step can do, field by field: `RecordMoves` (a
record stays, goes, is filed, or is written at the gate, with an intent, at the
end of a migration pass or of a cleanup pass), `PassMoves`, `CleanMoves`,
`WorkMoves`, `ObjectMoves`. All later proofs go over these few cases
rather than over the actions. It then proves four properties, each with an
invariant about the copies through which the evidence travels.

* `RepairOnRecord`: `Spec => []RepairIntended`. The intent and the edit of the Work
  are two calls, with a crash, a deletion or a new Work in between. `IntentInv` adds
  that an intent which any copy shows is on record (`IntentCopies`: only the pass about to
  write it has one more), that a Work nobody edited has generation 1 or 2
  (`WorksNumbered`), and that a pass about to repair read back an intent for the UID of
  the Work it has a copy of (`RepairPrepared`).
* `ReceiptsHold`: `Spec => []ReceiptsTruthful`. The two UIDs come from two Works reflected at
  different times. `ReceiptInv` follows a bond from the member over the reflection to the
  copy in the pass (`BondsTrue`), and says that a pass which has missed nothing found every
  Work it passed applied (`MigrationThorough`), so that Ready means all of them
  (`ReadyMeansApplied`), and that nothing is detached before Ready (`NothingDetachedEarly`);
  otherwise a pair could be skipped and its receipt never be taken.
* `DeletionsVerified`: `Spec => DetachVerified`, an action property about the instant of
  the Delete. `DeletionInv` has the copy that was approved (`DeletionApproved`) and that the
  record still has the evidence of every copy of a Ready request (`ReadyCopies`); the
  precondition on UID and resource version does the rest.
* `CompletionRetains`: `Spec => []CompletedRetains`. A missing Work counts as detached
  (cleanup.go:48), so that Completed must not be reached by a Work that was never
  applied. `RetainedInv` says, while nobody has interfered, that everything anybody was shown of a
  volume is so and that no Work has lost its preservation.

`ReservationProofs` proves `OneReserves` (`Spec => []ReservationExclusive`) and `OwnWorks`
(`Spec => []ReliesOnOwn`). A pass looks at its peers through the cache, so that the
record of a rival can be one it has not heard of. Why this is safe is `ResInv`:

* the feed holds each record that the cache shows otherwise, once (`FeedExact`), a pass that can still
  patch has the copy that the cache shows (`CurrentCopies`), and what was written of a
  request after its filing had been seen (`SeenBeforeWritten`);
* `ReservationsShow`: a reservation is seen by every rival whose plan is known, or it is of the older
  request, or the rival will hear of it before it hears of its own plan. Here the delivery
  order of the watch is used: a rival cannot pass its gate without having seen its own plan,
  and by then it has seen the reservation;
* `PeersOfPass`: behind the gate of a pass no rival holds a reservation, and one that has a plan
  is younger, so that a reservation this pass writes is of the older request (the first case
  above). Here the age order is used, that every pass goes through the gate before any Work,
  and that one worker runs one pass at a time.

`PassRelies` adds for `ReliesOnOwn` that a pass past its gate which can still write marks no Work
applied but its own, and remembers none of others.

`LifecycleProofs` proves the refinement, `LifecycleImplemented`: `Spec =>
ImplementsLifecycle`. A step that writes no record is a stutter; filing is `File`, recording the
plan is `RecordPlan`, a write of an intent or of a pass's findings is
`Confirm` or a stutter, one of the cleanup is `Release`, and a deletion is `Delete`. At most one life
changes in a step (`OneLives`). The abstract `Confirm` and `Release` say Ready and
Completed *exactly* when all Works are confirmed or released. For that the invariants above are
not enough, since they say what a pass that missed nothing has seen, and not that one that
missed something has left a Work out: `MissesInv` (`MigrationMisses`, `CleanupMisses`) names the Work
that it left out. That the Works of the plan passed later do not overwrite it needs
that no Work comes twice in a plan (`PlanOneToOne`). `Confirm`'s condition on rivals is `PeersOfPass`.

Two assumptions are added: `PlanOneToOne` (the mapping check at migration.go:377, a Work being
named after its target claim and kind) and `NoneIsNoRecord` (None is no record, Work or member object). TLC
evaluates both on every run of `Management`, and agreed with every conjunct of
`IntentInv`, `ReceiptInv`, `DeletionInv`, `RetainedInv`, `ResInv`, `PassRelies` and `MissesInv`
on the instances of `staging`, `overlap` and `repair` before it was proved. The
bounds (`MaxFaults`, `MaxInterrupts`, `MaxTime`) are arbitrary
in all of these theorems.

`PlanProofs` proves all properties of the `placement` run, for any templates, claims,
requests, scales, contents and number of changes, and however late each cache is:
`PlanTypeCorrect`, `OrdinalsStayWhole`, `OnePlan`, `SourceHeld`, `StandaloneHeld`. The
inductive invariant has two parts. `PlanInv`: a recorded hash is that of the plan built
from `first`, which passed the checks, and the Works so far are of that plan; an
equal hash in a later pass then means equal Works. `PassInv`: what the caches show is
among what they have shown since the pass started, so is the snapshot that it
read, and past the checks the pass has a plan accepted against a StatefulSet shown to it, whose
hash is the one on record if it is to create Works. The two theorems about the
source then say what a pass had seen at its Create (`WorkStep`: nobody else adds a
Work), and not how the source was at that instant. Whole ordinals are a
lemma about the checks alone (`WholeOrdinals`): the target ordinal determines the
source ordinal (`OneSourceOrdinal`), every template goes with it (`OrdinalsComplete`
and `SameLane`), and no two targets share a source, since the claims of one template would
then be mapped twice (`OneToOne`). None of the three checks suffices alone.

`SnapshotProofs` proves `SnapshotTypeCorrect`, `SnapshotWhole`, `CollectedBound`,
`SnapshotForward` and, where ordinals fit in int32, `CollectionsComplete`. The
invariant `SInv` follows a collection along the pipeline: the member's copy has
the last collection published or none, the item and the record have ones that
were published, and the record is never ahead of the item (`CarryInv`); who is bound now is
recorded as bound (`BondInv`), and so is whatever a pass has in hand (`PassInv`).
With it, taking an item that is ready never goes back, since a status is ready
only with a collection (`Filled`), and a copy made anew has none.
`CompleteInv` adds that the claims of the StatefulSet are those in hand or left to be
read. Its premises are `OrdinalsFit` (no first ordinal plus replicas exceeds the largest
int32) and `OrderCovers` (the claims considered include those that the StatefulSet can
use); the violation run `alias` shows that the first is needed.

`DiscoveryProofs` proves `DiscoveryTypeCorrect` and `NoPolicyForStrangers`,
`Spec => []StrangersByOrphansOnly`. The invariant `DInv` says that UIDs of a name are
given out once and that an object under it is a stranger exactly when its UID
is one of a stranger's (`NamesInv`), so that a PVMetadata that the cache shows as
ours, though it may be gone and its name taken over, has a UID that no stranger
will ever have; the owner that a pass took up (`PassInv`), and the owner of every
policy, is such a UID. A policy that dispatches a stranger therefore has another owner
than the object it dispatches, that is one that is gone. That such a policy
goes, and is not made again and again, is `StrangersLeftAlone`, which only TLC checks.

Assumptions of these three: `LanesAssumption` (among them that the largest integer
is a natural number, a fact about powers of two), `BuilderAssumption`, `PipelineAssumption`,
`NoneIsNoRecord`, `DiscoveryAssumption`: what the constants are, and that None is none of the
values that it stands in for.

## 7. What is only model-checked, and what is not modelled

Liveness (`FirstCompletes`, `QuietSourceReflected`, `EveryClusterServed`, `StrangersLeftAlone`) is
checked by TLC only: they rest on fairness and on ENABLED, which the provers do
not handle. So are the four findings, whose runs are counterexamples. Every other property
of a passing run is a theorem (`CollectionComplete` under its two premises).

`Management` takes a plan as given: which snapshots are usable and which
requests admissible are sets there, and what makes them so is the subject of
`PlanBuilder` and `SnapshotPipeline`. The composition is by that interface: a
`Snapshot` of `Management` stands for a class of snapshots with equal `PlanHash`.

`SnapshotPipeline` reads the source in the order of the code, each object as it is when it is
read. The member's manager reads StatefulSet, PVC and PV from its informer caches
(`cmd/manager/main.go:75`), each late by itself, so that a collection can
mix moments that the model keeps in order. What its properties say of a
single claim and volume rests on the mutual references that collectVolume
compares, not on the order of the reads.

Not modelled: the hold annotations in detail (`ValidateBinding` has their
outcome: the hold designates a request or none), the checks of a
single volume or claim spec (here: sets of contents), the shape of manifests
and labels (`resources.go`, but for the owner label and the routing
annotations), flags and probes of `cmd/manager`, generated deep
copies, CRDs, RBAC, the wording of messages, and InterpretHealth of the
interpreters, which nothing in this repository reads. Two hazards have no
property. A ResourceBinding can be resumed between validateBinding and the
creation of a Work (migration.go:59): the code takes no lock on it, and
docs/architecture.md:72 makes the suspension a duty of the operators; the model
has the interleaving. And a collection followed by a failure before it was ever
aggregated as ready does not replace an empty record
(pvmetadata_resource_interpreter.yaml:89): the snapshot stays unusable while the
member has a good one. docs/validation.md:41 lets such a migration block, and
`QuietSourceReflected` says that a source up again is reflected.
