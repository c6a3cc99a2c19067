----------------------------- MODULE Management -----------------------------
(***************************************************************************)
(* The manager: the migration and the cleanup reconcilers over the control *)
(* plane they share, with the Karmada controllers, the member cluster, the *)
(* users and the restarts of the manager around them.                      *)
(***************************************************************************)
EXTENDS MigrationReconciler, CleanupReconciler

vars == <<storeVars, rpass, cpass>>

TypeOK == StoreTypeOK /\ MigrationTypeOK /\ CleanupTypeOK

Init == StoreInit /\ MigrationInit /\ CleanupInit

\* The manager restarts: reconciliations are lost, the cache is listed anew.
Crash ==
    /\ Interrupt
    /\ seen' = mig
    /\ feed' = <<>>
    /\ rpass' = None
    /\ cpass' = None
    /\ UNCHANGED <<mig, born, workVars, memberVars, gateVars>>

Migrate == ((\E q \in Request : RStart(q)) \/ MigrationStep \/ RFail) /\ UNCHANGED cpass

Cleanup == ((\E q \in Request : CStart(q)) \/ CleanupStep \/ CFail) /\ UNCHANGED rpass

Surroundings ==
    /\ \/ Deliver
       \/ SnapshotArrives \/ SnapshotChanges \/ BindingChanges
       \/ \E q \in Request : FileRequest(q) \/ DeleteRequest(q)
       \/ \E k \in Work :
            \/ KarmadaApply(k) \/ KarmadaReflect(k) \/ KarmadaFinalize(k)
            \/ SettleTemplate(k) \/ BindPair(k) \/ TemplateFault(k) \/ PairFault(k)
            \/ EditWork(k) \/ RelabelWork(k) \/ ForeignDelete(k)
    /\ UNCHANGED <<rpass, cpass>>

Next == Migrate \/ Cleanup \/ Surroundings \/ Crash

Spec == Init /\ [][Next]_vars

-----------------------------------------------------------------------------
(* Fairness.  Deliveries, running reconciliations and the Karmada and      *)
(* volume controllers make progress.  A reconciler comes to every request  *)
(* again and again: its queue is first-in first-out and each request is    *)
(* put back after the poll interval, hence strong fairness on the start.   *)

CarrierStep(k) ==
    \/ KarmadaApply(k) \/ KarmadaReflect(k) \/ KarmadaFinalize(k)
    \/ SettleTemplate(k) \/ BindPair(k)

Fairness ==
    /\ WF_vars(Deliver /\ UNCHANGED <<rpass, cpass>>)
    /\ WF_vars(SnapshotArrives /\ UNCHANGED <<rpass, cpass>>)
    /\ WF_vars(MigrationStep /\ UNCHANGED cpass)
    /\ WF_vars(CleanupStep /\ UNCHANGED rpass)
    /\ \A q \in Request : SF_vars(RStart(q) /\ UNCHANGED cpass)
    /\ \A q \in Request : SF_vars(CStart(q) /\ UNCHANGED rpass)
    /\ \A k \in Work : WF_vars(CarrierStep(k) /\ UNCHANGED <<rpass, cpass>>)

FairSpec == Spec /\ Fairness

-----------------------------------------------------------------------------
(* Safety.                                                                 *)

\* A Work that nobody edited was built from the plan its owner recorded,
\* whatever the snapshot has become since (the planHash check before Works
\* are created, and the record of the plan before the first of them).
WorksFollowPlan ==
    \A k \in Work :
        /\ works[k] # None
        /\ works[k].preserve
        /\ mig[works[k].owner] # None
        => works[k].plan = mig[works[k].owner].hash

\* The one edit the reconciler makes to a Work is on record, with the UID of
\* that Work, before it is made (ensureWorkRouting): a Work of generation 2
\* that still preserves its object has a recorded intent.
RepairIntended ==
    \A k \in Work :
        /\ works[k] # None
        /\ works[k].preserve
        /\ works[k].gen = 2
        /\ mig[works[k].owner] # None
        => mig[works[k].owner].refs[k].repairUID = works[k].uid

\* Two requests for the same target claim never both rely on their Works,
\* however late the cache shows each the other (the peers of validateBinding).
ReservationExclusive ==
    \A p, q \in Request :
        /\ p # q
        /\ mig[p] # None /\ mig[q] # None
        /\ Overlap(p, q)
        => ~(Reserved(mig[p]) /\ Reserved(mig[q]))

\* The receipts of a standalone pair in a Ready or Completed request name a PV
\* and a PVC that the member did bind to each other, though the two UIDs come
\* from reflections of two Works taken at different times (splitPairApplied).
ReceiptsTruthful ==
    \A q \in Request :
        mig[q] # None /\ mig[q].phase \in {"Ready", "Completed"} =>
            \A pv \in Works(q) \cap DOMAIN PvcOf :
                LET r == mig[q].refs[pv]
                    s == mig[q].refs[PvcOf[pv]]
                IN /\ <<pv, r.pvUID, r.pvcUID>> \in bonds
                   /\ s.pvUID = r.pvUID /\ s.pvcUID = r.pvcUID

\* A request is Completed only with each of its Works recorded both applied
\* and detached: a Work whose deletion is still under way holds it back.
CompletedDetached ==
    \A q \in Request :
        mig[q] # None /\ mig[q].phase = "Completed" =>
            \A k \in Works(q) : mig[q].refs[k].applied /\ mig[q].refs[k].detached

\* Completed means that the volumes are on the target, bound, although a Work
\* that is missing counts as detached (cleanup.go:48): as long as nobody interferes,
\* a Work goes only after its object was there, and leaves it.
CompletedRetains ==
    faults = 0 =>
        \A q \in Request : mig[q] # None /\ mig[q].phase = "Completed" =>
            \A k \in Works(q) : member[k] # None /\ member[k].good

\* A request relies on no Work of another, however it came by its name: the
\* record of the other can have been deleted and its Works left behind, or be
\* deleted while a pass still creates them (migration.go:48, :109).
ReliesOnOwn ==
    \A q \in Request : mig[q] # None =>
        \A k \in Works(q) :
            LET ref == mig[q].refs[k]
            IN ref.applied /\ ~ref.detached /\ works[k] # None => works[k].owner = q

-----------------------------------------------------------------------------
(* What a step may never do.                                               *)

\* Evidence that a request was Ready is durable: a migration pass that started
\* from an older copy neither takes the phase back nor an applied mark or a
\* receipt (the optimistic lock of every status patch).
EvidenceKept(m, n) ==
    /\ n.phase \in {"Ready", "Completed"}
    /\ \A k \in Work :
        /\ n.refs[k].applied = m.refs[k].applied
        /\ m.refs[k].detached => n.refs[k].detached
        /\ n.refs[k].pvUID = m.refs[k].pvUID
        /\ n.refs[k].pvcUID = m.refs[k].pvcUID

ReadyDurable ==
    [][\A q \in Request :
         /\ mig[q] # None /\ mig'[q] # None
         /\ mig[q].phase \in {"Ready", "Completed"}
         => EvidenceKept(mig[q], mig'[q])]_vars

\* At the instant the API server accepts a deletion of the cleanup, the Work
\* is still the one that was applied for this request, preserves its member
\* object, shows valid evidence and matches the receipt, and every Work of the
\* request has been recorded applied (the preconditions of the Delete).
DeletionJustified(q, k) ==
    /\ works[k].label = q
    /\ works[k].preserve
    /\ WorkApplied(k, works[k])
    /\ mig[q] # None =>
        /\ \A j \in Works(q) : mig[q].refs[j].applied
        /\ Standalone(k) => StandaloneReceiptMatches(k, works[k], mig[q].refs[k])

DetachVerified ==
    [][\A k \in Work :
         /\ cpass # None /\ cpass' # cpass
         /\ works[k] # None /\ works'[k] # None
         /\ ~works[k].dying /\ works'[k].dying
         => DeletionJustified(cpass.req, k)]_vars

-----------------------------------------------------------------------------
(* The life of a request, as its status shows it.                          *)

StageOf(q) ==
    IF mig[q] = None THEN IF born[q] = 0 THEN "unfiled" ELSE "gone"
    ELSE IF mig[q].phase = "Ready" THEN "ready"
    ELSE IF mig[q].phase = "Completed" THEN "completed" ELSE "open"

LifeOf(q) ==
    [stage     |-> StageOf(q),
     plan      |-> IF mig[q] = None THEN None ELSE mig[q].hash,
     confirmed |-> IF mig[q] = None THEN {} ELSE {k \in Works(q) : mig[q].refs[k].applied},
     released  |-> IF mig[q] = None THEN {} ELSE {k \in Works(q) : mig[q].refs[k].detached}]

Lifecycle == INSTANCE RequestLifecycle
             WITH life <- [q \in Request |-> LifeOf(q)], Needs <- Works, Planned <- Legacy

\* Whatever the two reconcilers, their stale caches and their crashes do, each
\* write of a status is one step of a request's life: its plan stays, the claims
\* of two requests are not confirmed at a time, Ready means all of its Works
\* confirmed and Completed all of them released, in this order.
ImplementsLifecycle == Lifecycle!Spec

-----------------------------------------------------------------------------
(* Progress, under FairSpec.                                               *)

Completed(q) == mig[q] # None /\ mig[q].phase = "Completed"

\* Another request for the same claim was filed before, or in the same second.
Contended(q) ==
    \E p \in Request \ {q} :
        Overlap(p, q) /\ born[p] # 0 /\ born[p] <= born[q]

\* A request that comes first, by at least a second, for all of its claims is
\* eventually Completed, unless somebody interferes.
FirstCompletes ==
    \A q \in Admissible :
        mig[q] # None /\ ~Contended(q) ~> Completed(q) \/ Contended(q) \/ faults > 0

-----------------------------------------------------------------------------
(* What the documentation and the tests say, and the code does not keep.   *)

\* A Work is never created for a request that recorded it as detached
\* (migration.go:66, docs/validation.md:35).
NoRecreationAfterDetach ==
    [][\A k \in Work :
         /\ works[k] = None /\ works'[k] # None
         /\ mig[works'[k].owner] # None
         => ~mig[works'[k].owner].refs[k].detached]_vars

\* Overlapping requests have a winner: once one is filed, one is eventually
\* Completed (management_test.go:577).
OverlapHasWinner ==
    (\E q \in Request : mig[q] # None) ~> (\E q \in Request : Completed(q))

\* An Applied condition without a generation counts only for a Work of
\* generation 1 (docs/architecture.md:52): no Work of a later generation is
\* relied on by a Ready request with such a condition.
ZeroGenerationOnlyCreateOnce ==
    [][\A q \in Request :
         /\ mig[q] # None /\ mig[q].phase # "Ready"
         /\ mig'[q] # None /\ mig'[q].phase = "Ready"
         => \A k \in Works(q) :
              works[k] # None /\ works[k].cond = 0 => works[k].gen <= 1]_vars
=============================================================================
