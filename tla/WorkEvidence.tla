---------------------------- MODULE WorkEvidence ----------------------------
(***************************************************************************)
(* What the controllers read out of a Karmada Work: the durable records,   *)
(* and the predicates that decide whether a Work is the planned one and    *)
(* whether its status is evidence that the volume reached the member.      *)
(* No state lives here; ControlPlane declares the variables.               *)
(***************************************************************************)
EXTENDS Naturals, Sequences, Functions

CONSTANTS
    Request,   \* PVMigration requests, each standing for one UID
    Work,      \* names of Works in the execution namespace of the target
    Snapshot,  \* source snapshots that BuildWorks accepts (see PlanOf)
    Plan,      \* Plan[q]: the Works BuildWorks returns for q, in order
    PvcOf,     \* standalone pairs: PV Work |-> its "-pvc" Work
    None       \* an absent object, plan, label or status

ASSUME PlanAssumption ==
    /\ Plan \in [Request -> Seq(Work)]
    /\ \A q \in Request : Plan[q] # <<>>
    /\ IsInjective(PvcOf)
    /\ DOMAIN PvcOf \subseteq Work
    /\ \A pv \in DOMAIN PvcOf : PvcOf[pv] \in Work \ DOMAIN PvcOf

\* A mapping is one-to-one (migration.go:377), and a Work is named after its target PVC
\* and its kind, so that no Work comes twice in a plan.
ASSUME PlanOneToOne == \A q \in Request : IsInjective(Plan[q])

ASSUME NoneAssumption ==
    None \notin Request \cup Work \cup Snapshot \cup Nat

-----------------------------------------------------------------------------
Phase == {"New", "Pending", "Preparing", "Ready", "Completed"}

\* One entry of status.works.  UID 0 is the empty string.
Ref == [applied : BOOLEAN, detached : BOOLEAN,
        repairUID : Nat, pvUID : Nat, pvcUID : Nat]

NewRef == [applied |-> FALSE, detached |-> FALSE,
           repairUID |-> 0, pvUID |-> 0, pvcUID |-> 0]

\* The status of a PVMigration.  status.works is empty iff hash is None, so
\* the references are kept for every name, in their initial value.
Migration == [phase : Phase, hash : Snapshot \cup {None}, refs : [Work -> Ref]]

NewMigration == [phase |-> "New", hash |-> None, refs |-> [k \in Work |-> NewRef]]

\* The member object as a Work's status.manifestStatuses shows it.
Reflection == [uid : Nat, peer : Nat, good : BOOLEAN, owner : Request]

\* A Work: owner and plan are what its manifest was built from, label is the
\* owner label on the Work itself, routed says the manifest carries the two
\* work.karmada.io annotations, cond is the observedGeneration of
\* Applied=True (0 when absent) and None without that condition.
WorkObject == [uid : Nat, gen : Nat, owner : Request, label : Request \cup {None},
               plan : Snapshot, preserve : BOOLEAN, routed : BOOLEAN, dying : BOOLEAN,
               cond : Nat \cup {None}, status : Reflection \cup {None}]

NewWork(q, plan, uid, routed) ==
    [uid |-> uid, gen |-> 1, owner |-> q, label |-> q, plan |-> plan,
     preserve |-> TRUE, routed |-> routed, dying |-> FALSE,
     cond |-> None, status |-> None]

-----------------------------------------------------------------------------
Works(q) == Range(Plan[q])

Standalone(k) == k \in DOMAIN PvcOf \cup Range(PvcOf)

\* The pair label of a standalone Work is the name of its PV Work.
PairPV(k) == IF k \in DOMAIN PvcOf THEN k ELSE CHOOSE pv \in DOMAIN PvcOf : PvcOf[pv] = k

\* comparableWorkSpec(actual) equals that of the Work planned for q.
SpecMatches(w, q, plan) ==
    w.preserve /\ w.routed /\ w.owner = q /\ w.plan = plan

\* The same, for the plan of a version that wrote no routing annotations.
LegacySpecMatches(w, q, plan) ==
    w.preserve /\ ~w.routed /\ w.owner = q /\ w.plan = plan

WorkGenerationAllowed(w, ref) ==
    IF ref.repairUID # 0
    THEN ref.repairUID = w.uid /\ w.gen = 2
    ELSE w.gen <= 1

\* Mutant: a Work found under the name is adopted, whoever made it.
ValidateWorkAdopted(w, q, plan, ref) ==
    w.preserve /\ w.routed /\ w.plan = plan /\ WorkGenerationAllowed(w, ref)

ValidateWork(w, q, plan, ref) ==
    /\ w.label = q
    /\ SpecMatches(w, q, plan)
    /\ WorkGenerationAllowed(w, ref)

\* Mutant: the normal generation gate, which a pending intent fails.
RepairableNormalGate(w, q, plan, ref) ==
    /\ w.gen = 1
    /\ ~ref.applied /\ ~ref.detached
    /\ w.label = q
    /\ LegacySpecMatches(w, q, plan)
    /\ WorkGenerationAllowed(w, ref)
    /\ w.status = None

\* A legacy Work that ensureWorkRouting may repair: untouched, unreflected
\* and not yet relied on.
Repairable(w, q, plan, ref) ==
    /\ w.gen = 1
    /\ ~ref.applied /\ ~ref.detached
    /\ w.label = q
    /\ LegacySpecMatches(w, q, plan)
    /\ w.status = None

\* The reflection of one half of a standalone pair: Bound, and labelled with
\* the request that owns the Work.
StandaloneStatus(w) ==
    /\ w.status # None
    /\ w.status.good
    /\ w.label # None
    /\ w.status.owner = w.label

ConditionCurrent(w) == w.cond # None /\ w.cond \in {0, w.gen}

\* Mutant: what the target reflects is not looked at.
WorkAppliedUnreflected(k, w) == ~w.dying /\ ConditionCurrent(w)

WorkApplied(k, w) ==
    /\ ~w.dying
    /\ ConditionCurrent(w)
    /\ IF Standalone(k) THEN StandaloneStatus(w)
                        ELSE w.status # None /\ w.status.good

\* Mutant: two Bound phases are taken for one binding.
BothBound(pv, pvc) == TRUE

\* The PV is bound to the very PVC the other Work reflects.
ReciprocallyBound(pv, pvc) == pv.status.peer = pvc.status.uid

SplitPairApplied(k, pv, pvc) ==
    /\ pv # None /\ pvc # None
    /\ pv.label = pvc.label
    /\ WorkApplied(k, pv) /\ WorkApplied(PvcOf[k], pvc)
    /\ ReciprocallyBound(pv, pvc)

StandaloneReceiptMatches(k, w, ref) ==
    /\ StandaloneStatus(w)
    /\ ref.pvUID # 0 /\ ref.pvcUID # 0
    /\ IF k \in DOMAIN PvcOf
       THEN w.status.uid = ref.pvUID /\ w.status.peer = ref.pvcUID
       ELSE w.status.uid = ref.pvcUID
=============================================================================
