------------------------ MODULE MigrationReconciler ------------------------
(***************************************************************************)
(* PVMigrationReconciler.Reconcile: plans a request, creates its Works,    *)
(* repairs the routing of legacy ones and records when every one of them   *)
(* is applied.  One worker runs it, one call to the API server per action. *)
(***************************************************************************)
EXTENDS MemberCluster

VARIABLE rpass   \* the reconciliation under way, None between two of them

\* base: the cached request it started from; plan: the snapshot BuildWorks
\* used; refs: status.works as the pass has changed it in memory; i: the
\* position in the plan; all: nothing is missing so far; read: the Works it
\* keeps a copy of.
MigrationPass ==
    [pc : {"gate", "work", "intent", "repair"},
     req : Request, base : Migration, plan : Snapshot \cup {None},
     refs : [Work -> Ref], i : Nat \ {0}, all : BOOLEAN,
     read : [Work -> WorkObject \cup {None}]]

\* Beyond the gate a pass has built its plan.
MigrationTypeOK ==
    /\ rpass \in MigrationPass \cup {None}
    /\ rpass # None /\ rpass.pc # "gate" => rpass.plan \in Snapshot

MigrationInit == rpass = None

externalToR == <<seen, born, memberVars, gateVars, boundVars>>

-----------------------------------------------------------------------------
\* The request is read from the cache; nothing is done for a finished one.
RStart(q) ==
    /\ rpass = None
    /\ seen[q] # None
    /\ seen[q].phase \notin {"Ready", "Completed"}
    /\ rpass' = [pc |-> "gate", req |-> q, base |-> seen[q], plan |-> None,
                 refs |-> seen[q].refs, i |-> 1, all |-> TRUE,
                 read |-> [k \in Work |-> None]]
    /\ UNCHANGED storeVars

-----------------------------------------------------------------------------
(* validateBinding                                                         *)

\* Mutant: the order of the UIDs alone.
OlderByUID(p, q) == Rank[p] < Rank[q]

Older(p, q) == born[p] < born[q] \/ (born[p] = born[q] /\ Rank[p] < Rank[q])

\* The peer relies on its Works, or has let go of them.
Reserved(m) ==
    \/ m.phase \in {"Ready", "Completed"}
    \/ \E k \in Work : m.refs[k].applied \/ m.refs[k].detached

\* A Work is named after its target PVC: requests with one in common want
\* the same claim.
Overlap(p, q) == Works(p) \cap Works(q) # {}

\* Mutant: only an older peer blocks.
BlocksOlder(p, q) ==
    /\ p # q
    /\ seen[p] # None
    /\ Overlap(p, q)
    /\ Older(p, q)

Blocks(p, q) ==
    /\ p # q
    /\ seen[p] # None
    /\ Overlap(p, q)
    /\ Reserved(seen[p]) \/ Older(p, q)

BindingAllows(q) ==
    /\ binding.matches
    /\ binding.suspended
    /\ binding.target # "split"
    /\ binding.target = "alone" => binding.hold = q

ValidateBinding(q) ==
    /\ q \in Admissible
    /\ BindingAllows(q)
    /\ \A p \in Request : ~Blocks(p, q)

-----------------------------------------------------------------------------
AtGate == rpass # None /\ rpass.pc = "gate"

\* BuildWorks succeeds, and the plan is the recorded one.
PlanBuilt == ValidateBinding(rpass.req) /\ snapshot # None

\* Mutant: no comparison with the recorded hash.
PlanMatchesAny(hash, plan) == TRUE

PlanMatches(hash, plan) == hash = plan

\* The request or its plan is refused, or an API call of validateBinding fails.
GateCloses ==
    \/ /\ PlanBuilt => rpass.base.hash # None /\ ~PlanMatches(rpass.base.hash, snapshot)
       /\ UNCHANGED boundVars
    \/ Interrupt

\* setPhase: the request waits, and nothing else of its status changes.
RPend ==
    /\ AtGate
    /\ GateCloses
    /\ PatchStatus(rpass.req, rpass.base, [rpass.base EXCEPT !.phase = "Pending"])
    /\ rpass' = None
    /\ UNCHANGED <<seen, born, memberVars, gateVars, workVars>>

\* The identities of the plan are recorded before any Work is created.
RRecordPlan ==
    /\ AtGate
    /\ PlanBuilt
    /\ rpass.base.hash = None
    /\ PatchStatus(rpass.req, rpass.base,
                   [rpass.base EXCEPT !.hash = snapshot, !.phase = "Preparing"])
    /\ rpass' = None
    /\ UNCHANGED <<externalToR, workVars>>

\* Mutant: the plan that was built is not kept for the pass.
RProceedBlind ==
    /\ AtGate
    /\ PlanBuilt
    /\ rpass.base.hash # None
    /\ PlanMatches(rpass.base.hash, snapshot)
    /\ rpass' = [rpass EXCEPT !.pc = "work"]
    /\ UNCHANGED storeVars

\* The recorded plan stands: go through its Works.
RProceed ==
    /\ AtGate
    /\ PlanBuilt
    /\ rpass.base.hash # None
    /\ PlanMatches(rpass.base.hash, snapshot)
    /\ rpass' = [rpass EXCEPT !.pc = "work", !.plan = snapshot]
    /\ UNCHANGED storeVars
-----------------------------------------------------------------------------
AtWork == rpass # None /\ rpass.pc = "work" /\ rpass.i <= Len(Plan[rpass.req])

RName == Plan[rpass.req][rpass.i]
RRef  == rpass.refs[RName]
RWork == works[RName]

\* A detached Work is over.
RSkip ==
    /\ AtWork
    /\ RRef.detached
    /\ rpass' = [rpass EXCEPT !.i = @ + 1]
    /\ UNCHANGED storeVars

\* An absent Work that nothing relies on is created.
RCreate ==
    /\ AtWork
    /\ ~RRef.detached /\ ~RRef.applied /\ RRef.repairUID = 0
    /\ RWork = None
    /\ works' = [works EXCEPT ![RName] =
                   NewWork(rpass.req, rpass.plan, births[RName] + 1, TRUE)]
    /\ births' = [births EXCEPT ![RName] = @ + 1]
    /\ rpass' = [rpass EXCEPT !.i = @ + 1, !.all = FALSE]
    /\ UNCHANGED <<mig, feed, externalToR>>

\* The Work is the planned one: its status tells whether it is applied.
Acceptable ==
    /\ RWork # None
    /\ ~RWork.dying
    /\ ValidateWork(RWork, rpass.req, rpass.plan, RRef)

\* Mutant: the Work is not kept for the receipt of its pair.
RObserveForgetful ==
    /\ AtWork
    /\ ~RRef.detached
    /\ Acceptable
    /\ rpass' = [rpass EXCEPT
                   !.i = @ + 1,
                   !.refs = [@ EXCEPT ![RName] =
                               [RRef EXCEPT !.applied = WorkApplied(RName, RWork)]],
                   !.all = @ /\ WorkApplied(RName, RWork)]
    /\ UNCHANGED storeVars

RObserve ==
    /\ AtWork
    /\ ~RRef.detached
    /\ Acceptable
    /\ rpass' = [rpass EXCEPT
                   !.i = @ + 1,
                   !.refs = [@ EXCEPT ![RName] =
                               [RRef EXCEPT !.applied = WorkApplied(RName, RWork)]],
                   !.all = @ /\ WorkApplied(RName, RWork),
                   !.read = IF Standalone(RName) THEN [@ EXCEPT ![RName] = RWork] ELSE @]
    /\ UNCHANGED storeVars
-----------------------------------------------------------------------------
(* ensureWorkRouting                                                       *)

NeedsRepair ==
    /\ RWork # None
    /\ ~RWork.dying
    /\ Repairable(RWork, rpass.req, rpass.plan, RRef)

\* Mutant: the repair does not wait for the intent to be recorded.
RIntendAtOnce ==
    /\ AtWork
    /\ NeedsRepair
    /\ RRef.repairUID = 0
    /\ rpass' = [rpass EXCEPT !.pc = "repair", !.read = [@ EXCEPT ![RName] = RWork]]
    /\ UNCHANGED storeVars

\* The intent, bound to the UID of the Work, comes first ...
RIntend ==
    /\ AtWork
    /\ NeedsRepair
    /\ RRef.repairUID = 0
    /\ rpass' = [rpass EXCEPT !.pc = "intent",
                              !.refs = [@ EXCEPT ![RName] = [RRef EXCEPT !.repairUID = RWork.uid]]]
    /\ UNCHANGED storeVars

\* ... in a status patch that also carries what the pass has observed so far.
RRecordIntent ==
    /\ rpass # None
    /\ rpass.pc = "intent"
    /\ PatchStatus(rpass.req, rpass.base, [rpass.base EXCEPT !.refs = rpass.refs])
    /\ rpass' = None
    /\ UNCHANGED <<externalToR, workVars>>

\* A later pass, which read the intent back, makes the one permitted edit.
RPrepareRepair ==
    /\ AtWork
    /\ NeedsRepair
    /\ RRef.repairUID = RWork.uid
    /\ rpass' = [rpass EXCEPT !.pc = "repair", !.read = [@ EXCEPT ![RName] = RWork]]
    /\ UNCHANGED storeVars

RRepair ==
    /\ rpass # None
    /\ rpass.pc = "repair"
    /\ IF RWork # None /\ RWork = rpass.read[RName]
       THEN works' = [works EXCEPT ![RName] = [RWork EXCEPT !.routed = TRUE, !.gen = RWork.gen + 1]]
       ELSE UNCHANGED works
    /\ rpass' = None
    /\ UNCHANGED <<mig, feed, births, externalToR>>

-----------------------------------------------------------------------------
\* Anything else found under the name ends the pass with an error: a Work
\* that disappeared, is being deleted, belongs to somebody else or changed.
RRefuse ==
    /\ AtWork
    /\ ~RRef.detached
    /\ IF RWork = None
       THEN RRef.applied \/ RRef.repairUID # 0
       ELSE /\ ~Acceptable
            /\ ~(NeedsRepair /\ RRef.repairUID \in {0, RWork.uid})
    /\ rpass' = None
    /\ UNCHANGED storeVars

-----------------------------------------------------------------------------
\* The reciprocal receipt of a standalone Work, or no receipt.
PairApplied(k) ==
    LET pv == PairPV(k) IN SplitPairApplied(pv, rpass.read[pv], rpass.read[PvcOf[pv]])

Receipted(k) ==
    LET pv == PairPV(k)
        ok == PairApplied(k)
    IN [rpass.refs[k] EXCEPT
          !.applied = ok,
          !.pvUID  = IF ok THEN rpass.read[pv].status.uid ELSE 0,
          !.pvcUID = IF ok THEN rpass.read[PvcOf[pv]].status.uid ELSE 0]

\* The standalone Works whose receipt this pass takes.
PairWorks == {k \in Works(rpass.req) : Standalone(k) /\ ~rpass.refs[k].detached}

RConclude ==
    /\ rpass # None
    /\ rpass.pc = "work"
    /\ rpass.i > Len(Plan[rpass.req])
    /\ LET refs  == [k \in Work |-> IF k \in PairWorks THEN Receipted(k) ELSE rpass.refs[k]]
           ready == rpass.all /\ \A k \in PairWorks : PairApplied(k)
       IN PatchStatus(rpass.req, rpass.base,
                      [rpass.base EXCEPT !.refs = refs,
                                         !.phase = IF ready THEN "Ready" ELSE "Preparing"])
    /\ rpass' = None
    /\ UNCHANGED <<externalToR, workVars>>

-----------------------------------------------------------------------------
MigrationStep ==
    \/ RPend \/ RRecordPlan \/ RProceed
    \/ RSkip \/ RCreate \/ RObserve \/ RRefuse
    \/ RIntend \/ RRecordIntent \/ RPrepareRepair \/ RRepair
    \/ RConclude

\* A call to the API server fails: the pass ends, what it did stays done.
RFail ==
    /\ rpass # None
    /\ rpass' = None
    /\ Interrupt
    /\ UNCHANGED <<recordVars, workVars, memberVars, gateVars>>
=============================================================================
