------------------------- MODULE CleanupReconciler -------------------------
(***************************************************************************)
(* PVCleanupReconciler.Reconcile: deletes the Works of a Ready request,    *)
(* each after checking once more that it still carries the evidence, and   *)
(* completes the request when all of them are gone.  It has a worker of    *)
(* its own in the same manager, and no client for the member cluster.      *)
(***************************************************************************)
EXTENDS MemberCluster

VARIABLE cpass   \* the reconciliation under way, None between two of them

\* base, refs, i, all: as for the other reconciler; read: the copy of the Work
\* that the pass is about to delete.
CleanupPass ==
    [pc : {"work", "delete"}, req : Request, base : Migration,
     refs : [Work -> Ref], i : Nat \ {0}, all : BOOLEAN, read : WorkObject \cup {None}]

CleanupTypeOK == cpass \in CleanupPass \cup {None}

CleanupInit == cpass = None

externalToC == <<seen, born, births, memberVars, gateVars, boundVars>>

-----------------------------------------------------------------------------
\* The request is read from the cache; only a Ready one is cleaned up.
CStart(q) ==
    /\ cpass = None
    /\ seen[q] # None
    /\ seen[q].phase = "Ready"
    /\ seen[q].hash # None
    /\ cpass' = [pc |-> "work", req |-> q, base |-> seen[q], refs |-> seen[q].refs,
                 i |-> 1, all |-> TRUE, read |-> None]
    /\ UNCHANGED storeVars

AtCleanup == cpass # None /\ cpass.pc = "work" /\ cpass.i <= Len(Plan[cpass.req])

CName == Plan[cpass.req][cpass.i]
CRef  == cpass.refs[CName]
CWork == works[CName]

CSkip ==
    /\ AtCleanup
    /\ CRef.applied
    /\ CRef.detached
    /\ cpass' = [cpass EXCEPT !.i = @ + 1]
    /\ UNCHANGED storeVars

\* An applied Work that is gone counts as detached.
CDetach ==
    /\ AtCleanup
    /\ CRef.applied
    /\ ~CRef.detached
    /\ CWork = None
    /\ cpass' = [cpass EXCEPT
                   !.i = @ + 1,
                   !.refs = [@ EXCEPT ![CName] = [CRef EXCEPT !.detached = TRUE]]]
    /\ UNCHANGED storeVars

\* The Work is the one that was applied, untouched since.
CleanupOwned ==
    /\ CWork.label = cpass.req
    /\ CWork.preserve
    /\ WorkGenerationAllowed(CWork, CRef)

\* Mutant: a Work on its way out counts as gone.
CAwaitLoose ==
    /\ AtCleanup
    /\ CRef.applied
    /\ ~CRef.detached
    /\ CWork # None
    /\ CleanupOwned
    /\ CWork.dying
    /\ cpass' = [cpass EXCEPT !.i = @ + 1]
    /\ UNCHANGED storeVars

\* Its deletion was accepted by an earlier pass.
CAwait ==
    /\ AtCleanup
    /\ CRef.applied
    /\ ~CRef.detached
    /\ CWork # None
    /\ CleanupOwned
    /\ CWork.dying
    /\ cpass' = [cpass EXCEPT !.i = @ + 1, !.all = FALSE]
    /\ UNCHANGED storeVars

\* A repaired or a standalone Work is compared with the plan rebuilt from the
\* snapshot of now.
PlanStands ==
    CRef.repairUID # 0 \/ Standalone(CName) =>
        /\ snapshot = cpass.base.hash
        /\ ValidateWork(CWork, cpass.req, snapshot, CRef)

\* Mutant: a standalone Work is not compared with its receipt.
EvidenceUnreceipted == WorkApplied(CName, CWork) /\ PlanStands

\* The Work still shows what made the request Ready.
EvidenceStands ==
    /\ WorkApplied(CName, CWork)
    /\ Standalone(CName) => StandaloneReceiptMatches(CName, CWork, CRef)
    /\ PlanStands

CApprove ==
    /\ AtCleanup
    /\ CRef.applied
    /\ ~CRef.detached
    /\ CWork # None
    /\ CleanupOwned
    /\ ~CWork.dying
    /\ EvidenceStands
    /\ cpass' = [cpass EXCEPT !.pc = "delete", !.read = CWork, !.all = FALSE]
    /\ UNCHANGED storeVars

CRefuse ==
    /\ AtCleanup
    /\ \/ ~CRef.applied
       \/ /\ ~CRef.detached
          /\ CWork # None
          /\ ~CleanupOwned \/ (~CWork.dying /\ ~EvidenceStands)
    /\ cpass' = None
    /\ UNCHANGED storeVars

-----------------------------------------------------------------------------
\* Mutant: a precondition on the UID alone.
UnchangedUID(w, read) == w.uid = read.uid

\* Delete with preconditions on the UID and the resourceVersion read.  A Work
\* that is gone is no error; one that differs is a conflict.
Unchanged(w, read) == w = read

CDelete ==
    /\ cpass # None
    /\ cpass.pc = "delete"
    /\ \/ /\ CWork = None
          /\ UNCHANGED works
          /\ cpass' = [cpass EXCEPT !.pc = "work", !.i = @ + 1, !.read = None]
       \/ /\ CWork # None
          /\ Unchanged(CWork, cpass.read)
          /\ works' = [works EXCEPT ![CName] = [CWork EXCEPT !.dying = TRUE]]
          /\ cpass' = [cpass EXCEPT !.pc = "work", !.i = @ + 1, !.read = None]
       \/ /\ CWork # None
          /\ ~Unchanged(CWork, cpass.read)
          /\ UNCHANGED works
          /\ cpass' = None
    /\ UNCHANGED <<mig, feed, externalToC>>

\* The request is Completed when this pass found every Work detached.
CConclude ==
    /\ cpass # None
    /\ cpass.pc = "work"
    /\ cpass.i > Len(Plan[cpass.req])
    /\ PatchStatus(cpass.req, cpass.base,
                   [cpass.base EXCEPT !.refs = cpass.refs,
                                      !.phase = IF cpass.all THEN "Completed" ELSE @])
    /\ cpass' = None
    /\ UNCHANGED <<works, externalToC>>

-----------------------------------------------------------------------------
CleanupStep ==
    \/ CSkip \/ CDetach \/ CAwait \/ CApprove \/ CRefuse
    \/ CDelete \/ CConclude

\* A call to the API server fails: the pass ends, what it did stays done.
CFail ==
    /\ cpass # None
    /\ cpass' = None
    /\ Interrupt
    /\ UNCHANGED <<recordVars, workVars, memberVars, gateVars>>
=============================================================================
