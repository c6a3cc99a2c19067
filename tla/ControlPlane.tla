---------------------------- MODULE ControlPlane ----------------------------
(***************************************************************************)
(* What the two management reconcilers share: the PVMigration records and  *)
(* the informer cache that trails them, the Works in the target's          *)
(* execution namespace, the ResourceBinding and the source snapshot; and   *)
(* what everybody else does to them: users, operators, the Karmada         *)
(* controllers and the member cluster.                                     *)
(*                                                                         *)
(* A request is written only by compare-and-set on the copy that was read  *)
(* (client.MergeFromWithOptimisticLock), so the cache is never more than   *)
(* one write behind for a request; across requests the watch delivers in   *)
(* the order of the writes.                                                *)
(***************************************************************************)
EXTENDS WorkEvidence

CONSTANTS
    Rank,        \* order of the request UIDs, which breaks ties of age
    Admissible,  \* requests whose spec passes the static checks
    Legacy,      \* requests planned and staged by a version without routing
    Bindings,    \* the states of the ResourceBinding to consider
    MaxTime,       \* bound: creation timestamps are 1..MaxTime
    MaxFaults,     \* bound: disturbances by others in a behaviour
    MaxInterrupts  \* bound: failed calls and restarts of the manager

ASSUME OrderAssumption ==
    /\ Rank \in [Request -> Nat]
    /\ IsInjective(Rank)
    /\ Admissible \subseteq Request
    /\ Legacy \subseteq Request

\* matches: the kind, version, name and workload UID checks of validateBinding;
\* target: how spec.clusters names the target; hold: the request that the
\* hold annotations and their RestoreRequest designate.
Binding == [matches : BOOLEAN, suspended : BOOLEAN,
            target : {"absent", "alone", "split"}, hold : Request \cup {None}]

ASSUME BoundsAssumption ==
    /\ Bindings \subseteq Binding
    /\ MaxTime \in Nat \ {0}
    /\ MaxFaults \in Nat
    /\ MaxInterrupts \in Nat

VARIABLES
    mig,       \* the PVMigration of each request, None when there is none
    seen,      \* the same in the informer cache of the manager
    feed,      \* requests whose last write the watch has not delivered
    born,      \* creation timestamp of each request, 0 before it is filed
    works,     \* the Works
    births,    \* how many Works each name has had: the last UID given out
    member,    \* the objects on the target cluster, by the Work they come from
    minted,    \* how many UIDs the target cluster gave each of them
    bonds,     \* history: every <<PV, PVC>> pair of UIDs the member ever bound
    snapshot,  \* the source snapshot in the cached PVMetadata
    binding,   \* the ResourceBinding
    faults,    \* disturbances so far
    interrupts \* failed calls and restarts so far

recordVars == <<mig, seen, feed, born>>
workVars   == <<works, births>>
memberVars == <<member, minted, bonds>>
gateVars   == <<snapshot, binding>>
boundVars  == <<faults, interrupts>>
storeVars  == <<recordVars, workVars, memberVars, gateVars, boundVars>>

MemberObject == [uid : Nat, peer : Nat, good : BOOLEAN, owner : Request, routed : BOOLEAN]

\* None is no record, Work or object.
ASSUME NoneIsNoRecord == None \notin Migration \cup WorkObject \cup MemberObject

StoreTypeOK ==
    /\ mig \in [Request -> Migration \cup {None}]
    /\ seen \in [Request -> Migration \cup {None}]
    /\ feed \in Seq(Request)
    /\ born \in [Request -> 0..MaxTime]
    /\ works \in [Work -> WorkObject \cup {None}]
    /\ births \in [Work -> Nat]
    /\ member \in [Work -> MemberObject \cup {None}]
    /\ minted \in [Work -> Nat]
    /\ bonds \in SUBSET (Work \X Nat \X Nat)
    /\ snapshot \in Snapshot \cup {None}
    /\ binding \in Bindings
    /\ faults \in 0..MaxFaults
    /\ interrupts \in 0..MaxInterrupts

\* A legacy request was planned, and its Works created, before the upgrade.
LegacyMigration(plan) == [NewMigration EXCEPT !.phase = "Preparing", !.hash = plan]

StoreInit ==
    /\ snapshot \in Snapshot \cup {None}
    /\ Legacy # {} => snapshot # None
    /\ mig = [q \in Request |-> IF q \in Legacy THEN LegacyMigration(snapshot) ELSE None]
    /\ seen = mig
    /\ feed = <<>>
    /\ born = [q \in Request |-> IF q \in Legacy THEN 1 ELSE 0]
    /\ works = [k \in Work |->
                  IF \E q \in Legacy : k \in Works(q)
                  THEN NewWork(CHOOSE q \in Legacy : k \in Works(q), snapshot, 1, FALSE)
                  ELSE None]
    /\ births = [k \in Work |-> IF works[k] = None THEN 0 ELSE 1]
    /\ member = [k \in Work |-> None]
    /\ minted = [k \in Work |-> 0]
    /\ bonds = {}
    /\ binding \in Bindings
    /\ faults = 0
    /\ interrupts = 0

-----------------------------------------------------------------------------
(* The API server, as the reconcilers use it.                              *)

\* Mutant: a patch without the optimistic lock.
PatchStatusUnlocked(q, base, new) ==
    IF new # base /\ mig[q] # None
    THEN /\ mig' = [mig EXCEPT ![q] = new]
         /\ feed' = Append(feed, q)
    ELSE UNCHANGED <<mig, feed>>

\* Patch of the status with an optimistic lock on the copy that was read.
\* Nothing is sent without a change; a conflict leaves the record alone.
PatchStatus(q, base, new) ==
    IF new # base /\ mig[q] = base
    THEN /\ mig' = [mig EXCEPT ![q] = new]
         /\ feed' = Append(feed, q)
    ELSE UNCHANGED <<mig, feed>>

\* The watch delivers the oldest undelivered write to the informer cache.
Deliver ==
    /\ feed # <<>>
    /\ seen' = [seen EXCEPT ![Head(feed)] = mig[Head(feed)]]
    /\ feed' = Tail(feed)
    /\ UNCHANGED <<mig, born, workVars, memberVars, gateVars, boundVars>>

\* A call to the API server fails or the manager restarts.
Interrupt ==
    /\ interrupts < MaxInterrupts
    /\ interrupts' = interrupts + 1
    /\ UNCHANGED faults
-----------------------------------------------------------------------------
(* Users and operators.                                                    *)

Disturb == faults < MaxFaults /\ faults' = faults + 1 /\ UNCHANGED interrupts

\* A user files a request.  Timestamps have a resolution of one second, so
\* several requests can have the same one.
FileRequest(q) ==
    /\ born[q] = 0
    /\ \E t \in 1..MaxTime :
        /\ \A p \in Request : born[p] <= t
        /\ born' = [born EXCEPT ![q] = t]
    /\ mig' = [mig EXCEPT ![q] = NewMigration]
    /\ feed' = Append(feed, q)
    /\ UNCHANGED <<seen, workVars, memberVars, gateVars, boundVars>>

\* A user deletes the record of a request.  Its Works stay.
DeleteRequest(q) ==
    /\ mig[q] # None
    /\ mig' = [mig EXCEPT ![q] = None]
    /\ feed' = Append(feed, q)
    /\ Disturb
    /\ UNCHANGED <<seen, born, workVars, memberVars, gateVars>>

\* Somebody edits the spec of a Work, here the field that keeps the member
\* object when the Work goes.
EditWork(k) ==
    /\ works[k] # None
    /\ works[k].preserve
    /\ works' = [works EXCEPT ![k] = [@ EXCEPT !.preserve = FALSE, !.gen = works[k].gen + 1]]
    /\ Disturb
    /\ UNCHANGED <<recordVars, births, memberVars, gateVars>>

\* Somebody drops the owner label of a Work, which does not move its generation.
RelabelWork(k) ==
    /\ works[k] # None
    /\ works[k].label # None
    /\ works' = [works EXCEPT ![k] = [@ EXCEPT !.label = None]]
    /\ Disturb
    /\ UNCHANGED <<recordVars, births, memberVars, gateVars>>

\* Somebody else than the cleanup deletes a Work.
ForeignDelete(k) ==
    /\ works[k] # None
    /\ ~works[k].dying
    /\ works' = [works EXCEPT ![k] = [@ EXCEPT !.dying = TRUE]]
    /\ Disturb
    /\ UNCHANGED <<recordVars, births, memberVars, gateVars>>

\* The first usable snapshot of the source arrives in the PVMetadata.
SnapshotArrives ==
    /\ snapshot = None
    /\ snapshot' \in Snapshot
    /\ UNCHANGED <<recordVars, workVars, memberVars, binding, boundVars>>

\* The source snapshot changes, or becomes unusable.
SnapshotChanges ==
    /\ snapshot # None
    /\ snapshot' \in (Snapshot \cup {None}) \ {snapshot}
    /\ Disturb
    /\ UNCHANGED <<recordVars, workVars, memberVars, binding>>

\* An operator, or the scheduler, changes the ResourceBinding.
BindingChanges ==
    /\ binding' \in Bindings \ {binding}
    /\ Disturb
    /\ UNCHANGED <<recordVars, workVars, memberVars, snapshot>>
=============================================================================
