---------------------------- MODULE SafetyProofs ----------------------------
(***************************************************************************)
(* The safety properties of Management that are proved: a Work follows the *)
(* recorded plan, the evidence of a Ready request is durable, and a        *)
(* Completed request has let go of every Work.  Each follows from an       *)
(* inductive invariant about the copies that the two passes hold.          *)
(***************************************************************************)
EXTENDS ManagementProofs

-----------------------------------------------------------------------------
(* The invariants.                                                         *)

\* A copy of a request with a plan has the plan of the request.
HashAgrees(m, q) == m.hash # None /\ mig[q] # None => mig[q].hash = m.hash

CacheFollows == \A q \in Request : seen[q] # None => HashAgrees(seen[q], q)

MigrationPassFollows ==
    rpass # None =>
        /\ rpass.base # None
        /\ HashAgrees(rpass.base, rpass.req)
        /\ rpass.pc # "gate" => rpass.plan = rpass.base.hash

CleanupPassFollows ==
    cpass # None =>
        /\ cpass.base # None
        /\ HashAgrees(cpass.base, cpass.req)

\* Nothing stands for a request before it is filed, so that the one record it
\* gets is the first.
NothingBeforeFiling ==
    \A q \in Request : born[q] = 0 =>
        /\ mig[q] = None /\ seen[q] = None
        /\ rpass # None => rpass.req # q
        /\ cpass # None => cpass.req # q
        /\ \A k \in Work : works[k] # None => works[k].owner # q

PlanInv ==
    /\ WorksFollowPlan
    /\ CacheFollows
    /\ MigrationPassFollows
    /\ CleanupPassFollows
    /\ NothingBeforeFiling

\* A migration pass starts from a request that was not Ready, a cleanup pass
\* from one that was, and the latter only adds detached marks.
RefKept(r, s) ==
    /\ s.applied = r.applied
    /\ r.detached => s.detached
    /\ s.pvUID = r.pvUID
    /\ s.pvcUID = r.pvcUID

PassesApart ==
    /\ rpass # None => rpass.base.phase \notin {"Ready", "Completed"}
    /\ cpass # None =>
        /\ cpass.base.phase = "Ready"
        /\ \A k \in Work : RefKept(cpass.base.refs[k], cpass.refs[k])

\* A cleanup pass that misses nothing so far has found every Work it passed
\* applied, and gone or already recorded as detached.
CleanupThorough ==
    cpass # None /\ cpass.all =>
        /\ cpass.pc = "work"
        /\ \A j \in 1..(cpass.i - 1) :
             LET r == cpass.refs[Plan[cpass.req][j]] IN
             j <= Len(Plan[cpass.req]) => r.applied /\ r.detached

-----------------------------------------------------------------------------
(* What a step does to a Work, to a record and to the copies of it.        *)

\* A Work goes, keeps its manifest, or is created by a migration pass.
Kept(w, v) == v.owner = w.owner /\ v.plan = w.plan /\ (v.preserve => w.preserve)

WorkStep(k) ==
    \/ works'[k] = None
    \/ works[k] # None /\ Kept(works[k], works'[k])
    \/ /\ works[k] = None /\ rpass # None /\ rpass.pc # "gate"
       /\ works'[k].owner = rpass.req
       /\ works'[k].plan = rpass.plan

\* No change of a Work touches what its manifest was built from.
LEMMA ChangesKeep ==
  ASSUME NEW w \in WorkObject
  PROVE  /\ Kept(w, w)
         /\ Kept(w, [w EXCEPT !.dying = TRUE])
         /\ Kept(w, [w EXCEPT !.label = None])
         /\ \A g : Kept(w, [w EXCEPT !.preserve = FALSE, !.gen = g])
         /\ \A g : Kept(w, [w EXCEPT !.routed = TRUE, !.gen = g])
         /\ \A g : Kept(w, [w EXCEPT !.cond = g])
         /\ \A s : Kept(w, [w EXCEPT !.status = s])
  BY Zenon DEF Kept, WorkObject

\* Works change one at a time.
LEMMA OneWorkStep ==
  ASSUME StoreTypeOK, NEW k, NEW w, works' = [works EXCEPT ![k] = w],
         k \in Work => w = None \/ (works[k] # None /\ Kept(works[k], w))
  PROVE  \A j \in Work : WorkStep(j)
  <1> SUFFICES ASSUME NEW j \in Work PROVE WorkStep(j)
    OBVIOUS
  <1>1. CASE j = k
    BY <1>1 DEF WorkStep, StoreTypeOK
  <1>2. CASE j # k
    <2>1. works'[j] = works[j]
      BY <1>2 DEF StoreTypeOK
    <2>2. QED
      BY <2>1 DEF WorkStep, Kept
  <1>3. QED
    BY <1>1, <1>2

\* Every step changes Works in these ways only.
LEMMA WorkSteps ==
  ASSUME TypeOK, [Next]_vars
  PROVE  \A k \in Work : WorkStep(k)
  <1>0. StoreTypeOK /\ MigrationTypeOK /\ CleanupTypeOK
    BY DEF TypeOK
  <1>a. ASSUME NEW k \in Work, works[k] # None PROVE works[k] \in WorkObject
    BY <1>0, <1>a DEF StoreTypeOK
  <1>b. ASSUME UNCHANGED works PROVE \A k \in Work : WorkStep(k)
    BY <1>b DEF WorkStep, Kept
  <1>1. CASE UNCHANGED vars
    BY <1>1, <1>b DEF vars, storeVars, workVars
  <1>2. CASE Crash
    BY <1>2, <1>b DEF Crash, workVars
  <1>3. CASE Migrate
    <2>1. CASE RCreate
      <3>1. /\ AtWork /\ RWork = None
            /\ works' = [works EXCEPT ![RName] =
                           NewWork(rpass.req, rpass.plan, births[RName] + 1, TRUE)]
        BY <2>1, Zenon DEF RCreate
      <3>2. SUFFICES ASSUME NEW k \in Work PROVE WorkStep(k)
        OBVIOUS
      <3>3. CASE k = RName
        BY <1>0, <3>1, <3>3 DEF AtWork, WorkStep, RWork, NewWork, StoreTypeOK
      <3>4. CASE k # RName
        BY <1>0, <3>1, <3>4 DEF WorkStep, Kept, StoreTypeOK
      <3>5. QED
        BY <3>3, <3>4
    <2>2. CASE RRepair
      <3>1. CASE UNCHANGED works
        BY <1>b, <3>1
      <3>2. CASE works' # works
        <4>1. /\ RWork # None
              /\ works' = [works EXCEPT ![RName] =
                             [RWork EXCEPT !.routed = TRUE, !.gen = RWork.gen + 1]]
          BY <2>2, <3>2, Zenon DEF RRepair
        <4>2. RName \in Work =>
                Kept(works[RName], [RWork EXCEPT !.routed = TRUE, !.gen = RWork.gen + 1])
          BY <1>a, <4>1, ChangesKeep DEF RWork
        <4>3. QED
          BY <1>0, <4>1, <4>2, OneWorkStep DEF RWork
      <3>3. QED
        BY <3>1, <3>2
    <2>3. CASE MigrationStep /\ ~RCreate /\ ~RRepair
      <3>1. UNCHANGED works
        BY <2>3, Zenon DEF MigrationStep, RPend, RRecordPlan, RProceed, RSkip, RObserve, RRefuse,
           RIntend, RRecordIntent, RPrepareRepair, RConclude, storeVars, workVars
      <3>2. QED
        BY <1>b, <3>1
    <2>4. CASE (\E q \in Request : RStart(q)) \/ RFail
      BY <1>b, <2>4 DEF RStart, RFail, storeVars, workVars
    <2>5. QED
      BY <1>3, <2>1, <2>2, <2>3, <2>4 DEF Migrate
  <1>4. CASE Cleanup
    <2>1. CASE CDelete
      <3>1. CASE UNCHANGED works
        BY <1>b, <3>1
      <3>2. CASE works' # works
        <4>1. CWork # None /\ works' = [works EXCEPT ![CName] = [CWork EXCEPT !.dying = TRUE]]
          BY <2>1, <3>2, Zenon DEF CDelete
        <4>2. CName \in Work => Kept(works[CName], [CWork EXCEPT !.dying = TRUE])
          BY <1>a, <4>1, ChangesKeep DEF CWork
        <4>3. QED
          BY <1>0, <4>1, <4>2, OneWorkStep DEF CWork
      <3>3. QED
        BY <3>1, <3>2
    <2>2. CASE CleanupStep /\ ~CDelete
      <3>1. UNCHANGED works
        BY <2>2, Zenon DEF CleanupStep, CSkip, CDetach, CAwait, CApprove, CRefuse, CConclude,
           storeVars, workVars
      <3>2. QED
        BY <1>b, <3>1
    <2>3. CASE (\E q \in Request : CStart(q)) \/ CFail
      BY <1>b, <2>3 DEF CStart, CFail, storeVars, workVars
    <2>4. QED
      BY <1>4, <2>1, <2>2, <2>3 DEF Cleanup
  <1>5. CASE Surroundings
    <2>1. ASSUME NEW k \in Work, KarmadaApply(k) PROVE \A j \in Work : WorkStep(j)
      <3>1. PICK g : works' = [works EXCEPT ![k] = [works[k] EXCEPT !.cond = g]]
        BY <2>1, Zenon DEF KarmadaApply
      <3>2. works[k] # None
        BY <2>1, Zenon DEF KarmadaApply
      <3>3. QED
        BY <1>0, <1>a, <3>1, <3>2, ChangesKeep, OneWorkStep, Zenon
    <2>2. ASSUME NEW k \in Work, KarmadaReflect(k) PROVE \A j \in Work : WorkStep(j)
      <3>1. /\ works[k] # None
            /\ works' = [works EXCEPT ![k] =
                           [works[k] EXCEPT !.status = ReflectionOf(member[k])]]
        BY <2>2, Zenon DEF KarmadaReflect
      <3>2. QED
        BY <1>0, <1>a, <3>1, ChangesKeep, OneWorkStep, Zenon
    <2>3. ASSUME NEW k \in Work, KarmadaFinalize(k) PROVE \A j \in Work : WorkStep(j)
      BY <1>0, <2>3, OneWorkStep DEF KarmadaFinalize
    <2>4. ASSUME NEW k \in Work, EditWork(k) PROVE \A j \in Work : WorkStep(j)
      <3>1. /\ works[k] # None
            /\ works' = [works EXCEPT ![k] =
                           [works[k] EXCEPT !.preserve = FALSE, !.gen = works[k].gen + 1]]
        BY <2>4, Zenon DEF EditWork
      <3>2. QED
        BY <1>0, <1>a, <3>1, ChangesKeep, OneWorkStep, Zenon
    <2>5. ASSUME NEW k \in Work, RelabelWork(k) PROVE \A j \in Work : WorkStep(j)
      <3>1. works[k] # None /\ works' = [works EXCEPT ![k] = [works[k] EXCEPT !.label = None]]
        BY <2>5, Zenon DEF RelabelWork
      <3>2. QED
        BY <1>0, <1>a, <3>1, ChangesKeep, OneWorkStep, Zenon
    <2>6. ASSUME NEW k \in Work, ForeignDelete(k) PROVE \A j \in Work : WorkStep(j)
      <3>1. works[k] # None /\ works' = [works EXCEPT ![k] = [works[k] EXCEPT !.dying = TRUE]]
        BY <2>6, Zenon DEF ForeignDelete
      <3>2. QED
        BY <1>0, <1>a, <3>1, ChangesKeep, OneWorkStep, Zenon
    <2>7. CASE \/ Deliver \/ SnapshotArrives \/ SnapshotChanges \/ BindingChanges
               \/ \E q \in Request : FileRequest(q) \/ DeleteRequest(q)
               \/ \E k \in Work : \/ SettleTemplate(k) \/ BindPair(k)
                                  \/ TemplateFault(k) \/ PairFault(k)
      <3>1. UNCHANGED works
        BY <2>7, Zenon DEF Deliver, SnapshotArrives, SnapshotChanges, BindingChanges, FileRequest,
           DeleteRequest, SettleTemplate, BindPair, TemplateFault, PairFault, workVars
      <3>2. QED
        BY <1>b, <3>1
    <2>8. QED
      BY <1>5, <2>1, <2>2, <2>3, <2>4, <2>5, <2>6, <2>7 DEF Surroundings
  <1>6. QED
    BY <1>1, <1>2, <1>3, <1>4, <1>5 DEF Next

\* A record is filed, deleted, or patched by a pass that holds the current
\* copy of it, and no patch changes a plan that is recorded.
RecordStep(q) ==
    \/ mig'[q] = mig[q]
    \/ mig'[q] = None
    \/ born[q] = 0 /\ born'[q] # 0 /\ mig'[q] = NewMigration
    \/ /\ rpass # None /\ rpass.req = q /\ mig[q] = rpass.base
       /\ rpass.base.hash # None => mig'[q].hash = rpass.base.hash
       /\ mig'[q].phase \in {"Pending", "Preparing", "Ready", rpass.base.phase}
    \/ /\ cpass # None /\ cpass.req = q /\ mig[q] = cpass.base
       /\ mig'[q].hash = cpass.base.hash
       /\ mig'[q].refs = cpass.refs
       /\ \/ mig'[q].phase = cpass.base.phase
          \/ /\ mig'[q].phase = "Completed"
             /\ cpass.all /\ cpass.i > Len(Plan[q])

\* A status patch replaces the record of its request, or nothing (PatchStatus).
LEMMA PatchSteps ==
  ASSUME StoreTypeOK, NEW p \in Request, NEW base, NEW new, PatchStatus(p, base, new)
  PROVE  /\ \A q \in Request : q # p => mig'[q] = mig[q]
         /\ mig'[p] = mig[p] \/ (mig[p] = base /\ mig'[p] = new)
  BY DEF PatchStatus, StoreTypeOK

\* What a patch of the phase, and of the references, leaves of the copy
\* (setPhase, and the intent of ensureWorkRouting).
LEMMA PatchedOnce ==
  ASSUME NEW m \in Migration, NEW x
  PROVE  /\ [m EXCEPT !.phase = x].hash = m.hash
         /\ [m EXCEPT !.phase = x].phase = x
         /\ [m EXCEPT !.refs = x].hash = m.hash
         /\ [m EXCEPT !.refs = x].phase = m.phase
  BY Zenon DEF Migration

\* Every step changes records in these ways only.
LEMMA RecordSteps ==
  ASSUME TypeOK, [Next]_vars
  PROVE  \A q \in Request : RecordStep(q)
  <1>0. StoreTypeOK /\ MigrationTypeOK /\ CleanupTypeOK
    BY DEF TypeOK
  <1>a. ASSUME UNCHANGED mig PROVE \A q \in Request : RecordStep(q)
    BY <1>a DEF RecordStep
  <1>1. CASE UNCHANGED vars
    BY <1>1, <1>a DEF vars, storeVars, recordVars
  <1>2. CASE Crash
    BY <1>2, <1>a DEF Crash
  <1>3. CASE Migrate
    <2>a. ASSUME rpass # None
          PROVE  rpass.req \in Request /\ rpass.base \in Migration
      BY <1>0, <2>a DEF MigrationTypeOK, MigrationPass
    <2>b. ASSUME rpass # None, NEW new, PatchStatus(rpass.req, rpass.base, new),
                 rpass.base.hash # None => new.hash = rpass.base.hash,
                 new.phase \in {"Pending", "Preparing", "Ready", rpass.base.phase}
          PROVE  \A q \in Request : RecordStep(q)
      BY <1>0, <2>a, <2>b, PatchSteps DEF RecordStep
    <2>1. CASE RPend
      <3>1. PICK new : new = [rpass.base EXCEPT !.phase = "Pending"]
        OBVIOUS
      <3>2. rpass # None /\ PatchStatus(rpass.req, rpass.base, new)
        BY <2>1, <3>1, Zenon DEF RPend, AtGate
      <3>3. new.hash = rpass.base.hash /\ new.phase = "Pending"
        BY <2>a, <3>1, <3>2, PatchedOnce, Zenon
      <3>4. QED
        BY <2>b, <3>2, <3>3
    <2>2. CASE RRecordPlan
      <3>1. PICK new : new = [rpass.base EXCEPT !.hash = snapshot, !.phase = "Preparing"]
        OBVIOUS
      <3>2. rpass # None /\ PatchStatus(rpass.req, rpass.base, new) /\ rpass.base.hash = None
        BY <2>2, <3>1, Zenon DEF RRecordPlan, AtGate
      <3>3. new.hash = snapshot /\ new.phase = "Preparing"
        BY <2>a, <3>1, <3>2, Zenon DEF Migration
      <3>4. QED
        BY <2>b, <3>2, <3>3
    <2>3. CASE RRecordIntent
      <3>1. PICK new : new = [rpass.base EXCEPT !.refs = rpass.refs]
        OBVIOUS
      <3>2. rpass # None /\ PatchStatus(rpass.req, rpass.base, new)
        BY <2>3, <3>1, Zenon DEF RRecordIntent
      <3>3. new.hash = rpass.base.hash /\ new.phase = rpass.base.phase
        BY <2>a, <3>1, <3>2, PatchedOnce, Zenon
      <3>4. QED
        BY <2>b, <3>2, <3>3
    <2>4. CASE RConclude
      <3>1. PICK refs, ready :
              /\ rpass # None
              /\ PatchStatus(rpass.req, rpass.base,
                   [rpass.base EXCEPT !.refs = refs,
                                      !.phase = IF ready THEN "Ready" ELSE "Preparing"])
        BY <2>4, Zenon DEF RConclude
      <3>2. PICK new : new = [rpass.base EXCEPT !.refs = refs,
                                !.phase = IF ready THEN "Ready" ELSE "Preparing"]
        OBVIOUS
      <3>3. /\ new.hash = rpass.base.hash
            /\ new.phase = IF ready THEN "Ready" ELSE "Preparing"
        BY <2>a, <3>1, <3>2, Zenon DEF Migration
      <3>4. new.phase \in {"Ready", "Preparing"}
        BY <3>3
      <3>5. PatchStatus(rpass.req, rpass.base, new)
        BY <3>1, <3>2, Zenon
      <3>6. QED
        BY <2>b, <3>1, <3>3, <3>4, <3>5
    <2>5. CASE MigrationStep /\ ~RPend /\ ~RRecordPlan /\ ~RRecordIntent /\ ~RConclude
      <3>1. UNCHANGED mig
        BY <2>5, Zenon DEF MigrationStep, RProceed, RSkip, RCreate, RObserve, RRefuse, RIntend,
           RPrepareRepair, RRepair, storeVars, recordVars
      <3>2. QED
        BY <1>a, <3>1
    <2>6. CASE (\E q \in Request : RStart(q)) \/ RFail
      BY <1>a, <2>6 DEF RStart, RFail, storeVars, recordVars
    <2>7. QED
      BY <1>3, <2>1, <2>2, <2>3, <2>4, <2>5, <2>6 DEF Migrate
  <1>4. CASE Cleanup
    <2>1. CASE CConclude
      <3>1. cpass # None /\ cpass.req \in Request /\ cpass.base \in Migration
        BY <1>0, <2>1 DEF CConclude, CleanupTypeOK, CleanupPass
      <3>2. PatchStatus(cpass.req, cpass.base,
              [cpass.base EXCEPT !.refs = cpass.refs,
                                 !.phase = IF cpass.all THEN "Completed" ELSE cpass.base.phase])
        BY <2>1, Zenon DEF CConclude
      <3>3. PICK new : new = [cpass.base EXCEPT !.refs = cpass.refs,
                                !.phase = IF cpass.all THEN "Completed" ELSE cpass.base.phase]
        OBVIOUS
      <3>4. /\ new.hash = cpass.base.hash /\ new.refs = cpass.refs
            /\ new.phase = IF cpass.all THEN "Completed" ELSE cpass.base.phase
        BY <3>1, <3>3, Zenon DEF Migration
      <3>5. PatchStatus(cpass.req, cpass.base, new)
        BY <3>2, <3>3, Zenon
      <3>6. cpass.i > Len(Plan[cpass.req])
        BY <2>1 DEF CConclude
      <3>7. QED
        BY <1>0, <3>1, <3>4, <3>5, <3>6, PatchSteps DEF RecordStep
    <2>2. CASE CleanupStep /\ ~CConclude
      <3>1. UNCHANGED mig
        BY <2>2, Zenon DEF CleanupStep, CSkip, CDetach, CAwait, CApprove, CRefuse, CDelete,
           storeVars, recordVars
      <3>2. QED
        BY <1>a, <3>1
    <2>3. CASE (\E q \in Request : CStart(q)) \/ CFail
      BY <1>a, <2>3 DEF CStart, CFail, storeVars, recordVars
    <2>4. QED
      BY <1>4, <2>1, <2>2, <2>3 DEF Cleanup
  <1>5. CASE Surroundings
    <2>1. ASSUME NEW p \in Request, FileRequest(p) PROVE \A q \in Request : RecordStep(q)
      <3>1. PICK t \in 1..MaxTime : born' = [born EXCEPT ![p] = t]
        BY <2>1 DEF FileRequest
      <3>2. QED
        <4>1. ASSUME NEW q \in Request, q # p PROVE mig'[q] = mig[q]
          BY <1>0, <2>1, <4>1 DEF FileRequest, StoreTypeOK
        <4>2. mig'[p] = NewMigration /\ born[p] = 0 /\ born'[p] # 0
          BY <1>0, <2>1, <3>1, BoundsAssumption DEF FileRequest, StoreTypeOK
        <4>3. QED
          BY <4>1, <4>2 DEF RecordStep
    <2>2. ASSUME NEW p \in Request, DeleteRequest(p) PROVE \A q \in Request : RecordStep(q)
      BY <1>0, <2>2 DEF DeleteRequest, RecordStep, StoreTypeOK
    <2>3. CASE \/ Deliver \/ SnapshotArrives \/ SnapshotChanges \/ BindingChanges
               \/ \E k \in Work :
                    \/ KarmadaApply(k) \/ KarmadaReflect(k) \/ KarmadaFinalize(k)
                    \/ SettleTemplate(k) \/ BindPair(k) \/ TemplateFault(k) \/ PairFault(k)
                    \/ EditWork(k) \/ RelabelWork(k) \/ ForeignDelete(k)
      <3>1. UNCHANGED mig
        BY <2>3, Zenon DEF Deliver, SnapshotArrives, SnapshotChanges, BindingChanges,
           KarmadaApply, KarmadaReflect, KarmadaFinalize, SettleTemplate, BindPair,
           TemplateFault, PairFault, EditWork, RelabelWork, ForeignDelete, recordVars
      <3>2. QED
        BY <1>a, <3>1
    <2>4. QED
      BY <1>5, <2>1, <2>2, <2>3 DEF Surroundings
  <1>6. QED
    BY <1>1, <1>2, <1>3, <1>4, <1>5 DEF Next

\* The cache changes only to what the record is, and no request goes back to
\* not being filed.
LEMMA CacheSteps ==
  ASSUME TypeOK, [Next]_vars
  PROVE  \A q \in Request : /\ seen'[q] = seen[q] \/ (seen'[q] = mig[q] /\ mig'[q] = mig[q])
                            /\ born'[q] = born[q] \/ born'[q] # 0
  <1>0. StoreTypeOK /\ MigrationTypeOK /\ CleanupTypeOK
    BY DEF TypeOK
  <1>1. CASE UNCHANGED <<seen, born>>
    BY <1>1
  <1>2. CASE Crash
    BY <1>2 DEF Crash
  <1>3. CASE Deliver
    BY <1>0, <1>3 DEF Deliver, StoreTypeOK
  <1>4. ASSUME NEW p \in Request, FileRequest(p)
        PROVE  \A q \in Request : seen'[q] = seen[q] /\ (born'[q] = born[q] \/ born'[q] # 0)
    BY <1>0, <1>4, BoundsAssumption DEF FileRequest, StoreTypeOK
  <1>5. UNCHANGED vars \/ Migrate \/ Cleanup => UNCHANGED <<seen, born>>
    <2>1. Migrate => UNCHANGED <<seen, born>>
      BY Zenon DEF Migrate, MigrationStep, RStart, RFail, RPend, RRecordPlan, RProceed, RSkip,
         RCreate, RObserve, RRefuse, RIntend, RRecordIntent, RPrepareRepair, RRepair, RConclude,
         externalToR, storeVars, recordVars
    <2>2. Cleanup => UNCHANGED <<seen, born>>
      BY Zenon DEF Cleanup, CleanupStep, CStart, CFail, CSkip, CDetach, CAwait, CApprove,
         CRefuse, CDelete, CConclude, externalToC, storeVars, recordVars
    <2>3. QED
      BY <2>1, <2>2, Zenon DEF vars, storeVars, recordVars
  <1>6. Surroundings /\ ~Deliver /\ ~(\E q \in Request : FileRequest(q)) =>
          UNCHANGED <<seen, born>>
    BY Zenon DEF Surroundings, SnapshotArrives, SnapshotChanges, BindingChanges, DeleteRequest,
       KarmadaApply, KarmadaReflect, KarmadaFinalize, SettleTemplate, BindPair,
       TemplateFault, PairFault, EditWork, RelabelWork, ForeignDelete, recordVars
  <1>7. QED
    BY <1>1, <1>2, <1>3, <1>4, <1>5, <1>6 DEF Next

\* A pass that begins copies a request from the cache; one that goes on keeps
\* that copy.
MigrationPassStep ==
    \/ rpass' = None
    \/ \E q \in Request :
         /\ seen[q] # None /\ seen[q].phase \notin {"Ready", "Completed"}
         /\ rpass'.pc = "gate" /\ rpass'.req = q /\ rpass'.base = seen[q]
    \/ /\ rpass # None
       /\ rpass'.req = rpass.req /\ rpass'.base = rpass.base
       /\ rpass'.plan = rpass.base.hash \/ (rpass.pc # "gate" /\ rpass'.plan = rpass.plan)

CleanupPassStep ==
    \/ cpass' = None
    \/ \E q \in Request :
         /\ seen[q] # None /\ seen[q].phase = "Ready"
         /\ cpass'.req = q /\ cpass'.base = seen[q] /\ cpass'.refs = seen[q].refs
         /\ cpass'.pc = "work" /\ cpass'.i = 1
    \/ /\ cpass # None
       /\ cpass'.req = cpass.req /\ cpass'.base = cpass.base
       /\ \A k \in Work : RefKept(cpass.refs[k], cpass'.refs[k])

\* Every step changes the migration pass in these ways only.
LEMMA MigrationPassSteps ==
  ASSUME TypeOK, [Next]_vars
  PROVE  MigrationPassStep \/ UNCHANGED rpass
  <1>0. MigrationTypeOK
    BY DEF TypeOK
  <1>1. CASE UNCHANGED vars \/ Cleanup \/ Surroundings \/ Crash
    BY <1>1, Zenon DEF vars, Cleanup, Surroundings, Crash, MigrationPassStep
  <1>2. CASE Migrate
    <2>1. ASSUME NEW q \in Request, RStart(q) PROVE MigrationPassStep
      BY <2>1 DEF RStart, MigrationPassStep
    <2>2. ASSUME rpass # None PROVE rpass \in MigrationPass
      BY <1>0, <2>2 DEF MigrationTypeOK
    <2>3. ASSUME AtGate, RProceed PROVE MigrationPassStep
      <3>1. rpass' = [rpass EXCEPT !.pc = "work", !.plan = snapshot] /\ rpass \in MigrationPass
        BY <2>2, <2>3, Zenon DEF RProceed, AtGate
      <3>2. rpass'.req = rpass.req /\ rpass'.base = rpass.base /\ rpass'.plan = snapshot
        BY <3>1, Zenon DEF MigrationPass
      <3>3. QED
        BY <2>3, <3>2 DEF RProceed, AtGate, PlanMatches, MigrationPassStep
    <2>4. ASSUME AtWork, RSkip \/ RCreate \/ RObserve \/ RIntend \/ RPrepareRepair
          PROVE  MigrationPassStep
      <3>1. rpass \in MigrationPass /\ rpass.pc # "gate" /\ rpass # None
        BY <2>2, <2>4 DEF AtWork
      <3>2. rpass'.req = rpass.req /\ rpass'.base = rpass.base /\ rpass'.plan = rpass.plan
        <4>1. CASE RSkip
          BY <3>1, <4>1, Zenon DEF RSkip, MigrationPass
        <4>2. CASE RCreate
          BY <3>1, <4>2, Zenon DEF RCreate, MigrationPass
        <4>3. CASE RObserve
          BY <3>1, <4>3, Zenon DEF RObserve, MigrationPass
        <4>4. CASE RIntend
          BY <3>1, <4>4, Zenon DEF RIntend, MigrationPass
        <4>5. CASE RPrepareRepair
          BY <3>1, <4>5, Zenon DEF RPrepareRepair, MigrationPass
        <4>6. QED
          BY <2>4, <4>1, <4>2, <4>3, <4>4, <4>5
      <3>3. QED
        BY <3>1, <3>2 DEF MigrationPassStep
    <2>5. CASE RPend \/ RRecordPlan \/ RRefuse \/ RRecordIntent \/ RRepair \/ RConclude \/ RFail
      BY <2>5, Zenon DEF RPend, RRecordPlan, RRefuse, RRecordIntent, RRepair, RConclude, RFail,
         MigrationPassStep
    <2>6. RProceed => AtGate
      BY Zenon DEF RProceed
    <2>7. RSkip \/ RCreate \/ RObserve \/ RIntend \/ RPrepareRepair => AtWork
      BY Zenon DEF RSkip, RCreate, RObserve, RIntend, RPrepareRepair
    <2>8. QED
      BY <1>2, <2>1, <2>3, <2>4, <2>5, <2>6, <2>7 DEF Migrate, MigrationStep
  <1>3. QED
    BY <1>1, <1>2 DEF Next

\* Marking a reference as detached keeps the rest of it.
LEMMA DetachKeeps ==
  ASSUME NEW r \in Ref
  PROVE  /\ RefKept(r, r)
         /\ RefKept(r, [r EXCEPT !.detached = TRUE])
         /\ [r EXCEPT !.detached = TRUE].detached
  BY Zenon DEF RefKept, Ref

\* What a turn of the loop of the cleanup does to its pass.
LEMMA CleanupTurns ==
  ASSUME CleanupTypeOK, AtCleanup
  PROVE  /\ CSkip => /\ cpass' = [cpass EXCEPT !.i = cpass.i + 1]
                     /\ CRef.applied /\ CRef.detached
         /\ CDetach => /\ cpass' = [cpass EXCEPT !.i = cpass.i + 1,
                              !.refs = [cpass.refs EXCEPT ![CName] =
                                          [CRef EXCEPT !.detached = TRUE]]]
                       /\ CRef.applied
         /\ CAwait => cpass' = [cpass EXCEPT !.i = cpass.i + 1, !.all = FALSE]
         /\ CApprove => cpass' = [cpass EXCEPT !.pc = "delete", !.read = CWork, !.all = FALSE]
  BY Zenon DEF CSkip, CDetach, CAwait, CApprove

\* Every step changes the cleanup pass in these ways only.
LEMMA CleanupPassSteps ==
  ASSUME TypeOK, [Next]_vars
  PROVE  CleanupPassStep \/ UNCHANGED cpass
  <1>0. CleanupTypeOK
    BY DEF TypeOK
  <1>1. CASE UNCHANGED vars \/ Migrate \/ Surroundings \/ Crash
    BY <1>1, Zenon DEF vars, Migrate, Surroundings, Crash, CleanupPassStep
  <1>2. CASE Cleanup
    <2>1. ASSUME NEW q \in Request, CStart(q) PROVE CleanupPassStep
      BY <2>1 DEF CStart, CleanupPassStep
    <2>2. ASSUME cpass # None
          PROVE  cpass \in CleanupPass /\ cpass.refs \in [Work -> Ref]
      BY <1>0, <2>2 DEF CleanupTypeOK, CleanupPass
    <2>3. ASSUME cpass # None, cpass'.req = cpass.req, cpass'.base = cpass.base,
                 cpass'.refs = cpass.refs
          PROVE  CleanupPassStep
      BY <2>2, <2>3, DetachKeeps DEF CleanupPassStep
    <2>4. ASSUME AtCleanup, CDetach PROVE CleanupPassStep
      <3>1. cpass \in CleanupPass /\ CName \in Work /\ CRef \in Ref /\ cpass # None
        BY <1>0, <2>4, AtCleanupTyped DEF AtCleanup
      <3>2. /\ cpass'.req = cpass.req /\ cpass'.base = cpass.base
            /\ cpass'.refs = [cpass.refs EXCEPT ![CName] = [CRef EXCEPT !.detached = TRUE]]
        BY <1>0, <2>4, <3>1, CleanupTurns, Zenon DEF CleanupPass
      <3>3. RefKept(cpass.refs[CName], [CRef EXCEPT !.detached = TRUE])
        BY <3>1, DetachKeeps DEF CRef
      <3>4. ASSUME NEW k \in Work PROVE RefKept(cpass.refs[k], cpass'.refs[k])
        <4>1. CASE k = CName
          BY <2>2, <3>1, <3>2, <3>3, <4>1
        <4>2. CASE k # CName
          BY <2>2, <3>1, <3>2, <4>2, DetachKeeps
        <4>3. QED
          BY <4>1, <4>2
      <3>5. QED
        BY <3>1, <3>2, <3>4 DEF CleanupPassStep
    <2>5. ASSUME AtCleanup, CSkip \/ CAwait \/ CApprove PROVE CleanupPassStep
      <3>1. cpass \in CleanupPass /\ cpass # None
        BY <2>2, <2>5 DEF AtCleanup
      <3>2. cpass'.req = cpass.req /\ cpass'.base = cpass.base /\ cpass'.refs = cpass.refs
        BY <1>0, <2>5, <3>1, CleanupTurns, Zenon DEF CleanupPass
      <3>3. QED
        BY <2>3, <3>1, <3>2
    <2>6. CASE CDelete
      <3>1. cpass # None /\ cpass \in CleanupPass
        BY <2>2, <2>6 DEF CDelete
      <3>2. \/ cpass' = None
            \/ cpass'.req = cpass.req /\ cpass'.base = cpass.base /\ cpass'.refs = cpass.refs
        BY <2>6, <3>1, Zenon DEF CDelete, CleanupPass
      <3>3. QED
        BY <2>3, <3>1, <3>2 DEF CleanupPassStep
    <2>7. CASE CRefuse \/ CConclude \/ CFail
      BY <2>7, Zenon DEF CRefuse, CConclude, CFail, CleanupPassStep
    <2>8. CSkip \/ CDetach \/ CAwait \/ CApprove => AtCleanup
      BY Zenon DEF CSkip, CDetach, CAwait, CApprove
    <2>9. QED
      BY <1>2, <2>1, <2>4, <2>5, <2>6, <2>7, <2>8 DEF Cleanup, CleanupStep
  <1>3. QED
    BY <1>1, <1>2 DEF Next

-----------------------------------------------------------------------------
(* The invariants hold.                                                    *)

\* Nothing is made for a request that was never filed.
LEMMA FilingKept ==
  ASSUME TypeOK, [Next]_vars, NothingBeforeFiling
  PROVE  NothingBeforeFiling'
  <1>1. SUFFICES ASSUME NEW q \in Request, born'[q] = 0
                 PROVE  /\ mig'[q] = None /\ seen'[q] = None
                        /\ rpass' # None => rpass'.req # q
                        /\ cpass' # None => cpass'.req # q
                        /\ \A k \in Work : works'[k] # None => works'[k].owner # q
    BY DEF NothingBeforeFiling
  <1>2. born[q] = 0
    BY <1>1, CacheSteps
  <1>3. /\ mig[q] = None /\ seen[q] = None
        /\ rpass # None => rpass.req # q
        /\ cpass # None => cpass.req # q
        /\ \A k \in Work : works[k] # None => works[k].owner # q
    BY <1>2 DEF NothingBeforeFiling
  <1>4. mig'[q] = None
    BY <1>1, <1>3, RecordSteps DEF RecordStep
  <1>5. seen'[q] = None
    BY <1>3, CacheSteps
  <1>6. rpass' # None => rpass'.req # q
    BY <1>3, MigrationPassSteps DEF MigrationPassStep
  <1>7. cpass' # None => cpass'.req # q
    BY <1>3, CleanupPassSteps DEF CleanupPassStep
  <1>8. ASSUME NEW k \in Work, works'[k] # None PROVE works'[k].owner # q
    BY <1>3, <1>8, WorkSteps DEF WorkStep, Kept
  <1>9. QED
    BY <1>4, <1>5, <1>6, <1>7, <1>8

\* The two passes stay on their sides of Ready, and a cleanup pass only adds
\* detached marks (the phase checks at the head of both Reconcile).
LEMMA ApartKept ==
  ASSUME TypeOK, [Next]_vars, PassesApart
  PROVE  PassesApart'
  <1>1. rpass' # None => rpass'.base.phase \notin {"Ready", "Completed"}
    BY MigrationPassSteps DEF MigrationPassStep, PassesApart
  <1>2. CASE UNCHANGED cpass
    BY <1>1, <1>2 DEF PassesApart
  <1>3. CASE CleanupPassStep
    <2>1. ASSUME NEW q \in Request, seen[q] # None
          PROVE  \A k \in Work : seen[q].refs[k] \in Ref
      BY <2>1 DEF TypeOK, StoreTypeOK, Migration
    <2>2. QED
      BY <1>1, <1>3, <2>1 DEF CleanupPassStep, PassesApart, RefKept
  <1>4. QED
    BY <1>2, <1>3, CleanupPassSteps

\* A cleanup pass that misses nothing has found each Work it passed applied and
\* gone (the loop of the cleanup, and its flag all).
LEMMA ThoroughKept ==
  ASSUME TypeOK, [Next]_vars, CleanupThorough
  PROVE  CleanupThorough'
  <1>0. CleanupTypeOK
    BY DEF TypeOK
  <1>a. ASSUME cpass # None
        PROVE  /\ cpass \in CleanupPass
               /\ cpass.req \in Request /\ cpass.i \in Nat \ {0}
               /\ cpass.refs \in [Work -> Ref]
    BY <1>0, <1>a DEF CleanupTypeOK, CleanupPass
  <1> DEFINE Gone(refs, q, j) ==
               j <= Len(Plan[q]) => refs[Plan[q][j]].applied /\ refs[Plan[q][j]].detached
  <1>b. ASSUME cpass' # None, cpass'.all,
               /\ cpass'.pc = "work"
               /\ \A j \in 1..(cpass'.i - 1) : Gone(cpass'.refs, cpass'.req, j)
        PROVE  CleanupThorough'
    BY <1>b DEF CleanupThorough
  <1>c. ASSUME cpass' # None, ~cpass'.all PROVE CleanupThorough'
    BY <1>c DEF CleanupThorough
  <1>d. CASE cpass' = None
    BY <1>d DEF CleanupThorough
  <1>e. CASE UNCHANGED cpass
    BY <1>e DEF CleanupThorough
  <1>f. ASSUME cpass # None, cpass.all
        PROVE  /\ cpass.pc = "work"
               /\ \A j \in 1..(cpass.i - 1) : Gone(cpass.refs, cpass.req, j)
    BY <1>f DEF CleanupThorough
  <1>g. ASSUME cpass # None, cpass'.req = cpass.req, cpass'.pc = cpass.pc, cpass'.i = cpass.i + 1,
               cpass.all,
               \A k \in Work : RefKept(cpass.refs[k], cpass'.refs[k]),
               AtCleanup => cpass'.refs[CName].applied /\ cpass'.refs[CName].detached,
               AtCleanup
        PROVE  /\ cpass'.pc = "work"
               /\ \A j \in 1..(cpass'.i - 1) : Gone(cpass'.refs, cpass'.req, j)
    <2>1. ASSUME NEW j \in 1..cpass.i PROVE Gone(cpass'.refs, cpass'.req, j)
      <3>1. CASE j = cpass.i
        BY <1>g, <3>1 DEF CName
      <3>2. CASE j # cpass.i
        <4>1. j \in 1..(cpass.i - 1)
          BY <1>a, <1>g, <2>1, <3>2
        <4>2. Gone(cpass.refs, cpass.req, j)
          BY <1>f, <1>g, <4>1
        <4>3. ASSUME j <= Len(Plan[cpass.req]) PROVE Plan[cpass.req][j] \in Work
          BY <1>a, <1>g, <2>1, <4>3, PlanTyped
        <4>4. QED
          BY <1>g, <4>2, <4>3 DEF RefKept
      <3>3. QED
        BY <3>1, <3>2
    <2>2. cpass'.i - 1 = cpass.i
      BY <1>a, <1>g
    <2>3. QED
      BY <1>f, <1>g, <2>1, <2>2
  <1> HIDE DEF Gone
  <1>1. CASE Cleanup
    <2>1. ASSUME NEW q \in Request, CStart(q) PROVE CleanupThorough'
      <3>1. cpass'.pc = "work" /\ cpass'.i = 1
        BY <2>1 DEF CStart
      <3>2. 1..(cpass'.i - 1) = {}
        BY <3>1
      <3>3. QED
        BY <1>b, <1>c, <1>d, <3>1, <3>2
    <2>2. ASSUME AtCleanup, CDetach PROVE CleanupThorough'
      <3>1. cpass \in CleanupPass /\ CName \in Work /\ CRef \in Ref /\ cpass # None
        BY <1>0, <2>2, AtCleanupTyped DEF AtCleanup
      <3>2. /\ cpass'.req = cpass.req /\ cpass'.pc = cpass.pc /\ cpass'.i = cpass.i + 1
            /\ cpass'.all = cpass.all
            /\ cpass'.refs = [cpass.refs EXCEPT ![CName] = [CRef EXCEPT !.detached = TRUE]]
        BY <1>0, <2>2, <3>1, CleanupTurns, Zenon DEF CleanupPass
      <3>3. CRef.applied
        BY <1>0, <2>2, CleanupTurns
      <3>4. ASSUME NEW k \in Work PROVE RefKept(cpass.refs[k], cpass'.refs[k])
        <4>1. CASE k = CName
          BY <1>a, <3>1, <3>2, <4>1, DetachKeeps DEF CRef
        <4>2. CASE k # CName
          BY <1>a, <3>1, <3>2, <4>2, DetachKeeps
        <4>3. QED
          BY <4>1, <4>2
      <3>5. cpass'.refs[CName].applied /\ cpass'.refs[CName].detached
        <4>1. cpass'.refs[CName] = [CRef EXCEPT !.detached = TRUE]
          BY <1>a, <3>1, <3>2
        <4>2. QED
          BY <3>1, <3>3, <4>1, DetachKeeps DEF RefKept
      <3>6. QED
        BY <1>b, <1>c, <1>d, <1>g, <2>2, <3>1, <3>2, <3>4, <3>5
    <2>3. ASSUME AtCleanup, CSkip PROVE CleanupThorough'
      <3>1. cpass \in CleanupPass /\ CName \in Work /\ CRef \in Ref /\ cpass # None
        BY <1>0, <2>3, AtCleanupTyped DEF AtCleanup
      <3>2. /\ cpass'.req = cpass.req /\ cpass'.pc = cpass.pc /\ cpass'.i = cpass.i + 1
            /\ cpass'.all = cpass.all /\ cpass'.refs = cpass.refs
        BY <1>0, <2>3, <3>1, CleanupTurns, Zenon DEF CleanupPass
      <3>3. CRef.applied /\ CRef.detached
        BY <1>0, <2>3, CleanupTurns
      <3>4. \A k \in Work : RefKept(cpass.refs[k], cpass'.refs[k])
        BY <1>a, <3>1, <3>2, DetachKeeps
      <3>5. cpass'.refs[CName].applied /\ cpass'.refs[CName].detached
        BY <3>2, <3>3 DEF CRef
      <3>6. QED
        BY <1>b, <1>c, <1>d, <1>g, <2>3, <3>1, <3>2, <3>4, <3>5
    <2>4. ASSUME AtCleanup, CAwait \/ CApprove PROVE CleanupThorough'
      <3>1. cpass \in CleanupPass
        BY <1>a, <2>4 DEF AtCleanup
      <3>2. ~cpass'.all
        BY <1>0, <2>4, <3>1, CleanupTurns, Zenon DEF CleanupPass
      <3>3. QED
        BY <1>c, <1>d, <3>2
    <2>5. CASE CDelete
      <3>1. cpass # None /\ cpass.pc = "delete" /\ cpass \in CleanupPass
        BY <1>a, <2>5 DEF CDelete
      <3>2. ~cpass.all
        BY <1>f, <3>1
      <3>3. cpass' = None \/ cpass'.all = cpass.all
        BY <2>5, <3>1, Zenon DEF CDelete, CleanupPass
      <3>4. QED
        BY <1>c, <1>d, <3>2, <3>3
    <2>6. CASE CRefuse \/ CConclude \/ CFail
      BY <1>d, <2>6, Zenon DEF CRefuse, CConclude, CFail
    <2>7. CSkip \/ CDetach \/ CAwait \/ CApprove => AtCleanup
      BY Zenon DEF CSkip, CDetach, CAwait, CApprove
    <2>8. QED
      BY <1>1, <2>1, <2>2, <2>3, <2>4, <2>5, <2>6, <2>7 DEF Cleanup, CleanupStep
  <1>2. CASE UNCHANGED vars \/ Migrate \/ Surroundings \/ Crash
    BY <1>2, <1>d, <1>e, Zenon DEF vars, Migrate, Surroundings, Crash
  <1>3. QED
    BY <1>1, <1>2 DEF Next

\* Only a thorough cleanup pass completes a request.
LEMMA CompletedKept ==
  ASSUME TypeOK, [Next]_vars, PassesApart, CleanupThorough, CompletedDetached
  PROVE  CompletedDetached'
  <1>1. SUFFICES ASSUME NEW q \in Request, mig'[q] # None, mig'[q].phase = "Completed",
                        NEW k \in Works(q)
                 PROVE  mig'[q].refs[k].applied /\ mig'[q].refs[k].detached
    BY DEF CompletedDetached
  <1>2. CASE mig'[q] = mig[q]
    BY <1>1, <1>2 DEF CompletedDetached
  <1>3. CASE mig'[q] = NewMigration
    BY <1>1, <1>3 DEF NewMigration
  <1>4. CASE rpass # None /\ mig'[q].phase \in {"Pending", "Preparing", "Ready", rpass.base.phase}
    BY <1>1, <1>4 DEF PassesApart
  <1>5. CASE /\ cpass # None /\ cpass.req = q /\ mig'[q].refs = cpass.refs
             /\ \/ mig'[q].phase = cpass.base.phase
                \/ cpass.all /\ cpass.i > Len(Plan[q])
    <2>1. cpass.all /\ cpass.i > Len(Plan[q])
      BY <1>1, <1>5 DEF PassesApart
    <2>2. PICK j \in 1..Len(Plan[q]) : k = Plan[q][j]
      BY <1>1, PlanTyped, PlanAssumption DEF Works, Range
    <2>3. cpass.i \in Nat /\ Len(Plan[q]) \in Nat
      BY <1>5, PlanAssumption DEF TypeOK, CleanupTypeOK, CleanupPass
    <2>4. j \in 1..(cpass.i - 1)
      BY <2>1, <2>2, <2>3
    <2>5. QED
      BY <1>5, <2>1, <2>2, <2>4 DEF CleanupThorough
  <1>6. QED
    BY <1>1, <1>2, <1>3, <1>4, <1>5, RecordSteps DEF RecordStep

\* A copy with a plan still agrees with its request after the step.
HashAfter(m, q) == m.hash # None /\ mig'[q] # None => mig'[q].hash = m.hash

\* A copy with a plan stays in agreement with a request that was filed: no patch
\* changes a recorded hash.
LEMMA HashKept ==
  ASSUME TypeOK, [Next]_vars, CacheFollows, MigrationPassFollows, CleanupPassFollows,
         NothingBeforeFiling,
         NEW q \in Request, NEW m, HashAgrees(m, q), born[q] # 0
  PROVE  HashAfter(m, q)
  <1>1. CASE mig'[q] = mig[q] \/ mig'[q] = None
    BY <1>1 DEF HashAgrees, HashAfter
  <1>2. CASE rpass # None /\ mig[q] = rpass.base /\
             (rpass.base.hash # None => mig'[q].hash = rpass.base.hash)
    BY <1>2 DEF HashAgrees, HashAfter, MigrationPassFollows
  <1>3. CASE cpass # None /\ mig[q] = cpass.base /\ mig'[q].hash = cpass.base.hash
    BY <1>3 DEF HashAgrees, HashAfter, CleanupPassFollows
  <1>4. QED
    BY <1>1, <1>2, <1>3, RecordSteps DEF RecordStep

\* A deleted record does not come back: no patch revives it, and a request is
\* filed once.
LEMMA FiledOnce ==
  ASSUME TypeOK, [Next]_vars, MigrationPassFollows, CleanupPassFollows,
         NEW q \in Request, mig[q] = None, born[q] # 0
  PROVE  mig'[q] = None
  BY RecordSteps DEF RecordStep, MigrationPassFollows, CleanupPassFollows

\* The cache, the copies of the passes and the Works keep to the recorded plan
\* (the record of the plan before the first Work, and the comparison of the
\* hashes before any other).
LEMMA PlanKept ==
  ASSUME TypeOK, [Next]_vars, PlanInv
  PROVE  PlanInv'
  <1> USE DEF PlanInv
  <1>0. NothingBeforeFiling'
    BY FilingKept
  <1>1. ASSUME NEW q \in Request, NEW m, HashAgrees(m, q), born[q] # 0
        PROVE  HashAfter(m, q)
    BY <1>1, HashKept
  <1>2. ASSUME NEW q \in Request, seen[q] # None
        PROVE  HashAfter(seen[q], q)
    BY <1>1, <1>2 DEF CacheFollows, NothingBeforeFiling
  <1>3. ASSUME rpass # None
        PROVE  HashAfter(rpass.base, rpass.req) /\ rpass.req \in Request
    <2>1. rpass.req \in Request
      BY <1>3 DEF TypeOK, MigrationTypeOK, MigrationPass
    <2>2. QED
      BY <1>1, <1>3, <2>1 DEF MigrationPassFollows, NothingBeforeFiling
  <1>4. ASSUME cpass # None
        PROVE  HashAfter(cpass.base, cpass.req)
    <2>1. cpass.req \in Request
      BY <1>4 DEF TypeOK, CleanupTypeOK, CleanupPass
    <2>2. QED
      BY <1>1, <1>4, <2>1 DEF CleanupPassFollows, NothingBeforeFiling
  <1>5. CacheFollows'
    <2>1. ASSUME NEW q \in Request, seen'[q] # None PROVE HashAgrees(seen[q], q)'
      <3>1. CASE seen'[q] = seen[q]
        BY <1>2, <2>1, <3>1 DEF HashAfter, HashAgrees
      <3>2. CASE seen'[q] = mig[q] /\ mig'[q] = mig[q]
        BY <3>2 DEF HashAgrees
      <3>3. QED
        BY <3>1, <3>2, CacheSteps
    <2>2. QED
      BY <2>1 DEF CacheFollows
  <1>6. MigrationPassFollows'
    <2>1. CASE UNCHANGED rpass
      BY <1>3, <2>1 DEF MigrationPassFollows, HashAfter, HashAgrees
    <2>2. CASE MigrationPassStep
      BY <1>2, <1>3, <2>2 DEF MigrationPassStep, MigrationPassFollows, HashAfter, HashAgrees
    <2>3. QED
      BY <2>1, <2>2, MigrationPassSteps
  <1>7. CleanupPassFollows'
    <2>1. CASE UNCHANGED cpass
      BY <1>4, <2>1 DEF CleanupPassFollows, HashAfter, HashAgrees
    <2>2. CASE CleanupPassStep
      BY <1>2, <1>4, <2>2 DEF CleanupPassStep, CleanupPassFollows, HashAfter, HashAgrees
    <2>3. QED
      BY <2>1, <2>2, CleanupPassSteps
  <1>8. WorksFollowPlan'
    <2>1. SUFFICES ASSUME NEW k \in Work, works'[k] # None, works'[k].preserve,
                          mig'[works'[k].owner] # None
                   PROVE  works'[k].plan = mig'[works'[k].owner].hash
      BY DEF WorksFollowPlan
    <2>2. CASE works[k] # None /\ Kept(works[k], works'[k])
      <3> DEFINE q == works[k].owner
      <3>1. q \in Request /\ works[k].plan \in Snapshot
        BY <2>2 DEF TypeOK, StoreTypeOK, WorkObject
      <3>2. works'[k].owner = q /\ works'[k].plan = works[k].plan /\ works[k].preserve
        BY <2>1, <2>2 DEF Kept
      <3>3. born[q] # 0
        BY <2>2, <3>1 DEF NothingBeforeFiling
      <3>4. CASE mig[q] = None
        BY <2>1, <3>1, <3>2, <3>3, <3>4, FiledOnce
      <3>5. CASE mig[q] # None
        <4>1. mig[q].hash = works[k].plan
          BY <2>2, <3>2, <3>5 DEF WorksFollowPlan
        <4>2. HashAgrees(mig[q], q) /\ mig[q].hash # None
          BY <3>1, <4>1, NoneAssumption DEF HashAgrees
        <4>3. HashAfter(mig[q], q)
          BY <1>1, <3>1, <3>3, <4>2
        <4>4. QED
          BY <2>1, <3>2, <4>1, <4>2, <4>3 DEF HashAfter
      <3>6. QED
        BY <3>4, <3>5
    <2>3. CASE /\ rpass # None /\ rpass.pc # "gate"
               /\ works'[k].owner = rpass.req /\ works'[k].plan = rpass.plan
      <3>1. rpass.plan = rpass.base.hash /\ rpass.plan # None
        BY <2>3, NoneAssumption DEF MigrationPassFollows, TypeOK, MigrationTypeOK
      <3>2. QED
        BY <1>3, <2>1, <2>3, <3>1 DEF HashAfter
    <2>4. QED
      BY <2>1, <2>2, <2>3, WorkSteps DEF WorkStep
  <1>9. QED
    BY <1>0, <1>5, <1>6, <1>7, <1>8

\* What a status patch may do to a Ready request: a migration pass cannot have
\* the current copy of it, and a cleanup pass only adds detached marks (the
\* optimistic lock, and the phase checks at the head of both Reconcile).
LEMMA EvidenceStep ==
  ASSUME TypeOK, [Next]_vars, NothingBeforeFiling, PassesApart,
         NEW q \in Request, mig[q] # None, mig'[q] # None,
         mig[q].phase \in {"Ready", "Completed"}
  PROVE  EvidenceKept(mig[q], mig'[q])
  <1>1. CASE mig'[q] = mig[q]
    BY <1>1 DEF EvidenceKept
  <1>2. CASE born[q] = 0
    BY <1>2 DEF NothingBeforeFiling
  <1>3. CASE rpass # None /\ mig[q] = rpass.base
    BY <1>3 DEF PassesApart
  <1>4. CASE /\ cpass # None /\ mig[q] = cpass.base /\ mig'[q].refs = cpass.refs
             /\ mig'[q].phase \in {cpass.base.phase, "Completed"}
    BY <1>4 DEF PassesApart, RefKept, EvidenceKept
  <1>5. QED
    BY <1>1, <1>2, <1>3, <1>4, RecordSteps DEF RecordStep

\* The inductive invariant of the theorems below.
SafetyInv == PlanInv /\ PassesApart /\ CleanupThorough /\ CompletedDetached

\* It holds at the start, in particular of what an earlier version left behind.
LEMMA SafetyInit == Init => SafetyInv
  <1> SUFFICES ASSUME Init PROVE SafetyInv
    OBVIOUS
  <1> USE DEF Init, StoreInit, MigrationInit, CleanupInit
  <1>1. PassesApart /\ CleanupThorough /\ MigrationPassFollows /\ CleanupPassFollows
    BY DEF PassesApart, CleanupThorough, MigrationPassFollows, CleanupPassFollows
  <1>2. CacheFollows
    BY DEF CacheFollows, HashAgrees
  <1>3. ASSUME NEW q \in Legacy
        PROVE  mig[q].hash = snapshot /\ mig[q].phase = "Preparing"
    BY <1>3, OrderAssumption DEF LegacyMigration, NewMigration
  <1>4. CompletedDetached
    BY <1>3 DEF CompletedDetached
  <1>5. ASSUME NEW k \in Work, works[k] # None
        PROVE  works[k].owner \in Legacy /\ works[k].plan = snapshot
    <2>1. \E q \in Legacy : k \in Works(q)
      BY <1>5
    <2>2. works[k] = NewWork(CHOOSE q \in Legacy : k \in Works(q), snapshot, 1, FALSE)
      BY <2>1
    <2>3. QED
      BY <2>1, <2>2 DEF NewWork
  <1>6. WorksFollowPlan
    BY <1>3, <1>5 DEF WorksFollowPlan
  <1>7. NothingBeforeFiling
    <2>1. \A q \in Request : born[q] = 0 => q \notin Legacy /\ mig[q] = None /\ seen[q] = None
      OBVIOUS
    <2>2. rpass = None /\ cpass = None
      OBVIOUS
    <2>3. QED
      BY <1>5, <2>1, <2>2, Zenon DEF NothingBeforeFiling
  <1>8. QED
    BY <1>1, <1>2, <1>4, <1>6, <1>7 DEF SafetyInv, PlanInv

\* It holds forever.
LEMMA SafetyHolds == Spec => []SafetyInv
  <1>1. TypeOK /\ SafetyInv /\ [Next]_vars => SafetyInv'
    BY PlanKept, ApartKept, ThoroughKept, CompletedKept DEF SafetyInv
  <1>2. QED
    BY <1>1, SafetyInit, TypeCorrect, PTL DEF Spec

-----------------------------------------------------------------------------
(* The theorems.                                                           *)

\* A Work that nobody edited was built from the plan its owner recorded,
\* whatever became of the snapshot (planHash, and the order of the record and
\* the creation in Reconcile).
THEOREM PlanFollowed == Spec => []WorksFollowPlan
  <1>1. SafetyInv => WorksFollowPlan
    BY DEF SafetyInv, PlanInv
  <1>2. QED
    BY <1>1, SafetyHolds, PTL

\* A request is Completed only with each of its Works recorded both applied and
\* detached (the loop of the cleanup, and its flag all).
THEOREM CompletionThorough == Spec => []CompletedDetached
  <1>1. SafetyInv => CompletedDetached
    BY DEF SafetyInv
  <1>2. QED
    BY <1>1, SafetyHolds, PTL

\* No write of either reconciler takes back the evidence of a Ready request, from
\* however old a copy it started (the optimistic lock of every status patch).
THEOREM EvidenceDurable == Spec => ReadyDurable
  <1>1. TypeOK /\ SafetyInv /\ [Next]_vars =>
          [\A q \in Request :
             /\ mig[q] # None /\ mig'[q] # None
             /\ mig[q].phase \in {"Ready", "Completed"}
             => EvidenceKept(mig[q], mig'[q])]_vars
    BY EvidenceStep DEF SafetyInv, PlanInv
  <1>2. QED
    BY <1>1, SafetyHolds, TypeCorrect, PTL DEF Spec, ReadyDurable
=============================================================================
