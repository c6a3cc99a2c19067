--------------------------- MODULE EvidenceProofs ---------------------------
(***************************************************************************)
(* The evidence that a request rests on, through the copies of it that the *)
(* passes carry: the repair of a Work is on record before it is made, the  *)
(* receipts of a pair name a bond that existed, a deletion has every       *)
(* reason for it still standing, and what is Completed is on the target.   *)
(***************************************************************************)
EXTENDS SafetyProofs

-----------------------------------------------------------------------------
(* The invariants.                                                         *)

\* An intent that a copy of a request shows is the one on record.
IntentAgrees(m, q) ==
    mig[q] # None =>
        \A k \in Work : m.refs[k].repairUID # 0 =>
            mig[q].refs[k].repairUID = m.refs[k].repairUID

\* References that came from those of a copy, with at most an intent added.
IntentsOf(refs, base) ==
    \A k \in Work : base.refs[k].repairUID # 0 =>
        refs[k].repairUID = base.refs[k].repairUID

\* What the cache or a pass shows of intents is on record; only the pass about to write
\* an intent has one more.
IntentCopies ==
    /\ \A q \in Request : seen[q] # None => IntentAgrees(seen[q], q)
    /\ rpass # None =>
        /\ IntentAgrees(rpass.base, rpass.req)
        /\ IntentsOf(rpass.refs, rpass.base)
        /\ rpass.pc # "intent" =>
             \A k \in Work : rpass.refs[k].repairUID = rpass.base.refs[k].repairUID
    /\ cpass # None =>
        /\ IntentAgrees(cpass.base, cpass.req)
        /\ IntentsOf(cpass.refs, cpass.base)

\* A Work of which nobody edited the spec is new or repaired once.
WorksNumbered ==
    \A k \in Work : works[k] # None =>
        works[k].uid # 0 /\ (works[k].preserve => works[k].gen \in {1, 2})

\* A pass about to repair has a copy of the Work as it was made, and read back
\* the intent for it.
RepairPrepared ==
    rpass # None /\ rpass.pc = "repair" =>
        /\ rpass.i <= Len(Plan[rpass.req])
        /\ rpass.read[RName] # None
        /\ rpass.read[RName].gen = 1
        /\ rpass.read[RName].owner = rpass.req
        /\ rpass.read[RName].uid = RRef.repairUID

\* The intents of repairs, and the repairs themselves.
IntentInv == IntentCopies /\ WorksNumbered /\ RepairPrepared /\ RepairIntended

\* What anybody reflects or keeps of a PV that is bound was bound that way.
BondKept(pv, s) == s # None /\ s.good => <<pv, s.uid, s.peer>> \in bonds

BondsTrue ==
    \A pv \in DOMAIN PvcOf :
        /\ BondKept(pv, member[pv])
        /\ works[pv] # None => BondKept(pv, works[pv].status)
        /\ rpass # None /\ rpass.read[pv] # None => BondKept(pv, rpass.read[pv].status)

\* A pass keeps copies of Works of its plan only.
CopiesPlanned ==
    rpass # None => \A k \in Work : rpass.read[k] # None => k \in Works(rpass.req)

\* Before a request is Ready, nothing of it is detached.
OpenUndetached(m) ==
    m.phase \notin {"Ready", "Completed"} => \A k \in Work : ~m.refs[k].detached

\* ... neither on record nor in a copy that somebody still works with.
NothingDetachedEarly ==
    /\ \A q \in Request :
        /\ mig[q] # None => OpenUndetached(mig[q])
        /\ seen[q] # None => OpenUndetached(seen[q])
    /\ rpass # None => \A k \in Work : ~rpass.refs[k].detached

\* A pass that misses nothing has found every Work that it passed applied.
MigrationThorough ==
    rpass # None /\ rpass.all =>
        \A j \in 1..(rpass.i - 1) :
            j <= Len(Plan[rpass.req]) => rpass.refs[Plan[rpass.req][j]].applied

\* A Ready request has found every Work of its plan applied.
ReadyMeansApplied ==
    \A q \in Request :
        mig[q] # None /\ mig[q].phase \in {"Ready", "Completed"} =>
            \A k \in Works(q) : mig[q].refs[k].applied

\* The receipts of standalone pairs.
ReceiptInv ==
    /\ BondsTrue /\ CopiesPlanned /\ NothingDetachedEarly
    /\ MigrationThorough /\ ReadyMeansApplied /\ ReceiptsTruthful

\* A copy of a Ready request still has the evidence of it.
ReadyCopies ==
    /\ \A q \in Request :
         /\ seen[q] # None /\ seen[q].phase \in {"Ready", "Completed"} /\ mig[q] # None
         => EvidenceKept(seen[q], mig[q])
    /\ cpass # None /\ mig[cpass.req] # None => EvidenceKept(cpass.base, mig[cpass.req])

\* A pass about to delete a Work has a copy of it that gave every reason to.
DeletionApproved ==
    cpass # None /\ cpass.pc = "delete" =>
        /\ cpass.i <= Len(Plan[cpass.req])
        /\ cpass.read # None
        /\ cpass.read.label = cpass.req
        /\ cpass.read.preserve
        /\ WorkApplied(CName, cpass.read)
        /\ Standalone(CName) => StandaloneReceiptMatches(CName, cpass.read, CRef)

\* The deletions of a cleanup pass.
DeletionInv == ReadyCopies /\ DeletionApproved

\* The volume is on the target, bound or available.
Held(k) == member[k] # None /\ member[k].good

\* What references mark applied, and what the status of a Work shows, is held.
AppliedHeld(refs) == \A k \in Work : refs[k].applied => Held(k)

ShownHeld(k, w) == w # None /\ w.status # None /\ w.status.good => Held(k)

\* As long as nobody interferes, no Work loses its preservation, and everything that
\* anybody has been shown of a volume is so.
RetainedInv ==
    faults = 0 =>
        /\ \A k \in Work :
            /\ works[k] # None => works[k].preserve
            /\ ShownHeld(k, works[k])
            /\ rpass # None => ShownHeld(k, rpass.read[k])
        /\ \A q \in Request :
            /\ mig[q] # None => AppliedHeld(mig[q].refs)
            /\ seen[q] # None => AppliedHeld(seen[q].refs)
        /\ rpass # None => AppliedHeld(rpass.refs)
        /\ cpass # None => AppliedHeld(cpass.refs)

-----------------------------------------------------------------------------
(* What a step does, to the last field.                                    *)

\* At the gate a migration pass writes the phase, and the plan of a request that
\* has none (setPhase, and the record of the identities).
GateWrite(q) ==
    /\ rpass # None /\ rpass.req = q /\ rpass.pc = "gate" /\ mig[q] = rpass.base
    /\ rpass' = None
    /\ mig'[q] \in Migration
    /\ mig'[q].refs = rpass.base.refs
    /\ mig'[q].phase \in {"Pending", "Preparing"}
    /\ \/ mig'[q].hash = rpass.base.hash
       \/ rpass.base.hash = None /\ mig'[q].hash \in Snapshot

\* Behind the gate it writes an intent (ensureWorkRouting) ...
IntentWrite(q) ==
    /\ rpass # None /\ rpass.req = q /\ rpass.pc = "intent" /\ mig[q] = rpass.base
    /\ rpass' = None
    /\ mig'[q] \in Migration
    /\ mig'[q].refs = rpass.refs
    /\ mig'[q].hash = rpass.base.hash
    /\ mig'[q].phase = rpass.base.phase

\* The references and the verdict with which a pass ends.
ConcludedRefs == [k \in Work |-> IF k \in PairWorks THEN Receipted(k) ELSE rpass.refs[k]]

ReadyNow == rpass.all /\ \A k \in PairWorks : PairApplied(k)

\* ... or what it has observed of the whole plan (the end of Reconcile).
ConcludeWrite(q) ==
    /\ rpass # None /\ rpass.req = q /\ rpass.pc = "work" /\ mig[q] = rpass.base
    /\ rpass' = None
    /\ rpass.i > Len(Plan[q])
    /\ mig'[q] \in Migration
    /\ mig'[q].refs = ConcludedRefs
    /\ mig'[q].hash = rpass.base.hash
    /\ mig'[q].phase = IF ReadyNow THEN "Ready" ELSE "Preparing"

\* A cleanup pass writes what it has found detached (the end of its Reconcile).
CleanupWrite(q) ==
    /\ cpass # None /\ cpass.req = q /\ cpass.pc = "work" /\ mig[q] = cpass.base
    /\ cpass' = None
    /\ cpass.i > Len(Plan[q])
    /\ mig'[q] \in Migration
    /\ mig'[q].refs = cpass.refs
    /\ mig'[q].hash = cpass.base.hash
    /\ mig'[q].phase = IF cpass.all THEN "Completed" ELSE cpass.base.phase

\* A status is written in one of these ways ...
Written(q) == GateWrite(q) \/ IntentWrite(q) \/ ConcludeWrite(q) \/ CleanupWrite(q)

\* ... and a record stays, goes, is filed, or gets its status written.
RecordMove(q) ==
    \/ mig'[q] = mig[q]
    \/ mig'[q] = None
    \/ born[q] = 0 /\ mig'[q] = NewMigration
    \/ Written(q)

\* A record, field by field.
IsRecord(m, h, x, f) == m \in Migration /\ m.hash = h /\ m.phase = x /\ m.refs = f

\* A patch of the phase (setPhase), field by field.
LEMMA PatchedPhase ==
  ASSUME NEW m \in Migration, NEW x \in Phase,
         NEW new, new = [m EXCEPT !.phase = x]
  PROVE  IsRecord(new, m.hash, x, m.refs)
  BY RecordChanges, Zenon DEF IsRecord, Migration

\* The patch that records a plan, field by field.
LEMMA PatchedPlan ==
  ASSUME NEW m \in Migration, NEW h \in Snapshot, NEW x \in Phase,
         NEW new, new = [m EXCEPT !.hash = h, !.phase = x]
  PROVE  IsRecord(new, h, x, m.refs)
  BY RecordChanges, Zenon DEF IsRecord, Migration

\* The patch that records an intent (ensureWorkRouting), field by field.
LEMMA PatchedRefs ==
  ASSUME NEW m \in Migration, NEW f \in [Work -> Ref], NEW new, new = [m EXCEPT !.refs = f]
  PROVE  IsRecord(new, m.hash, m.phase, f)
  BY RecordChanges, Zenon DEF IsRecord, Migration

\* The patch at the end of a pass, field by field.
LEMMA PatchedBoth ==
  ASSUME NEW m \in Migration, NEW f \in [Work -> Ref], NEW x \in Phase,
         NEW new, new = [m EXCEPT !.refs = f, !.phase = x]
  PROVE  IsRecord(new, m.hash, x, f)
  BY RecordChanges, Zenon DEF IsRecord, Migration

\* The references that a pass concludes with are well typed.
LEMMA ConcludedTyped ==
  ASSUME rpass \in MigrationPass
  PROVE  ConcludedRefs \in [Work -> Ref]
  BY ReceiptTyped DEF ConcludedRefs, PairWorks, MigrationPass

\* A write of a migration pass is one of three.
LEMMA MigrationWrites ==
  ASSUME TypeOK, MigrationStep
  PROVE  \/ UNCHANGED mig
         \/ \A q \in Request : mig'[q] = mig[q] \/ Written(q)
  <1>0. StoreTypeOK /\ MigrationTypeOK
    BY DEF TypeOK
  <1>a. ASSUME rpass # None
        PROVE  /\ rpass \in MigrationPass /\ rpass.req \in Request /\ rpass.base \in Migration
               /\ rpass.refs \in [Work -> Ref]
    BY <1>0, <1>a DEF MigrationTypeOK, MigrationPass
  <1>1. CASE RPend
    <2>1. PICK new : new = [rpass.base EXCEPT !.phase = "Pending"]
      OBVIOUS
    <2>2. /\ rpass # None /\ rpass.pc = "gate" /\ PatchStatus(rpass.req, rpass.base, new)
          /\ "Pending" \in Phase /\ rpass' = None
      BY <1>1, <2>1, Zenon DEF RPend, AtGate, Phase
    <2>3. IsRecord(new, rpass.base.hash, "Pending", rpass.base.refs)
      <3>1. rpass.base \in Migration
        BY <1>a, <2>2
      <3>2. QED
        BY <2>1, <2>2, <3>1, PatchedPhase, Zenon
    <2>4. QED
      BY <1>0, <1>a, <2>2, <2>3, PatchSteps DEF Written, GateWrite, IsRecord
  <1>2. CASE RRecordPlan
    <2>1. PICK new : new = [rpass.base EXCEPT !.hash = snapshot, !.phase = "Preparing"]
      OBVIOUS
    <2>2. /\ rpass # None /\ rpass.pc = "gate" /\ PatchStatus(rpass.req, rpass.base, new)
          /\ rpass.base.hash = None /\ snapshot # None /\ rpass' = None
      BY <1>2, <2>1, Zenon DEF RRecordPlan, AtGate, PlanBuilt
    <2>3. snapshot \in Snapshot /\ "Preparing" \in Phase
      BY <1>0, <2>2 DEF StoreTypeOK, Phase
    <2>4. IsRecord(new, snapshot, "Preparing", rpass.base.refs)
      <3>1. rpass.base \in Migration
        BY <1>a, <2>2
      <3>2. QED
        BY <2>1, <2>3, <3>1, PatchedPlan, Zenon
    <2>5. QED
      BY <1>0, <1>a, <2>2, <2>3, <2>4, PatchSteps DEF Written, GateWrite, IsRecord
  <1>3. CASE RRecordIntent
    <2>1. PICK new : new = [rpass.base EXCEPT !.refs = rpass.refs]
      OBVIOUS
    <2>2. /\ rpass # None /\ rpass.pc = "intent" /\ PatchStatus(rpass.req, rpass.base, new)
          /\ rpass' = None
      BY <1>3, <2>1, Zenon DEF RRecordIntent
    <2>3. IsRecord(new, rpass.base.hash, rpass.base.phase, rpass.refs)
      <3>1. rpass.base \in Migration /\ rpass.refs \in [Work -> Ref]
        BY <1>a, <2>2
      <3>2. QED
        BY <2>1, <3>1, PatchedRefs, Zenon
    <2>4. QED
      BY <1>0, <1>a, <2>2, <2>3, PatchSteps DEF Written, IntentWrite, IsRecord
  <1>4. CASE RConclude
    <2>1. PICK phase : phase = IF ReadyNow THEN "Ready" ELSE "Preparing"
      OBVIOUS
    <2>2. PICK new : new = [rpass.base EXCEPT !.refs = ConcludedRefs, !.phase = phase]
      OBVIOUS
    <2>3. rpass # None /\ rpass.pc = "work" /\ rpass.i > Len(Plan[rpass.req]) /\ rpass' = None
      BY <1>4 DEF RConclude
    <2>4. PatchStatus(rpass.req, rpass.base, new)
      BY <1>4, <2>1, <2>2, Zenon DEF RConclude, ConcludedRefs, ReadyNow
    <2>5. phase \in Phase
      BY <2>1 DEF Phase
    <2>6. IsRecord(new, rpass.base.hash, phase, ConcludedRefs)
      <3>1. rpass.base \in Migration /\ ConcludedRefs \in [Work -> Ref]
        BY <1>a, <2>3, ConcludedTyped
      <3>2. QED
        BY <2>2, <2>5, <3>1, PatchedBoth, Zenon
    <2>7. QED
      BY <1>0, <1>a, <2>1, <2>3, <2>4, <2>6, PatchSteps DEF Written, ConcludeWrite, IsRecord
  <1>5. CASE MigrationStep /\ ~RPend /\ ~RRecordPlan /\ ~RRecordIntent /\ ~RConclude
    BY <1>5, Zenon DEF MigrationStep, RProceed, RSkip, RCreate, RObserve, RRefuse, RIntend,
       RPrepareRepair, RRepair, storeVars, recordVars
  <1>6. QED
    BY <1>1, <1>2, <1>3, <1>4, <1>5

\* A record stays, goes, is filed, or is written by a pass that holds it.
LEMMA RecordMoves ==
  ASSUME TypeOK, [Next]_vars
  PROVE  \A q \in Request : RecordMove(q)
  <1>0. StoreTypeOK /\ CleanupTypeOK
    BY DEF TypeOK
  <1>a. ASSUME UNCHANGED mig PROVE \A q \in Request : RecordMove(q)
    BY <1>a DEF RecordMove
  <1>1. CASE UNCHANGED vars \/ Crash
    BY <1>1, <1>a DEF vars, storeVars, recordVars, Crash
  <1>2. CASE Migrate
    <2>1. CASE MigrationStep
      BY <1>a, <2>1, MigrationWrites DEF RecordMove
    <2>2. CASE (\E q \in Request : RStart(q)) \/ RFail
      BY <1>a, <2>2 DEF RStart, RFail, storeVars, recordVars
    <2>3. QED
      BY <1>2, <2>1, <2>2 DEF Migrate
  <1>3. CASE Cleanup
    <2>1. CASE CConclude
      <3>1. /\ cpass # None /\ cpass.pc = "work" /\ cpass.i > Len(Plan[cpass.req])
            /\ cpass \in CleanupPass /\ cpass' = None
        BY <1>0, <2>1 DEF CConclude, CleanupTypeOK
      <3>2. /\ cpass.req \in Request /\ cpass.base \in Migration /\ cpass.refs \in [Work -> Ref]
        BY <3>1 DEF CleanupPass
      <3>3. PICK phase : phase = IF cpass.all THEN "Completed" ELSE cpass.base.phase
        OBVIOUS
      <3>4. PICK new : new = [cpass.base EXCEPT !.refs = cpass.refs, !.phase = phase]
        OBVIOUS
      <3>5. PatchStatus(cpass.req, cpass.base, new)
        BY <2>1, <3>3, <3>4, Zenon DEF CConclude
      <3>6. phase \in Phase
        BY <3>2, <3>3 DEF Phase, Migration
      <3>7. IsRecord(new, cpass.base.hash, phase, cpass.refs)
        BY <3>2, <3>4, <3>6, PatchedBoth, Zenon
      <3>8. QED
        BY <1>0, <3>1, <3>2, <3>3, <3>5, <3>7, PatchSteps
           DEF RecordMove, Written, CleanupWrite, IsRecord
    <2>2. CASE CleanupStep /\ ~CConclude
      <3>1. UNCHANGED mig
        BY <2>2, Zenon DEF CleanupStep, CSkip, CDetach, CAwait, CApprove, CRefuse, CDelete,
           storeVars, recordVars
      <3>2. QED
        BY <1>a, <3>1
    <2>3. CASE (\E q \in Request : CStart(q)) \/ CFail
      BY <1>a, <2>3 DEF CStart, CFail, storeVars, recordVars
    <2>4. QED
      BY <1>3, <2>1, <2>2, <2>3 DEF Cleanup
  <1>4. CASE Surroundings
    <2>1. ASSUME NEW p \in Request, FileRequest(p) \/ DeleteRequest(p)
          PROVE  \A q \in Request : RecordMove(q)
      BY <1>0, <2>1 DEF FileRequest, DeleteRequest, RecordMove, StoreTypeOK
    <2>2. CASE ~(\E q \in Request : FileRequest(q) \/ DeleteRequest(q))
      <3>1. UNCHANGED mig
        BY <1>4, <2>2, Zenon DEF Surroundings, Deliver, SnapshotArrives, SnapshotChanges,
           BindingChanges, KarmadaApply, KarmadaReflect, KarmadaFinalize, SettleTemplate,
           BindPair, TemplateFault, PairFault, EditWork, RelabelWork, ForeignDelete, recordVars
      <3>2. QED
        BY <1>a, <3>1
    <2>3. QED
      BY <2>1, <2>2
  <1>5. QED
    BY <1>1, <1>2, <1>3, <1>4 DEF Next

\* A migration pass, field by field.
IsPass(r, pc, q, base, plan, refs, i, all, read) ==
    /\ r # None /\ r.pc = pc /\ r.req = q /\ r.base = base /\ r.plan = plan
    /\ r.refs = refs /\ r.i = i /\ r.all = all /\ r.read = read

\* The pass reads its request from the cache (the head of Reconcile) ...
Begun(q) ==
    /\ seen[q] # None /\ seen[q].phase \notin {"Ready", "Completed"}
    /\ IsPass(rpass', "gate", q, seen[q], None, seen[q].refs, 1, TRUE, [k \in Work |-> None])
    /\ UNCHANGED storeVars

\* ... passes the gate (validateBinding, BuildWorks and the planHash check) ...
Proceeded ==
    /\ AtGate /\ PlanBuilt
    /\ rpass.base.hash # None /\ rpass.base.hash = snapshot
    /\ IsPass(rpass', "work", rpass.req, rpass.base, snapshot, rpass.refs, rpass.i,
              rpass.all, rpass.read)
    /\ UNCHANGED storeVars

\* ... and takes the Works in turn: it skips what is detached, creates what is
\* absent, observes what is there, and starts or prepares a repair.
Turn(pc, refs, i, all, read) ==
    AtWork /\ IsPass(rpass', pc, rpass.req, rpass.base, rpass.plan, refs, i, all, read)

\* A Work that is detached is passed over.
Skipped ==
    /\ Turn("work", rpass.refs, rpass.i + 1, rpass.all, rpass.read)
    /\ RRef.detached
    /\ UNCHANGED storeVars

\* A Work that is absent is created, and not applied yet.
Created ==
    /\ Turn("work", rpass.refs, rpass.i + 1, FALSE, rpass.read)
    /\ ~RRef.detached /\ ~RRef.applied /\ RRef.repairUID = 0 /\ RWork = None
    /\ UNCHANGED <<recordVars, memberVars, gateVars, boundVars>>

\* A Work that is acceptable is observed.
Observed ==
    /\ ~RRef.detached /\ Acceptable
    /\ \E refs, all, read :
        /\ Turn("work", refs, rpass.i + 1, all, read)
        /\ refs = [rpass.refs EXCEPT ![RName] =
                     [RRef EXCEPT !.applied = WorkApplied(RName, RWork)]]
        /\ all = (rpass.all /\ WorkApplied(RName, RWork))
        /\ read \in {rpass.read, [rpass.read EXCEPT ![RName] = RWork]}
    /\ UNCHANGED storeVars

\* A Work that needs a repair gets an intent, to be written first ...
Intended ==
    /\ NeedsRepair /\ RRef.repairUID = 0
    /\ \E refs :
        /\ Turn("intent", refs, rpass.i, rpass.all, rpass.read)
        /\ refs = [rpass.refs EXCEPT ![RName] = [RRef EXCEPT !.repairUID = RWork.uid]]
    /\ UNCHANGED storeVars

\* ... and is repaired once the intent is on record.
Prepared ==
    /\ NeedsRepair /\ RRef.repairUID = RWork.uid
    /\ Turn("repair", rpass.refs, rpass.i, rpass.all, [rpass.read EXCEPT ![RName] = RWork])
    /\ UNCHANGED storeVars

\* A migration pass stays, ends, starts or goes on.
PassMove ==
    \/ UNCHANGED rpass
    \/ rpass' = None
    \/ \E q \in Request : Begun(q)
    \/ Proceeded \/ Skipped \/ Created \/ Observed \/ Intended \/ Prepared

\* A pass goes on, field by field.
LEMMA PassGoesOn ==
  ASSUME NEW r \in MigrationPass, NEW s, NEW f, NEW g, NEW h, NEW x
  PROVE  /\ s # None /\ s = [r EXCEPT !.pc = x, !.plan = f] =>
              IsPass(s, x, r.req, r.base, f, r.refs, r.i, r.all, r.read)
         /\ s # None /\ s = [r EXCEPT !.i = f] =>
              IsPass(s, r.pc, r.req, r.base, r.plan, r.refs, f, r.all, r.read)
         /\ s # None /\ s = [r EXCEPT !.i = f, !.all = x] =>
              IsPass(s, r.pc, r.req, r.base, r.plan, r.refs, f, x, r.read)
         /\ s # None /\ s = [r EXCEPT !.i = f, !.refs = g, !.all = x, !.read = h] =>
              IsPass(s, r.pc, r.req, r.base, r.plan, g, f, x, h)
         /\ s # None /\ s = [r EXCEPT !.pc = x, !.refs = g] =>
              IsPass(s, x, r.req, r.base, r.plan, g, r.i, r.all, r.read)
         /\ s # None /\ s = [r EXCEPT !.pc = x, !.read = h] =>
              IsPass(s, x, r.req, r.base, r.plan, r.refs, r.i, r.all, h)
  <1>1. ASSUME s # None, s = [r EXCEPT !.pc = x, !.plan = f]
       PROVE  IsPass(s, x, r.req, r.base, f, r.refs, r.i, r.all, r.read)
    BY <1>1, Zenon DEF IsPass, MigrationPass
  <1>2. ASSUME s # None, s = [r EXCEPT !.i = f]
       PROVE  IsPass(s, r.pc, r.req, r.base, r.plan, r.refs, f, r.all, r.read)
    BY <1>2, Zenon DEF IsPass, MigrationPass
  <1>3. ASSUME s # None, s = [r EXCEPT !.i = f, !.all = x]
       PROVE  IsPass(s, r.pc, r.req, r.base, r.plan, r.refs, f, x, r.read)
    BY <1>3, Zenon DEF IsPass, MigrationPass
  <1>4. ASSUME s # None, s = [r EXCEPT !.i = f, !.refs = g, !.all = x, !.read = h]
       PROVE  IsPass(s, r.pc, r.req, r.base, r.plan, g, f, x, h)
    BY <1>4, Zenon DEF IsPass, MigrationPass
  <1>5. ASSUME s # None, s = [r EXCEPT !.pc = x, !.refs = g]
       PROVE  IsPass(s, x, r.req, r.base, r.plan, g, r.i, r.all, r.read)
    BY <1>5, Zenon DEF IsPass, MigrationPass
  <1>6. ASSUME s # None, s = [r EXCEPT !.pc = x, !.read = h]
       PROVE  IsPass(s, x, r.req, r.base, r.plan, r.refs, r.i, r.all, h)
    BY <1>6, Zenon DEF IsPass, MigrationPass
  <1>7. QED
    BY <1>1, <1>2, <1>3, <1>4, <1>5, <1>6

\* Every step changes the migration pass in these ways only.
LEMMA PassMoves ==
  ASSUME TypeOK, [Next]_vars
  PROVE  PassMove
  <1> SUFFICES ASSUME rpass' # None PROVE PassMove
    BY DEF PassMove
  <1>1. CASE UNCHANGED vars \/ Cleanup \/ Surroundings \/ Crash
    BY <1>1, Zenon DEF vars, Cleanup, Surroundings, Crash, PassMove
  <1>2. CASE Migrate
    <2>1. ASSUME NEW q \in Request, RStart(q) PROVE PassMove
      <3>1. /\ seen[q] # None /\ seen[q].phase \notin {"Ready", "Completed"}
            /\ rpass' = [pc |-> "gate", req |-> q, base |-> seen[q], plan |-> None,
                         refs |-> seen[q].refs, i |-> 1, all |-> TRUE,
                         read |-> [k \in Work |-> None]]
            /\ UNCHANGED storeVars
        BY <2>1, Zenon DEF RStart
      <3>2. QED
        BY <3>1 DEF PassMove, Begun, IsPass
    <2>2. ASSUME rpass # None PROVE rpass \in MigrationPass
      BY <2>2 DEF TypeOK, MigrationTypeOK
    <2>3. CASE RProceed
      <3>1. /\ AtGate /\ PlanBuilt /\ rpass.base.hash # None
            /\ PlanMatches(rpass.base.hash, snapshot) /\ UNCHANGED storeVars
            /\ rpass' = [rpass EXCEPT !.pc = "work", !.plan = snapshot]
        BY <2>3, Zenon DEF RProceed
      <3>2. rpass \in MigrationPass
        BY <2>2, <3>1 DEF AtGate
      <3>3. IsPass(rpass', "work", rpass.req, rpass.base, snapshot, rpass.refs, rpass.i,
                   rpass.all, rpass.read)
        BY <3>1, <3>2, PassGoesOn, Zenon
      <3>4. QED
        BY <3>1, <3>3 DEF PassMove, Proceeded, PlanMatches
    <2>4. CASE RSkip
      <3>1. /\ AtWork /\ RRef.detached /\ UNCHANGED storeVars
            /\ rpass' = [rpass EXCEPT !.i = rpass.i + 1]
        BY <2>4, Zenon DEF RSkip
      <3>2. rpass \in MigrationPass /\ rpass.pc = "work"
        BY <2>2, <3>1 DEF AtWork
      <3>3. IsPass(rpass', rpass.pc, rpass.req, rpass.base, rpass.plan, rpass.refs,
                   rpass.i + 1, rpass.all, rpass.read)
        BY <3>1, <3>2, PassGoesOn, Zenon
      <3>4. QED
        BY <3>1, <3>2, <3>3 DEF PassMove, Skipped, Turn
    <2>5. CASE RCreate
      <3>1. /\ AtWork /\ ~RRef.detached /\ ~RRef.applied /\ RRef.repairUID = 0 /\ RWork = None
            /\ rpass' = [rpass EXCEPT !.i = rpass.i + 1, !.all = FALSE]
            /\ UNCHANGED <<mig, feed, externalToR>>
        BY <2>5, Zenon DEF RCreate
      <3>2. rpass \in MigrationPass /\ rpass.pc = "work"
        BY <2>2, <3>1 DEF AtWork
      <3>3. IsPass(rpass', rpass.pc, rpass.req, rpass.base, rpass.plan, rpass.refs,
                   rpass.i + 1, FALSE, rpass.read)
        BY <3>1, <3>2, PassGoesOn, Zenon
      <3>4. UNCHANGED <<recordVars, memberVars, gateVars, boundVars>>
        BY <3>1 DEF externalToR, recordVars
      <3>5. QED
        BY <3>1, <3>2, <3>3, <3>4 DEF PassMove, Created, Turn
    <2>6. CASE RObserve
      <3>1. PICK refs, all, read :
              /\ refs = [rpass.refs EXCEPT ![RName] =
                           [RRef EXCEPT !.applied = WorkApplied(RName, RWork)]]
              /\ all = (rpass.all /\ WorkApplied(RName, RWork))
              /\ read = IF Standalone(RName) THEN [rpass.read EXCEPT ![RName] = RWork]
                                             ELSE rpass.read
        OBVIOUS
      <3>2. /\ AtWork /\ ~RRef.detached /\ Acceptable /\ UNCHANGED storeVars
            /\ rpass' = [rpass EXCEPT !.i = rpass.i + 1, !.refs = refs, !.all = all,
                                      !.read = read]
        BY <2>6, <3>1, Zenon DEF RObserve
      <3>3. rpass \in MigrationPass /\ rpass.pc = "work"
        BY <2>2, <3>2 DEF AtWork
      <3>4. IsPass(rpass', rpass.pc, rpass.req, rpass.base, rpass.plan, refs,
                   rpass.i + 1, all, read)
        BY <3>2, <3>3, PassGoesOn, Zenon
      <3>5. read \in {rpass.read, [rpass.read EXCEPT ![RName] = RWork]}
        BY <3>1, Zenon
      <3>6. Turn("work", refs, rpass.i + 1, all, read)
        BY <3>2, <3>3, <3>4 DEF Turn
      <3>7. QED
        BY <3>1, <3>2, <3>5, <3>6, Zenon DEF PassMove, Observed
    <2>7. CASE RIntend
      <3>1. PICK refs : refs = [rpass.refs EXCEPT ![RName] =
                                  [RRef EXCEPT !.repairUID = RWork.uid]]
        OBVIOUS
      <3>2. /\ AtWork /\ NeedsRepair /\ RRef.repairUID = 0 /\ UNCHANGED storeVars
            /\ rpass' = [rpass EXCEPT !.pc = "intent", !.refs = refs]
        BY <2>7, <3>1, Zenon DEF RIntend
      <3>3. rpass \in MigrationPass
        BY <2>2, <3>2 DEF AtWork
      <3>4. Turn("intent", refs, rpass.i, rpass.all, rpass.read)
        BY <3>2, <3>3, PassGoesOn, Zenon DEF Turn
      <3>5. QED
        BY <3>1, <3>2, <3>4, Zenon DEF PassMove, Intended
    <2>8. CASE RPrepareRepair
      <3>1. PICK read : read = [rpass.read EXCEPT ![RName] = RWork]
        OBVIOUS
      <3>2. /\ AtWork /\ NeedsRepair /\ RRef.repairUID = RWork.uid /\ UNCHANGED storeVars
            /\ rpass' = [rpass EXCEPT !.pc = "repair", !.read = read]
        BY <2>8, <3>1, Zenon DEF RPrepareRepair
      <3>3. rpass \in MigrationPass
        BY <2>2, <3>2 DEF AtWork
      <3>4. Turn("repair", rpass.refs, rpass.i, rpass.all, read)
        BY <3>2, <3>3, PassGoesOn, Zenon DEF Turn
      <3>5. QED
        BY <3>1, <3>2, <3>4, Zenon DEF PassMove, Prepared
    <2>9. CASE RPend \/ RRecordPlan \/ RRefuse \/ RRecordIntent \/ RRepair \/ RConclude \/ RFail
      BY <2>9, Zenon DEF RPend, RRecordPlan, RRefuse, RRecordIntent, RRepair, RConclude, RFail
    <2>10. QED
      BY <1>2, <2>1, <2>3, <2>4, <2>5, <2>6, <2>7, <2>8, <2>9 DEF Migrate, MigrationStep
  <1>3. QED
    BY <1>1, <1>2 DEF Next

\* A reference with another applied mark, intent or receipt keeps the rest.
IsRef(s, applied, detached, repairUID, pvUID, pvcUID) ==
    /\ s.applied = applied /\ s.detached = detached /\ s.repairUID = repairUID
    /\ s.pvUID = pvUID /\ s.pvcUID = pvcUID

\* What each change of a reference leaves alone.
LEMMA MarkFields ==
  ASSUME NEW r \in Ref, NEW x, NEW u, NEW v, NEW s
  PROVE  /\ s = [r EXCEPT !.applied = x] =>
              IsRef(s, x, r.detached, r.repairUID, r.pvUID, r.pvcUID)
         /\ s = [r EXCEPT !.repairUID = u] =>
              IsRef(s, r.applied, r.detached, u, r.pvUID, r.pvcUID)
         /\ s = [r EXCEPT !.detached = x] =>
              IsRef(s, r.applied, x, r.repairUID, r.pvUID, r.pvcUID)
         /\ s = [r EXCEPT !.applied = x, !.pvUID = u, !.pvcUID = v] =>
              IsRef(s, x, r.detached, r.repairUID, u, v)
  BY Zenon DEF IsRef, Ref

\* What observing a Work changes of the pass.
LEMMA ObservedFields ==
  ASSUME TypeOK, Observed
  PROVE  /\ RName \in Work /\ rpass # None /\ rpass' # None
         /\ \A k \in Work \ {RName} : rpass'.refs[k] = rpass.refs[k]
         /\ rpass'.refs[RName].applied = WorkApplied(RName, RWork)
         /\ rpass'.refs[RName].detached = RRef.detached
         /\ rpass'.refs[RName].repairUID = RRef.repairUID
         /\ rpass'.refs[RName].pvUID = RRef.pvUID
         /\ rpass'.refs[RName].pvcUID = RRef.pvcUID
         /\ rpass'.all = (rpass.all /\ WorkApplied(RName, RWork))
         /\ \A k \in Work : rpass'.read[k] = rpass.read[k] \/
                            (k = RName /\ rpass'.read[k] = works[k])
  <1>1. PICK refs, all, read :
          /\ Turn("work", refs, rpass.i + 1, all, read)
          /\ refs = [rpass.refs EXCEPT ![RName] =
                       [RRef EXCEPT !.applied = WorkApplied(RName, RWork)]]
          /\ all = (rpass.all /\ WorkApplied(RName, RWork))
          /\ read \in {rpass.read, [rpass.read EXCEPT ![RName] = RWork]}
    BY DEF Observed
  <1>2. AtWork /\ rpass # None /\ rpass' # None
    BY <1>1 DEF Turn, AtWork, IsPass
  <1>3. /\ RName \in Work /\ RRef \in Ref
        /\ rpass.refs \in [Work -> Ref] /\ rpass.read \in [Work -> WorkObject \cup {None}]
    BY <1>2, AtWorkTyped DEF TypeOK, MigrationPass
  <1>4. rpass'.refs = refs /\ rpass'.all = all /\ rpass'.read = read
    BY <1>1 DEF Turn, IsPass
  <1>5. PICK mark : mark = [RRef EXCEPT !.applied = WorkApplied(RName, RWork)]
    OBVIOUS
  <1>6. IsRef(mark, WorkApplied(RName, RWork), RRef.detached, RRef.repairUID,
              RRef.pvUID, RRef.pvcUID)
    BY <1>3, <1>5, MarkFields, Zenon
  <1>7. refs[RName] = mark /\ \A k \in Work \ {RName} : refs[k] = rpass.refs[k]
    BY <1>1, <1>3, <1>5, Zenon
  <1>8. \A k \in Work : read[k] = rpass.read[k] \/ (k = RName /\ read[k] = works[k])
    BY <1>1, <1>3, Zenon DEF RWork
  <1>9. QED
    BY <1>1, <1>2, <1>3, <1>4, <1>6, <1>7, <1>8 DEF IsRef

\* What an intended repair changes of the pass.
LEMMA IntendedFields ==
  ASSUME TypeOK, Intended
  PROVE  /\ RName \in Work /\ rpass # None /\ rpass' # None /\ rpass'.pc = "intent"
         /\ \A k \in Work \ {RName} : rpass'.refs[k] = rpass.refs[k]
         /\ rpass'.refs[RName].applied = RRef.applied
         /\ rpass'.refs[RName].detached = RRef.detached
         /\ rpass'.refs[RName].repairUID = RWork.uid
         /\ rpass'.refs[RName].pvUID = RRef.pvUID
         /\ rpass'.refs[RName].pvcUID = RRef.pvcUID
         /\ rpass'.all = rpass.all /\ rpass'.read = rpass.read /\ rpass'.i = rpass.i
  <1>1. PICK refs :
          /\ Turn("intent", refs, rpass.i, rpass.all, rpass.read)
          /\ refs = [rpass.refs EXCEPT ![RName] = [RRef EXCEPT !.repairUID = RWork.uid]]
    BY DEF Intended
  <1>2. AtWork /\ rpass # None
    BY <1>1 DEF Turn, AtWork
  <1>3. RName \in Work /\ RRef \in Ref /\ rpass.refs \in [Work -> Ref]
    BY <1>2, AtWorkTyped DEF TypeOK, MigrationPass
  <1>4. PICK mark : mark = [RRef EXCEPT !.repairUID = RWork.uid]
    OBVIOUS
  <1>5. IsRef(mark, RRef.applied, RRef.detached, RWork.uid, RRef.pvUID, RRef.pvcUID)
    BY <1>3, <1>4, MarkFields, Zenon
  <1>6. refs[RName] = mark /\ \A k \in Work \ {RName} : refs[k] = rpass.refs[k]
    BY <1>1, <1>3, <1>4, Zenon
  <1>7. QED
    BY <1>1, <1>2, <1>3, <1>5, <1>6 DEF Turn, IsPass, IsRef

\* What preparing a repair changes of the pass.
LEMMA PreparedFields ==
  ASSUME TypeOK, Prepared
  PROVE  /\ RName \in Work /\ rpass # None /\ rpass' # None /\ rpass'.pc = "repair"
         /\ rpass'.refs = rpass.refs /\ rpass'.all = rpass.all /\ rpass'.i = rpass.i
         /\ rpass'.read[RName] = works[RName]
         /\ \A k \in Work \ {RName} : rpass'.read[k] = rpass.read[k]
  <1>1. PICK read :
          /\ Turn("repair", rpass.refs, rpass.i, rpass.all, read)
          /\ read = [rpass.read EXCEPT ![RName] = RWork]
    BY DEF Prepared
  <1>2. AtWork /\ rpass # None
    BY <1>1 DEF Turn, AtWork
  <1>3. RName \in Work /\ rpass.read \in [Work -> WorkObject \cup {None}]
    BY <1>2, AtWorkTyped DEF TypeOK, MigrationPass
  <1>4. read[RName] = works[RName] /\ \A k \in Work \ {RName} : read[k] = rpass.read[k]
    BY <1>1, <1>3, Zenon DEF RWork
  <1>5. QED
    BY <1>1, <1>2, <1>3, <1>4 DEF Turn, IsPass

\* What the fields of a Work become when somebody changes it.
SameWork(w, v) == v.uid = w.uid /\ v.gen = w.gen /\ v.preserve = w.preserve /\ v.owner = w.owner

\* A Work, field by field.
IsWork(v, uid, gen, preserve, owner, status) ==
    /\ v.uid = uid /\ v.gen = gen /\ v.preserve = preserve /\ v.owner = owner
    /\ v.status = status

\* A Work with another status, and nothing else new.
Resembles(w, v, status) == IsWork(v, w.uid, w.gen, w.preserve, w.owner, status)

\* What each change of a Work leaves alone.
LEMMA ChangedFields ==
  ASSUME NEW w \in WorkObject, NEW v, NEW g, NEW s
  PROVE  /\ v = [w EXCEPT !.dying = TRUE] =>
              IsWork(v, w.uid, w.gen, w.preserve, w.owner, w.status)
         /\ v = [w EXCEPT !.label = None] =>
              IsWork(v, w.uid, w.gen, w.preserve, w.owner, w.status)
         /\ v = [w EXCEPT !.cond = g] =>
              IsWork(v, w.uid, w.gen, w.preserve, w.owner, w.status)
         /\ v = [w EXCEPT !.status = s] =>
              IsWork(v, w.uid, w.gen, w.preserve, w.owner, s)
         /\ v = [w EXCEPT !.routed = TRUE, !.gen = g] =>
              IsWork(v, w.uid, g, w.preserve, w.owner, w.status)
         /\ v = [w EXCEPT !.preserve = FALSE, !.gen = g] =>
              IsWork(v, w.uid, g, FALSE, w.owner, w.status)
  BY Zenon DEF IsWork, WorkObject

\* A Work stays or goes, is reflected or carried on, is edited, is repaired by a
\* migration pass that has a copy of it, or is created by one.
Touched(k) ==
    /\ works[k] # None /\ SameWork(works[k], works'[k])
    /\ \/ works'[k].status = works[k].status
       \/ member[k] # None /\ works'[k].status = ReflectionOf(member[k])

\* Somebody edits the spec of a Work.
Edited(k) ==
    /\ works[k] # None /\ faults' # 0
    /\ works'[k].uid = works[k].uid /\ works'[k].owner = works[k].owner
    /\ ~works'[k].preserve /\ works'[k].status = works[k].status

\* A migration pass repairs the routing of a Work it has a copy of.
Repaired(k) ==
    /\ rpass # None /\ rpass.pc = "repair" /\ k = RName
    /\ works[k] # None /\ works[k] = rpass.read[k]
    /\ works'[k].uid = works[k].uid /\ works'[k].owner = works[k].owner
    /\ works'[k].gen = works[k].gen + 1
    /\ works'[k].preserve = works[k].preserve /\ works'[k].status = works[k].status

\* A migration pass creates a Work that is absent.
Made(k) ==
    /\ AtWork /\ k = RName /\ works[k] = None
    /\ ~RRef.detached /\ ~RRef.applied /\ RRef.repairUID = 0
    /\ works'[k] = NewWork(rpass.req, rpass.plan, births[k] + 1, TRUE)

\* Everything that can happen to a Work.
WorkMove(k) ==
    \/ works'[k] = works[k]
    \/ works'[k] = None
    \/ Touched(k) \/ Edited(k) \/ Repaired(k) \/ Made(k)

\* One Work changes at a time.
LEMMA OneWorkMoves ==
  ASSUME StoreTypeOK, NEW k, NEW w, works' = [works EXCEPT ![k] = w], k \in Work => WorkMove(k)
  PROVE  \A j \in Work : WorkMove(j)
  <1>1. ASSUME NEW j \in Work, j # k PROVE works'[j] = works[j]
    BY <1>1 DEF StoreTypeOK
  <1>2. QED
    BY <1>1 DEF WorkMove

\* Every step changes Works in these ways only.
LEMMA WorkMoves ==
  ASSUME TypeOK, [Next]_vars
  PROVE  \A k \in Work : WorkMove(k)
  <1>0. StoreTypeOK /\ MigrationTypeOK /\ CleanupTypeOK
    BY DEF TypeOK
  <1>a. ASSUME NEW k \in Work, works[k] # None PROVE works[k] \in WorkObject
    BY <1>0, <1>a DEF StoreTypeOK
  <1>b. ASSUME UNCHANGED works PROVE \A k \in Work : WorkMove(k)
    BY <1>b DEF WorkMove
  <1>c. ASSUME NEW k \in Work, works[k] # None, NEW w, works' = [works EXCEPT ![k] = w],
               \/ Resembles(works[k], w, works[k].status)
               \/ member[k] # None /\ Resembles(works[k], w, ReflectionOf(member[k]))
        PROVE  \A j \in Work : WorkMove(j)
    <2>1. works'[k] = w
      BY <1>0, <1>c DEF StoreTypeOK
    <2>2. QED
      BY <1>0, <1>c, <2>1, OneWorkMoves DEF WorkMove, Touched, Resembles, IsWork, SameWork
  <1>1. CASE UNCHANGED vars \/ Crash
    BY <1>1, <1>b DEF vars, storeVars, workVars, Crash
  <1>2. CASE Migrate
    <2>1. CASE RCreate
      <3>1. PICK w : w = NewWork(rpass.req, rpass.plan, births[RName] + 1, TRUE)
        OBVIOUS
      <3>2. /\ AtWork /\ RWork = None /\ works' = [works EXCEPT ![RName] = w]
            /\ ~RRef.detached /\ ~RRef.applied /\ RRef.repairUID = 0
        BY <2>1, <3>1, Zenon DEF RCreate
      <3>3. RName \in Work
        BY <1>0, <3>2, AtWorkTyped
      <3>4. works'[RName] = w
        BY <1>0, <3>2, <3>3 DEF StoreTypeOK
      <3>5. QED
        BY <1>0, <3>1, <3>2, <3>3, <3>4, OneWorkMoves DEF WorkMove, Made, RWork
    <2>2. CASE RRepair
      <3>1. CASE UNCHANGED works
        BY <1>b, <3>1
      <3>2. CASE works' # works
        <4>1. PICK w : w = [RWork EXCEPT !.routed = TRUE, !.gen = RWork.gen + 1]
          OBVIOUS
        <4>2. /\ rpass # None /\ rpass.pc = "repair" /\ RWork # None /\ RWork = rpass.read[RName]
              /\ works' = [works EXCEPT ![RName] = w]
          BY <2>2, <3>2, <4>1, Zenon DEF RRepair
        <4>3. ASSUME RName \in Work PROVE WorkMove(RName)
          <5>1. works'[RName] = w
            BY <1>0, <4>2, <4>3 DEF StoreTypeOK
          <5>2. /\ works[RName] \in WorkObject
                /\ w = [works[RName] EXCEPT !.routed = TRUE, !.gen = RWork.gen + 1]
            BY <1>a, <4>1, <4>2, <4>3 DEF RWork
          <5>3. IsWork(w, works[RName].uid, RWork.gen + 1, works[RName].preserve,
                       works[RName].owner, works[RName].status)
            BY <5>2, ChangedFields, Zenon
          <5>4. QED
            BY <4>2, <5>1, <5>3 DEF WorkMove, Repaired, RWork, IsWork
        <4>4. QED
          BY <1>0, <4>2, <4>3, OneWorkMoves
      <3>3. QED
        BY <3>1, <3>2
    <2>3. CASE MigrationStep /\ ~RCreate /\ ~RRepair
      <3>1. UNCHANGED works
        BY <2>3, Zenon DEF MigrationStep, RPend, RRecordPlan, RProceed, RSkip, RObserve, RRefuse,
           RIntend, RRecordIntent, RPrepareRepair, RConclude, storeVars, workVars
      <3>2. QED
        BY <1>b, <3>1
    <2>4. CASE (\E q \in Request : RStart(q)) \/ RFail
      BY <1>b, <2>4 DEF RStart, RFail, storeVars, workVars
    <2>5. QED
      BY <1>2, <2>1, <2>2, <2>3, <2>4 DEF Migrate
  <1>3. CASE Cleanup
    <2>1. CASE CDelete
      <3>1. CASE UNCHANGED works
        BY <1>b, <3>1
      <3>2. CASE works' # works
        <4>1. PICK w : w = [works[CName] EXCEPT !.dying = TRUE]
          OBVIOUS
        <4>2. works[CName] # None /\ works' = [works EXCEPT ![CName] = w]
          BY <2>1, <3>2, <4>1, Zenon DEF CDelete, CWork
        <4>3. CASE CName \in Work
          <5>1. works[CName] \in WorkObject
            BY <1>a, <4>2, <4>3
          <5>2. Resembles(works[CName], w, works[CName].status)
            BY <4>1, <5>1, ChangedFields, Zenon DEF Resembles
          <5>3. QED
            BY <1>c, <4>2, <4>3, <5>2
        <4>4. CASE CName \notin Work
          BY <1>0, <4>2, <4>4, OneWorkMoves
        <4>5. QED
          BY <4>3, <4>4
      <3>3. QED
        BY <3>1, <3>2
    <2>2. CASE CleanupStep /\ ~CDelete
      <3>1. UNCHANGED works
        BY <2>2, Zenon DEF CleanupStep, CSkip, CDetach, CAwait, CApprove, CRefuse, CConclude,
           storeVars, workVars
      <3>2. QED
        BY <1>b, <3>1
    <2>3. CASE (\E q \in Request : CStart(q)) \/ CFail
      BY <1>b, <2>3 DEF CStart, CFail, storeVars, workVars
    <2>4. QED
      BY <1>3, <2>1, <2>2, <2>3 DEF Cleanup
  <1>4. CASE Surroundings
    <2>1. ASSUME NEW k \in Work, KarmadaApply(k) PROVE \A j \in Work : WorkMove(j)
      <3>1. PICK g : works[k] # None /\ works' = [works EXCEPT ![k] = [works[k] EXCEPT !.cond = g]]
        BY <2>1, Zenon DEF KarmadaApply
      <3>2. PICK w : w = [works[k] EXCEPT !.cond = g]
        OBVIOUS
      <3>3. Resembles(works[k], w, works[k].status)
        <4>1. works[k] \in WorkObject
          BY <1>a, <3>1, <3>2
        <4>2. QED
          BY <3>1, <3>2, <4>1, ChangedFields, Zenon DEF Resembles
      <3>4. QED
        BY <1>c, <3>1, <3>2, <3>3
    <2>2. ASSUME NEW k \in Work, KarmadaReflect(k) PROVE \A j \in Work : WorkMove(j)
      <3>1. PICK w : w = [works[k] EXCEPT !.status = ReflectionOf(member[k])]
        OBVIOUS
      <3>2. works[k] # None /\ works' = [works EXCEPT ![k] = w] /\ member[k] # None
        BY <2>2, <3>1, Zenon DEF KarmadaReflect, InSync
      <3>3. Resembles(works[k], w, ReflectionOf(member[k]))
        <4>1. works[k] \in WorkObject
          BY <1>a, <3>1, <3>2
        <4>2. QED
          BY <3>1, <3>2, <4>1, ChangedFields, Zenon DEF Resembles
      <3>4. QED
        BY <1>c, <3>2, <3>3
    <2>3. ASSUME NEW k \in Work, KarmadaFinalize(k) PROVE \A j \in Work : WorkMove(j)
      BY <1>0, <2>3, OneWorkMoves DEF KarmadaFinalize, WorkMove, StoreTypeOK
    <2>4. ASSUME NEW k \in Work, EditWork(k) PROVE \A j \in Work : WorkMove(j)
      <3>1. PICK w : w = [works[k] EXCEPT !.preserve = FALSE, !.gen = works[k].gen + 1]
        OBVIOUS
      <3>2. works[k] # None /\ works' = [works EXCEPT ![k] = w] /\ faults' = faults + 1
        BY <2>4, <3>1, Zenon DEF EditWork, Disturb
      <3>3. IsWork(w, works[k].uid, works[k].gen + 1, FALSE, works[k].owner, works[k].status)
        <4>1. works[k] \in WorkObject
          BY <1>a, <3>2
        <4>2. QED
          BY <3>1, <4>1, ChangedFields, Zenon
      <3>4. faults \in Nat /\ works'[k] = w
        BY <1>0, <2>4, <3>2, BoundsAssumption DEF StoreTypeOK
      <3>5. WorkMove(k)
        BY <3>2, <3>3, <3>4 DEF WorkMove, Edited, IsWork
      <3>6. QED
        BY <1>0, <3>2, <3>5, OneWorkMoves
    <2>5. ASSUME NEW k \in Work, RelabelWork(k) PROVE \A j \in Work : WorkMove(j)
      <3>1. PICK w : w = [works[k] EXCEPT !.label = None]
        OBVIOUS
      <3>2. works[k] # None /\ works' = [works EXCEPT ![k] = w]
        BY <2>5, <3>1, Zenon DEF RelabelWork
      <3>3. Resembles(works[k], w, works[k].status)
        <4>1. works[k] \in WorkObject
          BY <1>a, <3>1, <3>2
        <4>2. QED
          BY <3>1, <3>2, <4>1, ChangedFields, Zenon DEF Resembles
      <3>4. QED
        BY <1>c, <3>2, <3>3
    <2>6. ASSUME NEW k \in Work, ForeignDelete(k) PROVE \A j \in Work : WorkMove(j)
      <3>1. PICK w : w = [works[k] EXCEPT !.dying = TRUE]
        OBVIOUS
      <3>2. works[k] # None /\ works' = [works EXCEPT ![k] = w]
        BY <2>6, <3>1, Zenon DEF ForeignDelete
      <3>3. Resembles(works[k], w, works[k].status)
        <4>1. works[k] \in WorkObject
          BY <1>a, <3>1, <3>2
        <4>2. QED
          BY <3>1, <3>2, <4>1, ChangedFields, Zenon DEF Resembles
      <3>4. QED
        BY <1>c, <3>2, <3>3
    <2>7. CASE \/ Deliver \/ SnapshotArrives \/ SnapshotChanges \/ BindingChanges
               \/ \E q \in Request : FileRequest(q) \/ DeleteRequest(q)
               \/ \E k \in Work : \/ SettleTemplate(k) \/ BindPair(k)
                                  \/ TemplateFault(k) \/ PairFault(k)
      <3>1. UNCHANGED works
        BY <2>7, Zenon DEF Deliver, SnapshotArrives, SnapshotChanges, BindingChanges, FileRequest,
           DeleteRequest, SettleTemplate, BindPair, TemplateFault, PairFault, workVars
      <3>2. QED
        BY <1>b, <3>1
    <2>8. QED
      BY <1>4, <2>1, <2>2, <2>3, <2>4, <2>5, <2>6, <2>7 DEF Surroundings
  <1>5. QED
    BY <1>1, <1>2, <1>3, <1>4 DEF Next

\* A cleanup pass, field by field.
IsClean(r, pc, q, base, refs, i, all, read) ==
    /\ r # None /\ r.pc = pc /\ r.req = q /\ r.base = base
    /\ r.refs = refs /\ r.i = i /\ r.all = all /\ r.read = read

\* A cleanup pass starts from a Ready request.
CBegun(q) ==
    /\ seen[q] # None /\ seen[q].phase = "Ready"
    /\ IsClean(cpass', "work", q, seen[q], seen[q].refs, 1, TRUE, None)

\* It takes the Works in turn: one is detached already, or gone, or on its way,
\* or approved for deletion, and then deleted.
CTurn(pc, refs, i, all, read) ==
    AtCleanup /\ CRef.applied /\ IsClean(cpass', pc, cpass.req, cpass.base, refs, i, all, read)

\* A Work that is detached is passed over.
CSkipped == CTurn("work", cpass.refs, cpass.i + 1, cpass.all, cpass.read) /\ CRef.detached

\* A Work that is gone is marked detached.
CGone ==
    /\ ~CRef.detached /\ CWork = None
    /\ \E refs :
        /\ CTurn("work", refs, cpass.i + 1, cpass.all, cpass.read)
        /\ refs = [cpass.refs EXCEPT ![CName] = [CRef EXCEPT !.detached = TRUE]]

\* A Work on its way out, or not to be deleted yet, is waited for.
CAwaited ==
    CTurn("work", cpass.refs, cpass.i + 1, FALSE, cpass.read) /\ ~CRef.detached

\* A Work is approved for deletion ...
CApproved ==
    /\ CTurn("delete", cpass.refs, cpass.i, FALSE, CWork) /\ ~CRef.detached
    /\ CWork # None /\ CleanupOwned /\ ~CWork.dying /\ EvidenceStands

\* ... and deleted.
CDeleted ==
    /\ cpass # None /\ cpass.pc = "delete"
    /\ IsClean(cpass', "work", cpass.req, cpass.base, cpass.refs, cpass.i + 1, cpass.all, None)

\* A cleanup pass stays, ends, starts or goes on.
CleanMove ==
    \/ UNCHANGED cpass
    \/ cpass' = None
    \/ \E q \in Request : CBegun(q)
    \/ CSkipped \/ CGone \/ CAwaited \/ CApproved \/ CDeleted

\* A cleanup pass goes on, field by field.
LEMMA CleanGoesOn ==
  ASSUME NEW r \in CleanupPass, NEW s, NEW f, NEW g, NEW h, NEW x
  PROVE  /\ s # None /\ s = [r EXCEPT !.i = f] =>
              IsClean(s, r.pc, r.req, r.base, r.refs, f, r.all, r.read)
         /\ s # None /\ s = [r EXCEPT !.i = f, !.refs = g] =>
              IsClean(s, r.pc, r.req, r.base, g, f, r.all, r.read)
         /\ s # None /\ s = [r EXCEPT !.i = f, !.all = x] =>
              IsClean(s, r.pc, r.req, r.base, r.refs, f, x, r.read)
         /\ s # None /\ s = [r EXCEPT !.pc = g, !.read = h, !.all = x] =>
              IsClean(s, g, r.req, r.base, r.refs, r.i, x, h)
         /\ s # None /\ s = [r EXCEPT !.pc = g, !.i = f, !.read = h] =>
              IsClean(s, g, r.req, r.base, r.refs, f, r.all, h)
  <1>1. ASSUME s # None, s = [r EXCEPT !.i = f]
       PROVE  IsClean(s, r.pc, r.req, r.base, r.refs, f, r.all, r.read)
    BY <1>1, Zenon DEF IsClean, CleanupPass
  <1>2. ASSUME s # None, s = [r EXCEPT !.i = f, !.refs = g]
       PROVE  IsClean(s, r.pc, r.req, r.base, g, f, r.all, r.read)
    BY <1>2, Zenon DEF IsClean, CleanupPass
  <1>3. ASSUME s # None, s = [r EXCEPT !.i = f, !.all = x]
       PROVE  IsClean(s, r.pc, r.req, r.base, r.refs, f, x, r.read)
    BY <1>3, Zenon DEF IsClean, CleanupPass
  <1>4. ASSUME s # None, s = [r EXCEPT !.pc = g, !.read = h, !.all = x]
       PROVE  IsClean(s, g, r.req, r.base, r.refs, r.i, x, h)
    BY <1>4, Zenon DEF IsClean, CleanupPass
  <1>5. ASSUME s # None, s = [r EXCEPT !.pc = g, !.i = f, !.read = h]
       PROVE  IsClean(s, g, r.req, r.base, r.refs, f, r.all, h)
    BY <1>5, Zenon DEF IsClean, CleanupPass
  <1>6. QED
    BY <1>1, <1>2, <1>3, <1>4, <1>5

\* Every step changes the cleanup pass in these ways only.
LEMMA CleanMoves ==
  ASSUME TypeOK, [Next]_vars
  PROVE  CleanMove
  <1> SUFFICES ASSUME cpass' # None PROVE CleanMove
    BY DEF CleanMove
  <1>1. CASE UNCHANGED vars \/ Migrate \/ Surroundings \/ Crash
    BY <1>1, Zenon DEF vars, Migrate, Surroundings, Crash, CleanMove
  <1>2. CASE Cleanup
    <2>1. ASSUME NEW q \in Request, CStart(q) PROVE CleanMove
      <3>1. /\ seen[q] # None /\ seen[q].phase = "Ready"
            /\ cpass' = [pc |-> "work", req |-> q, base |-> seen[q], refs |-> seen[q].refs,
                         i |-> 1, all |-> TRUE, read |-> None]
        BY <2>1, Zenon DEF CStart
      <3>2. QED
        BY <3>1 DEF CleanMove, CBegun, IsClean
    <2>2. ASSUME cpass # None PROVE cpass \in CleanupPass
      BY <2>2 DEF TypeOK, CleanupTypeOK
    <2>3. CASE CSkip
      <3>1. /\ AtCleanup /\ CRef.applied /\ CRef.detached
            /\ cpass' = [cpass EXCEPT !.i = cpass.i + 1]
        BY <2>3, Zenon DEF CSkip
      <3>2. cpass \in CleanupPass /\ cpass.pc = "work"
        BY <2>2, <3>1 DEF AtCleanup
      <3>3. IsClean(cpass', cpass.pc, cpass.req, cpass.base, cpass.refs, cpass.i + 1, cpass.all,
                    cpass.read)
        BY <3>1, <3>2, CleanGoesOn, Zenon
      <3>4. QED
        BY <3>1, <3>2, <3>3 DEF CleanMove, CSkipped, CTurn
    <2>4. CASE CDetach
      <3>1. PICK refs : refs = [cpass.refs EXCEPT ![CName] = [CRef EXCEPT !.detached = TRUE]]
        OBVIOUS
      <3>2. /\ AtCleanup /\ CRef.applied /\ ~CRef.detached /\ CWork = None
            /\ cpass' = [cpass EXCEPT !.i = cpass.i + 1, !.refs = refs]
        BY <2>4, <3>1, Zenon DEF CDetach
      <3>3. cpass \in CleanupPass /\ cpass.pc = "work"
        BY <2>2, <3>2 DEF AtCleanup
      <3>4. IsClean(cpass', cpass.pc, cpass.req, cpass.base, refs, cpass.i + 1, cpass.all,
                    cpass.read)
        BY <3>2, <3>3, CleanGoesOn, Zenon
      <3>5. CTurn("work", refs, cpass.i + 1, cpass.all, cpass.read)
        BY <3>2, <3>3, <3>4 DEF CTurn
      <3>6. QED
        BY <3>1, <3>2, <3>5, Zenon DEF CleanMove, CGone
    <2>5. CASE CAwait
      <3>1. /\ AtCleanup /\ CRef.applied /\ ~CRef.detached
            /\ cpass' = [cpass EXCEPT !.i = cpass.i + 1, !.all = FALSE]
        BY <2>5, Zenon DEF CAwait
      <3>2. cpass \in CleanupPass /\ cpass.pc = "work"
        BY <2>2, <3>1 DEF AtCleanup
      <3>3. IsClean(cpass', cpass.pc, cpass.req, cpass.base, cpass.refs, cpass.i + 1, FALSE,
                    cpass.read)
        BY <3>1, <3>2, CleanGoesOn, Zenon
      <3>4. QED
        BY <3>1, <3>2, <3>3 DEF CleanMove, CAwaited, CTurn
    <2>6. CASE CApprove
      <3>1. PICK w : w = CWork
        OBVIOUS
      <3>2. /\ AtCleanup /\ CRef.applied /\ ~CRef.detached /\ CWork # None
            /\ CleanupOwned /\ ~CWork.dying /\ EvidenceStands
            /\ cpass' = [cpass EXCEPT !.pc = "delete", !.read = w, !.all = FALSE]
        BY <2>6, <3>1, Zenon DEF CApprove
      <3>3. cpass \in CleanupPass
        BY <2>2, <3>2 DEF AtCleanup
      <3>4. IsClean(cpass', "delete", cpass.req, cpass.base, cpass.refs, cpass.i, FALSE, w)
        BY <3>2, <3>3, CleanGoesOn, Zenon
      <3>5. CTurn("delete", cpass.refs, cpass.i, FALSE, CWork)
        BY <3>1, <3>2, <3>4 DEF CTurn
      <3>6. QED
        BY <3>2, <3>5, Zenon DEF CleanMove, CApproved
    <2>7. CASE CDelete
      <3>1. /\ cpass # None /\ cpass.pc = "delete"
            /\ cpass' = [cpass EXCEPT !.pc = "work", !.i = cpass.i + 1, !.read = None]
        BY <2>7, Zenon DEF CDelete
      <3>2. cpass \in CleanupPass
        BY <2>2, <3>1
      <3>3. IsClean(cpass', "work", cpass.req, cpass.base, cpass.refs, cpass.i + 1, cpass.all,
                    None)
        BY <3>1, <3>2, CleanGoesOn, Zenon
      <3>4. QED
        BY <3>1, <3>3 DEF CleanMove, CDeleted
    <2>8. CASE CRefuse \/ CConclude \/ CFail
      BY <2>8, Zenon DEF CRefuse, CConclude, CFail
    <2>9. QED
      BY <1>2, <2>1, <2>3, <2>4, <2>5, <2>6, <2>7, <2>8 DEF Cleanup, CleanupStep
  <1>3. QED
    BY <1>1, <1>2 DEF Next

\* What finding a Work gone changes of the pass.
LEMMA GoneFields ==
  ASSUME TypeOK, CGone
  PROVE  /\ CName \in Work /\ cpass # None /\ cpass' # None
         /\ \A k \in Work \ {CName} : cpass'.refs[k] = cpass.refs[k]
         /\ cpass'.refs[CName].applied = CRef.applied
         /\ cpass'.refs[CName].detached
         /\ cpass'.refs[CName].repairUID = CRef.repairUID
         /\ cpass'.refs[CName].pvUID = CRef.pvUID
         /\ cpass'.refs[CName].pvcUID = CRef.pvcUID
  <1>1. PICK refs :
          /\ CTurn("work", refs, cpass.i + 1, cpass.all, cpass.read)
          /\ refs = [cpass.refs EXCEPT ![CName] = [CRef EXCEPT !.detached = TRUE]]
    BY DEF CGone
  <1>2. AtCleanup /\ cpass # None
    BY <1>1 DEF CTurn, AtCleanup
  <1>3. CName \in Work /\ CRef \in Ref /\ cpass.refs \in [Work -> Ref]
    BY <1>2, AtCleanupTyped DEF TypeOK, CleanupPass
  <1>4. PICK mark : mark = [CRef EXCEPT !.detached = TRUE]
    OBVIOUS
  <1>5. IsRef(mark, CRef.applied, TRUE, CRef.repairUID, CRef.pvUID, CRef.pvcUID)
    BY <1>3, <1>4, MarkFields, Zenon
  <1>6. refs[CName] = mark /\ \A k \in Work \ {CName} : refs[k] = cpass.refs[k]
    BY <1>1, <1>3, <1>4, Zenon
  <1>7. QED
    BY <1>1, <1>2, <1>3, <1>5, <1>6 DEF CTurn, IsClean, IsRef

\* A member object, field by field.
IsObject(o, uid, peer, good) == o.uid = uid /\ o.peer = peer /\ o.good = good

\* What each change of a member object leaves alone.
LEMMA ObjectFields ==
  ASSUME NEW o \in MemberObject, NEW n, NEW b, NEW u, NEW q, NEW r
  PROVE  /\ n = [o EXCEPT !.good = b] => IsObject(n, o.uid, o.peer, b)
         /\ n = [o EXCEPT !.owner = q, !.routed = r] => IsObject(n, o.uid, o.peer, o.good)
         /\ n = [o EXCEPT !.good = b, !.peer = u] => IsObject(n, o.uid, u, b)
         /\ n = [o EXCEPT !.good = b, !.uid = u] => IsObject(n, u, o.peer, b)
  BY Zenon DEF IsObject, MemberObject

\* A member object stays as it is bound or not, is not bound, or is bound now.
ObjectMove(k) ==
    \/ member'[k] = member[k]
    \/ member'[k] = None
    \/ /\ member[k] # None
       /\ IsObject(member'[k], member[k].uid, member[k].peer, member[k].good)
    \/ ~member'[k].good
    \/ k \notin DOMAIN PvcOf
    \/ k \in DOMAIN PvcOf /\ <<k, member'[k].uid, member'[k].peer>> \in bonds'

\* A volume that is on the target stays there: only a disturbance, or the end of
\* a Work that does not preserve its object, takes it away.
HeldMove(k) ==
    \/ Held(k) => Held(k)'
    \/ faults' # 0
    \/ works[k] # None /\ ~works[k].preserve

\* Every step changes the target cluster in these ways only.
LEMMA ObjectMoves ==
  ASSUME TypeOK, [Next]_vars
  PROVE  /\ bonds \subseteq bonds'
         /\ \A k \in Work : ObjectMove(k) /\ HeldMove(k)
  <1>0. StoreTypeOK /\ StoreTypeOK'
    BY NextTyped DEF TypeOK
  <1>a. ASSUME NEW k \in Work, member[k] # None PROVE member[k] \in MemberObject
    BY <1>0, <1>a DEF StoreTypeOK
  <1>b. ASSUME NEW o \in MemberObject PROVE o # None
    BY <1>b, NoneIsNoRecord
  <1>c. CASE UNCHANGED <<member, bonds>>
    BY <1>c DEF ObjectMove, HeldMove, Held
  <1>1. UNCHANGED vars \/ Migrate \/ Cleanup \/ Crash => UNCHANGED <<member, bonds>>
    <2>1. Migrate => UNCHANGED <<member, bonds>>
      BY Zenon DEF Migrate, MigrationStep, RStart, RFail, RPend, RRecordPlan, RProceed, RSkip,
         RCreate, RObserve, RRefuse, RIntend, RRecordIntent, RPrepareRepair, RRepair, RConclude,
         externalToR, storeVars, memberVars
    <2>2. Cleanup => UNCHANGED <<member, bonds>>
      BY Zenon DEF Cleanup, CleanupStep, CStart, CFail, CSkip, CDetach, CAwait, CApprove,
         CRefuse, CDelete, CConclude, externalToC, storeVars, memberVars
    <2>3. QED
      BY <2>1, <2>2, Zenon DEF vars, storeVars, memberVars, Crash
  <1>2. CASE Surroundings
    <2>1. ASSUME NEW k \in Work, KarmadaApply(k)
          PROVE  bonds \subseteq bonds' /\ \A j \in Work : ObjectMove(j) /\ HeldMove(j)
      <3>1. bonds' = bonds
        BY <2>1, Zenon DEF KarmadaApply
      <3>2. CASE member[k] = None
        <4>1. /\ member' = [member EXCEPT ![k] = NewMemberObject(k, works[k])]
          BY <2>1, <3>2, Zenon DEF KarmadaApply
        <4>2. ASSUME NEW j \in Work, j # k PROVE member'[j] = member[j]
          BY <1>0, <4>1, <4>2 DEF StoreTypeOK
        <4>3. ~member'[k].good /\ ~Held(k)
          BY <1>0, <3>2, <4>1 DEF StoreTypeOK, NewMemberObject, Held
        <4>4. QED
          BY <3>1, <4>2, <4>3 DEF ObjectMove, HeldMove, Held
      <3>3. CASE member[k] # None
        <4>1. PICK o : o = [member[k] EXCEPT !.owner = works[k].owner, !.routed = works[k].routed]
          OBVIOUS
        <4>2. member' = [member EXCEPT ![k] = o]
          BY <2>1, <3>3, <4>1, Zenon DEF KarmadaApply
        <4>3. member'[k] = o /\ \A j \in Work : j # k => member'[j] = member[j]
          BY <1>0, <4>2 DEF StoreTypeOK
        <4>4. member[k] \in MemberObject
          BY <1>a, <3>3
        <4>5. IsObject(o, member[k].uid, member[k].peer, member[k].good)
          BY <4>1, <4>4, ObjectFields, Zenon
        <4>6. Held(k) => Held(k)'
          <5>1. works[k] \in WorkObject
            BY <1>0, <2>1 DEF KarmadaApply, StoreTypeOK
          <5>2. o \in MemberObject
            BY <4>1, <4>4, <5>1, MemberChanges, Zenon DEF WorkObject
          <5>3. QED
            BY <1>b, <4>3, <4>5, <5>2 DEF Held, IsObject
        <4>7. QED
          BY <3>1, <3>3, <4>3, <4>5, <4>6 DEF ObjectMove, HeldMove, Held
      <3>4. QED
        BY <3>2, <3>3
    <2>2. ASSUME NEW k \in Work, KarmadaFinalize(k)
          PROVE  bonds \subseteq bonds' /\ \A j \in Work : ObjectMove(j) /\ HeldMove(j)
      <3>1. bonds' = bonds /\ works[k] # None
        BY <2>2, Zenon DEF KarmadaFinalize
      <3>2. CASE member' = member
        BY <1>c, <3>1, <3>2
      <3>3. CASE member' = [member EXCEPT ![k] = None] /\ ~works[k].preserve
        <4>1. ASSUME NEW j \in Work, j # k PROVE member'[j] = member[j]
          BY <1>0, <3>3, <4>1 DEF StoreTypeOK
        <4>2. member'[k] = None
          BY <1>0, <3>3 DEF StoreTypeOK
        <4>3. QED
          BY <3>1, <3>3, <4>1, <4>2 DEF ObjectMove, HeldMove, Held
      <3>4. QED
        BY <2>2, <3>2, <3>3 DEF KarmadaFinalize
    <2>3. ASSUME NEW k \in Work, SettleTemplate(k)
          PROVE  bonds \subseteq bonds' /\ \A j \in Work : ObjectMove(j) /\ HeldMove(j)
      <3>1. PICK o : o = [member[k] EXCEPT !.good = TRUE]
        OBVIOUS
      <3>2. /\ member[k] # None /\ ~member[k].good /\ ~Standalone(k)
            /\ bonds' = bonds /\ member' = [member EXCEPT ![k] = o]
        BY <2>3, <3>1, Zenon DEF SettleTemplate
      <3>3. \A j \in Work : j # k => member'[j] = member[j]
        BY <1>0, <3>2 DEF StoreTypeOK
      <3>4. QED
        BY <3>2, <3>3 DEF ObjectMove, HeldMove, Held, Standalone
    <2>4. ASSUME NEW pv \in Work, BindPair(pv)
          PROVE  bonds \subseteq bonds' /\ \A j \in Work : ObjectMove(j) /\ HeldMove(j)
      <3>1. PICK pvc, o, p :
              /\ pvc = PvcOf[pv]
              /\ o = [member[pv] EXCEPT !.good = TRUE, !.peer = member[pvc].uid]
              /\ p = [member[pvc] EXCEPT !.good = TRUE]
        OBVIOUS
      <3>2. /\ pv \in DOMAIN PvcOf /\ member[pv] # None /\ member[pvc] # None
            /\ bonds' = bonds \cup {<<pv, member[pv].uid, member[pvc].uid>>}
            /\ member' = [member EXCEPT ![pv] = o, ![pvc] = p]
        BY <2>4, <3>1, Zenon DEF BindPair
      <3>3. pvc \in Work /\ pvc \notin DOMAIN PvcOf /\ pvc # pv
        BY <3>1, <3>2, PlanAssumption
      <3>4. /\ member'[pv] = o /\ member'[pvc] = p
            /\ \A j \in Work : j # pv /\ j # pvc => member'[j] = member[j]
        BY <1>0, <3>2, <3>3 DEF StoreTypeOK
      <3>5. member[pv] \in MemberObject /\ member[pvc] \in MemberObject
        BY <1>a, <3>2, <3>3
      <3>6. IsObject(o, member[pv].uid, member[pvc].uid, TRUE)
        BY <3>1, <3>5, ObjectFields, Zenon
      <3>7. IsObject(p, member[pvc].uid, member[pvc].peer, TRUE)
        BY <3>1, <3>5, ObjectFields, Zenon
      <3>8. o # None /\ p # None
        <4>1. member[pvc].uid \in Nat
          BY <3>5 DEF MemberObject
        <4>2. o \in MemberObject /\ p \in MemberObject
          BY <3>1, <3>5, <4>1, MemberChanges, Zenon
        <4>3. QED
          BY <1>b, <4>2
      <3>9. ObjectMove(pv)
        BY <3>2, <3>4, <3>6 DEF ObjectMove, IsObject
      <3>10. Held(pv)' /\ Held(pvc)'
        BY <3>4, <3>6, <3>7, <3>8 DEF Held, IsObject
      <3>11. QED
        BY <3>2, <3>3, <3>4, <3>9, <3>10 DEF ObjectMove, HeldMove, Held
    <2>5. ASSUME NEW k \in Work, TemplateFault(k)
          PROVE  bonds \subseteq bonds' /\ \A j \in Work : ObjectMove(j) /\ HeldMove(j)
      <3>1. PICK o : o = [member[k] EXCEPT !.good = FALSE]
        OBVIOUS
      <3>2. /\ ~Standalone(k) /\ bonds' = bonds /\ faults' = faults + 1
            /\ member' = [member EXCEPT ![k] = o]
        BY <2>5, <3>1, Zenon DEF TemplateFault, Disturb
      <3>3. \A j \in Work : j # k => member'[j] = member[j]
        BY <1>0, <3>2 DEF StoreTypeOK
      <3>4. faults' # 0
        BY <1>0, <3>2, BoundsAssumption DEF StoreTypeOK
      <3>5. QED
        BY <3>2, <3>3, <3>4 DEF ObjectMove, HeldMove, Standalone
    <2>6. ASSUME NEW pv \in Work, PairFault(pv)
          PROVE  bonds \subseteq bonds' /\ \A j \in Work : ObjectMove(j) /\ HeldMove(j)
      <3>1. PICK remade :
              member' = [k \in Work |->
                 IF k \in {pv, PvcOf[pv]}
                 THEN [member[k] EXCEPT !.good = FALSE,
                                        !.uid = IF k \in remade THEN minted[k] + 1
                                                ELSE member[k].uid]
                 ELSE member[k]]
        BY <2>6, Zenon DEF PairFault
      <3>2. /\ bonds' = bonds /\ faults' = faults + 1
            /\ \A k \in {pv, PvcOf[pv]} : member[k] # None
        BY <2>6, Zenon DEF PairFault, Disturb
      <3>3. faults' # 0
        BY <1>0, <3>2, BoundsAssumption DEF StoreTypeOK
      <3>4. ASSUME NEW k \in Work PROVE ObjectMove(k)
        <4>1. CASE k \in {pv, PvcOf[pv]}
          <5>1. PICK u : member'[k] = [member[k] EXCEPT !.good = FALSE, !.uid = u]
            BY <3>1, <4>1, Zenon
          <5>2. member[k] \in MemberObject
            BY <1>a, <3>2, <4>1
          <5>3. IsObject(member'[k], u, member[k].peer, FALSE)
            BY <5>1, <5>2, ObjectFields, Zenon
          <5>4. QED
            BY <5>3 DEF ObjectMove, IsObject
        <4>2. CASE k \notin {pv, PvcOf[pv]}
          <5>1. member'[k] = member[k]
            BY <3>1, <4>2, Zenon
          <5>2. QED
            BY <5>1 DEF ObjectMove
        <4>3. QED
          BY <4>1, <4>2
      <3>5. QED
        BY <3>2, <3>3, <3>4 DEF HeldMove
    <2>7. CASE \/ Deliver \/ SnapshotArrives \/ SnapshotChanges \/ BindingChanges
               \/ \E q \in Request : FileRequest(q) \/ DeleteRequest(q)
               \/ \E k \in Work : KarmadaReflect(k) \/ EditWork(k) \/ RelabelWork(k)
                                  \/ ForeignDelete(k)
      <3>1. UNCHANGED <<member, bonds>>
        BY <2>7, Zenon DEF Deliver, SnapshotArrives, SnapshotChanges, BindingChanges, FileRequest,
           DeleteRequest, KarmadaReflect, EditWork, RelabelWork, ForeignDelete, memberVars
      <3>2. QED
        BY <1>c, <3>1
    <2>8. QED
      BY <1>2, <2>1, <2>2, <2>3, <2>4, <2>5, <2>6, <2>7 DEF Surroundings
  <1>3. QED
    BY <1>1, <1>2, <1>c DEF Next

\* What a pass concludes of each Work: the receipt of a pair changes its marks, and
\* nothing else does.
LEMMA ConcludedFields ==
  ASSUME rpass \in MigrationPass, NEW k \in Work
  PROVE  /\ ConcludedRefs[k].detached = rpass.refs[k].detached
         /\ ConcludedRefs[k].repairUID = rpass.refs[k].repairUID
         /\ k \notin PairWorks => ConcludedRefs[k] = rpass.refs[k]
         /\ k \in PairWorks =>
              LET pv == PairPV(k) IN
              /\ ConcludedRefs[k].applied = PairApplied(k)
              /\ PairApplied(k) =>
                   /\ ConcludedRefs[k].pvUID = rpass.read[pv].status.uid
                   /\ ConcludedRefs[k].pvcUID = rpass.read[PvcOf[pv]].status.uid
  <1>1. ConcludedRefs[k] = IF k \in PairWorks THEN Receipted(k) ELSE rpass.refs[k]
    BY DEF ConcludedRefs
  <1>2. rpass.refs[k] \in Ref
    BY DEF MigrationPass
  <1>3. PICK pv, u, v :
          /\ pv = PairPV(k)
          /\ u = IF PairApplied(k) THEN rpass.read[pv].status.uid ELSE 0
          /\ v = IF PairApplied(k) THEN rpass.read[PvcOf[pv]].status.uid ELSE 0
    OBVIOUS
  <1>4. Receipted(k) = [rpass.refs[k] EXCEPT !.applied = PairApplied(k), !.pvUID = u, !.pvcUID = v]
    BY <1>3, Zenon DEF Receipted
  <1>5. IsRef(Receipted(k), PairApplied(k), rpass.refs[k].detached, rpass.refs[k].repairUID, u, v)
    BY <1>2, <1>4, MarkFields, Zenon
  <1>6. QED
    BY <1>1, <1>3, <1>5 DEF IsRef

-----------------------------------------------------------------------------
(* The repair of a Work is on record before it is made.                    *)

\* No write takes back an intent that is on record.
LEMMA WrittenIntents ==
  ASSUME TypeOK, IntentCopies, NEW q \in Request, Written(q), NEW k \in Work,
         mig[q].refs[k].repairUID # 0
  PROVE  mig'[q].refs[k].repairUID = mig[q].refs[k].repairUID
  <1>1. CASE GateWrite(q)
    BY <1>1 DEF GateWrite
  <1>2. CASE IntentWrite(q)
    BY <1>2 DEF IntentWrite, IntentCopies, IntentsOf
  <1>3. CASE ConcludeWrite(q)
    <2>1. rpass # None /\ rpass.pc # "intent" /\ mig[q] = rpass.base /\ mig'[q].refs = ConcludedRefs
      BY <1>3 DEF ConcludeWrite
    <2>2. rpass \in MigrationPass
      BY <2>1 DEF TypeOK, MigrationTypeOK
    <2>3. ConcludedRefs[k].repairUID = rpass.refs[k].repairUID
      BY <2>2, ConcludedFields
    <2>4. QED
      BY <2>1, <2>3 DEF IntentCopies
  <1>4. CASE CleanupWrite(q)
    BY <1>4 DEF CleanupWrite, IntentCopies, IntentsOf
  <1>5. QED
    BY <1>1, <1>2, <1>3, <1>4 DEF Written

\* An intent that a copy shows is still the one on record after the step.
IntentAfter(m, q) ==
    mig'[q] # None =>
        \A k \in Work : m.refs[k].repairUID # 0 =>
            mig'[q].refs[k].repairUID = m.refs[k].repairUID

\* No step unsets or changes an intent that a copy shows.
LEMMA IntentKept ==
  ASSUME TypeOK, [Next]_vars, PlanInv, IntentCopies,
         NEW q \in Request, NEW m, IntentAgrees(m, q), born[q] # 0
  PROVE  IntentAfter(m, q)
  <1>1. CASE mig'[q] = mig[q] \/ mig'[q] = None
    BY <1>1 DEF IntentAgrees, IntentAfter
  <1>2. CASE Written(q)
    <2>1. mig[q] # None
      BY <1>2 DEF Written, GateWrite, IntentWrite, ConcludeWrite, CleanupWrite, PlanInv,
         MigrationPassFollows, CleanupPassFollows
    <2>2. QED
      BY <1>2, <2>1, WrittenIntents DEF IntentAgrees, IntentAfter
  <1>3. QED
    BY <1>1, <1>2, RecordMoves DEF RecordMove

\* No pass, and no delivery to the cache, loses an intent (the status is read back
\* before the repair).
LEMMA IntentCopiesKept ==
  ASSUME TypeOK, [Next]_vars, PlanInv, IntentCopies
  PROVE  IntentCopies'
  <1>a. ASSUME NEW q \in Request, seen[q] # None PROVE IntentAfter(seen[q], q)
    BY <1>a, IntentKept DEF IntentCopies, PlanInv, NothingBeforeFiling
  <1>b. ASSUME rpass # None PROVE IntentAfter(rpass.base, rpass.req) /\ rpass.req \in Request
    <2>1. rpass.req \in Request
      BY <1>b DEF TypeOK, MigrationTypeOK, MigrationPass
    <2>2. QED
      BY <1>b, <2>1, IntentKept DEF IntentCopies, PlanInv, NothingBeforeFiling
  <1>c. ASSUME cpass # None PROVE IntentAfter(cpass.base, cpass.req) /\ cpass.req \in Request
    <2>1. cpass.req \in Request
      BY <1>c DEF TypeOK, CleanupTypeOK, CleanupPass
    <2>2. QED
      BY <1>c, <2>1, IntentKept DEF IntentCopies, PlanInv, NothingBeforeFiling
  <1>1. ASSUME NEW q \in Request, seen'[q] # None PROVE IntentAgrees(seen[q], q)'
    <2>1. CASE seen'[q] = seen[q]
      BY <1>1, <1>a, <2>1 DEF IntentAfter, IntentAgrees
    <2>2. CASE seen'[q] = mig[q] /\ mig'[q] = mig[q]
      BY <2>2 DEF IntentAgrees
    <2>3. QED
      BY <2>1, <2>2, CacheSteps
  <1> DEFINE Follows(r) ==
        /\ IntentsOf(r.refs, r.base)
        /\ r.pc # "intent" => \A k \in Work : r.refs[k].repairUID = r.base.refs[k].repairUID
  <1>2. ASSUME rpass' # None PROVE IntentAgrees(rpass.base, rpass.req)' /\ Follows(rpass')
    <2>1. CASE UNCHANGED rpass
      BY <1>2, <1>b, <2>1 DEF IntentAfter, IntentAgrees, IntentCopies
    <2>2. ASSUME NEW q \in Request, Begun(q)
          PROVE  IntentAgrees(rpass.base, rpass.req)' /\ Follows(rpass')
      BY <1>a, <2>2 DEF Begun, IsPass, IntentAfter, IntentAgrees, IntentsOf
    <2>3. CASE Proceeded \/ Skipped \/ Created \/ Prepared
      <3>1. /\ rpass # None /\ rpass.pc # "intent" /\ rpass'.req = rpass.req
            /\ rpass'.base = rpass.base /\ rpass'.refs = rpass.refs
        BY <2>3 DEF Proceeded, Skipped, Created, Prepared, Turn, IsPass, AtGate, AtWork
      <3>2. QED
        BY <1>b, <3>1 DEF IntentAfter, IntentAgrees, IntentCopies, IntentsOf
    <2>4. CASE Observed
      <3>1. /\ rpass # None /\ rpass.pc # "intent" /\ rpass'.req = rpass.req
            /\ rpass'.base = rpass.base
        BY <2>4 DEF Observed, Turn, IsPass, AtWork
      <3>2. \A k \in Work : rpass'.refs[k].repairUID = rpass.refs[k].repairUID
        BY <2>4, ObservedFields DEF RRef
      <3>3. QED
        BY <1>b, <3>1, <3>2 DEF IntentAfter, IntentAgrees, IntentCopies, IntentsOf
    <2>5. CASE Intended
      <3>1. /\ rpass # None /\ rpass.pc # "intent" /\ rpass'.req = rpass.req
            /\ rpass'.base = rpass.base /\ rpass'.pc = "intent" /\ RRef.repairUID = 0
        BY <2>5 DEF Intended, Turn, IsPass, AtWork
      <3>2. \A k \in Work : rpass.refs[k].repairUID = rpass.base.refs[k].repairUID
        BY <3>1 DEF IntentCopies
      <3>3. \A k \in Work : rpass.base.refs[k].repairUID # 0 =>
              rpass'.refs[k].repairUID = rpass.base.refs[k].repairUID
        BY <2>5, <3>1, <3>2, IntendedFields DEF RRef
      <3>4. QED
        BY <1>b, <3>1, <3>3 DEF IntentAfter, IntentAgrees, IntentsOf
    <2>6. QED
      BY <1>2, <2>1, <2>2, <2>3, <2>4, <2>5, PassMoves DEF PassMove
  <1>3. ASSUME cpass' # None
        PROVE  IntentAgrees(cpass.base, cpass.req)' /\ IntentsOf(cpass'.refs, cpass'.base)
    <2>1. CASE UNCHANGED cpass
      BY <1>3, <1>c, <2>1 DEF IntentAfter, IntentAgrees, IntentCopies
    <2>2. ASSUME NEW q \in Request, CBegun(q)
          PROVE  IntentAgrees(cpass.base, cpass.req)' /\ IntentsOf(cpass'.refs, cpass'.base)
      BY <1>a, <2>2 DEF CBegun, IsClean, IntentAfter, IntentAgrees, IntentsOf
    <2>3. CASE CSkipped \/ CAwaited \/ CApproved \/ CDeleted
      <3>1. /\ cpass # None /\ cpass'.req = cpass.req
            /\ cpass'.base = cpass.base /\ cpass'.refs = cpass.refs
        BY <2>3 DEF CSkipped, CAwaited, CApproved, CDeleted, CTurn, IsClean, AtCleanup
      <3>2. QED
        BY <1>c, <3>1 DEF IntentAfter, IntentAgrees, IntentCopies
    <2>4. CASE CGone
      <3>1. cpass # None /\ cpass'.req = cpass.req /\ cpass'.base = cpass.base
        BY <2>4 DEF CGone, CTurn, IsClean, AtCleanup
      <3>2. \A k \in Work : cpass'.refs[k].repairUID = cpass.refs[k].repairUID
        BY <2>4, GoneFields DEF CRef
      <3>3. QED
        BY <1>c, <3>1, <3>2 DEF IntentAfter, IntentAgrees, IntentCopies, IntentsOf
    <2>5. QED
      BY <1>3, <2>1, <2>2, <2>3, <2>4, CleanMoves DEF CleanMove
  <1>4. QED
    BY <1>1, <1>2, <1>3 DEF IntentCopies

\* The one edit of a Work was prepared on the Work as it was made, with its intent
\* read back (ensureWorkRouting).
LEMMA RepairKept ==
  ASSUME TypeOK, [Next]_vars, PlanInv, IntentInv
  PROVE  IntentInv'
  <1> USE DEF IntentInv
  <1>1. IntentCopies'
    BY IntentCopiesKept
  <1>2. WorksNumbered'
    <2>1. ASSUME NEW k \in Work, works'[k] # None
          PROVE  works'[k].uid # 0 /\ (works'[k].preserve => works'[k].gen \in {1, 2})
      <3>1. CASE works'[k] = works[k] \/ Touched(k) \/ Edited(k)
        BY <2>1, <3>1 DEF WorksNumbered, Touched, SameWork, Edited
      <3>2. CASE Repaired(k)
        BY <3>2 DEF WorksNumbered, Repaired, RepairPrepared
      <3>3. CASE Made(k)
        BY <3>3 DEF Made, NewWork, TypeOK, StoreTypeOK
      <3>4. QED
        BY <2>1, <3>1, <3>2, <3>3, WorkMoves DEF WorkMove
    <2>2. QED
      BY <2>1 DEF WorksNumbered
  <1>3. RepairPrepared'
    <2>1. CASE UNCHANGED rpass
      BY <2>1 DEF RepairPrepared, RName, RRef
    <2>2. CASE Prepared
      <3>1. /\ AtWork /\ NeedsRepair /\ RRef.repairUID = RWork.uid
            /\ rpass'.req = rpass.req /\ rpass'.i = rpass.i /\ rpass'.refs = rpass.refs
        BY <2>2 DEF Prepared, Turn, IsPass
      <3>2. rpass'.read[RName] = RWork
        BY <2>2, PreparedFields DEF RWork
      <3>3. RWork # None /\ RWork.gen = 1 /\ RWork.owner = rpass.req
        BY <3>1 DEF NeedsRepair, Repairable, LegacySpecMatches
      <3>4. RName' = RName /\ RRef' = RRef
        BY <3>1 DEF RName, RRef
      <3>5. QED
        BY <3>1, <3>2, <3>3, <3>4 DEF RepairPrepared, AtWork
    <2>3. CASE rpass' = None
      BY <2>3 DEF RepairPrepared
    <2>4. CASE \/ \E q \in Request : Begun(q)
               \/ Proceeded \/ Skipped \/ Created \/ Observed \/ Intended
      <3>1. rpass'.pc # "repair"
        BY <2>4 DEF Begun, Proceeded, Skipped, Created, Observed, Intended, Turn, IsPass
      <3>2. QED
        BY <3>1 DEF RepairPrepared
    <2>5. QED
      BY <2>1, <2>2, <2>3, <2>4, PassMoves DEF PassMove
  <1>4. RepairIntended'
    <2>1. SUFFICES ASSUME NEW k \in Work, works'[k] # None, works'[k].preserve, works'[k].gen = 2,
                          mig'[works'[k].owner] # None
                   PROVE  mig'[works'[k].owner].refs[k].repairUID = works'[k].uid
      BY DEF RepairIntended
    <2>2. CASE works'[k] = works[k] \/ Touched(k)
      <3> DEFINE q == works[k].owner
      <3>1. /\ works[k] # None /\ works[k].preserve /\ works[k].gen = 2
            /\ works'[k].owner = q /\ works'[k].uid = works[k].uid
        BY <2>1, <2>2 DEF Touched, SameWork
      <3>2. q \in Request
        BY <3>1 DEF TypeOK, StoreTypeOK, WorkObject
      <3>3. born[q] # 0
        BY <3>1, <3>2 DEF PlanInv, NothingBeforeFiling
      <3>4. mig[q] # None
        BY <2>1, <3>1, <3>2, <3>3, FiledOnce DEF PlanInv
      <3>5. mig[q].refs[k].repairUID = works[k].uid /\ works[k].uid # 0
        BY <3>1, <3>4 DEF RepairIntended, WorksNumbered
      <3>6. IntentAfter(mig[q], q)
        BY <3>2, <3>3, IntentKept DEF IntentAgrees
      <3>7. QED
        BY <2>1, <3>1, <3>5, <3>6 DEF IntentAfter
    <2>3. CASE Repaired(k)
      <3>1. /\ rpass # None /\ rpass.pc = "repair" /\ k = RName /\ works[k] = rpass.read[k]
            /\ works'[k].owner = works[k].owner /\ works'[k].uid = works[k].uid
        BY <2>3 DEF Repaired
      <3>2. works[k].owner = rpass.req /\ works[k].uid = RRef.repairUID /\ works[k].uid # 0
        BY <2>3, <3>1 DEF RepairPrepared, WorksNumbered, Repaired
      <3>3. rpass.base.refs[k].repairUID = works[k].uid
        BY <3>1, <3>2 DEF IntentCopies, RRef
      <3>4. rpass.req \in Request /\ born[rpass.req] # 0 /\ IntentAgrees(rpass.base, rpass.req)
        BY <3>1
           DEF TypeOK, MigrationTypeOK, MigrationPass, PlanInv, NothingBeforeFiling, IntentCopies
      <3>5. IntentAfter(rpass.base, rpass.req)
        BY <3>4, IntentKept
      <3>6. QED
        BY <2>1, <3>1, <3>2, <3>3, <3>5 DEF IntentAfter
    <2>4. CASE Edited(k) \/ Made(k)
      BY <2>1, <2>4 DEF Edited, Made, NewWork
    <2>5. QED
      BY <2>1, <2>2, <2>3, <2>4, WorkMoves DEF WorkMove
  <1>5. QED
    BY <1>1, <1>2, <1>3, <1>4

\* At the start nothing is intended, and every Work there is as it was made.
LEMMA IntentInit == Init => IntentInv
  <1> SUFFICES ASSUME Init PROVE IntentInv
    OBVIOUS
  <1>1. rpass = None /\ cpass = None /\ seen = mig
    BY DEF Init, StoreInit, MigrationInit, CleanupInit
  <1>2. ASSUME NEW k \in Work, works[k] # None
        PROVE  works[k].uid = 1 /\ works[k].gen = 1
    BY <1>2 DEF Init, StoreInit, NewWork
  <1>3. IntentCopies
    BY <1>1 DEF IntentCopies, IntentAgrees
  <1>4. QED
    BY <1>1, <1>2, <1>3 DEF IntentInv, WorksNumbered, RepairPrepared, RepairIntended

\* It holds forever.
LEMMA IntentHolds == Spec => []IntentInv
  <1>1. TypeOK /\ SafetyInv /\ IntentInv /\ [Next]_vars => IntentInv'
    BY RepairKept DEF SafetyInv
  <1>2. QED
    BY <1>1, IntentInit, SafetyHolds, TypeCorrect, PTL DEF Spec

\* The one edit the reconciler makes to a Work is on record, with the UID of that
\* Work, before it is made, whatever becomes of the pass, the cache and the Work in
\* between (ensureWorkRouting).
THEOREM RepairOnRecord == Spec => []RepairIntended
  <1>1. IntentInv => RepairIntended
    BY DEF IntentInv
  <1>2. QED
    BY <1>1, IntentHolds, PTL

-----------------------------------------------------------------------------
(* The receipts of a pair name a bond that existed.                        *)

\* The two Works of a pair find the same pair by their label.
LEMMA PairOfBoth ==
  ASSUME NEW pv \in DOMAIN PvcOf
  PROVE  /\ PvcOf[pv] \in Work
         /\ Standalone(pv) /\ Standalone(PvcOf[pv])
         /\ PairPV(pv) = pv /\ PairPV(PvcOf[pv]) = pv
  <1>1. PvcOf[pv] \in Work /\ PvcOf[pv] \notin DOMAIN PvcOf
    BY PlanAssumption
  <1>2. \A p \in DOMAIN PvcOf : PvcOf[p] = PvcOf[pv] => p = pv
    BY PlanAssumption DEF IsInjective
  <1>3. PvcOf[pv] \in Range(PvcOf)
    BY DEF Range
  <1>4. PairPV(PvcOf[pv]) = CHOOSE p \in DOMAIN PvcOf : PvcOf[p] = PvcOf[pv]
    BY <1>1 DEF PairPV
  <1>5. QED
    BY <1>1, <1>2, <1>3, <1>4 DEF Standalone, PairPV

\* The place of a Work in the plan.
LEMMA PlannedAt ==
  ASSUME NEW q \in Request
  PROVE  /\ \A j \in 1..Len(Plan[q]) : Plan[q][j] \in Works(q)
         /\ \A k \in Works(q) : \E j \in 1..Len(Plan[q]) : Plan[q][j] = k
         /\ Works(q) \subseteq Work
  BY PlanTyped, PlanAssumption DEF Works, Range

\* Whatever was bound stays known as such, from the target cluster to the Works and
\* to the copies that a pass keeps of them.
LEMMA BondsKept ==
  ASSUME TypeOK, [Next]_vars, BondsTrue
  PROVE  BondsTrue'
  <1>1. SUFFICES ASSUME NEW pv \in DOMAIN PvcOf
                 PROVE  /\ BondKept(pv, member[pv])'
                        /\ works'[pv] # None => BondKept(pv, works[pv].status)'
                        /\ rpass' # None /\ rpass'.read[pv] # None =>
                             BondKept(pv, rpass.read[pv].status)'
    BY DEF BondsTrue
  <1>2. pv \in Work /\ bonds \subseteq bonds'
    BY ObjectMoves, PlanAssumption
  <1>3. /\ BondKept(pv, member[pv])
        /\ works[pv] # None => BondKept(pv, works[pv].status)
        /\ rpass # None /\ rpass.read[pv] # None => BondKept(pv, rpass.read[pv].status)
    BY DEF BondsTrue
  <1>4. BondKept(pv, member[pv])'
    <2>1. ObjectMove(pv)
      BY <1>2, ObjectMoves
    <2>2. QED
      BY <1>2, <1>3, <2>1 DEF ObjectMove, BondKept, IsObject
  <1>5. ASSUME works'[pv] # None PROVE BondKept(pv, works[pv].status)'
    <2>1. CASE works[pv] # None /\ works'[pv].status = works[pv].status
      BY <1>2, <1>3, <2>1 DEF BondKept
    <2>2. CASE member[pv] # None /\ works'[pv].status = ReflectionOf(member[pv])
      BY <1>2, <1>3, <2>2 DEF BondKept, ReflectionOf
    <2>3. CASE Made(pv)
      BY <2>3 DEF Made, NewWork, BondKept
    <2>4. QED
      BY <1>2, <1>5, <2>1, <2>2, <2>3, WorkMoves
         DEF WorkMove, Touched, Edited, Repaired
  <1>6. ASSUME rpass' # None, rpass'.read[pv] # None PROVE BondKept(pv, rpass.read[pv].status)'
    <2>1. CASE rpass # None /\ rpass'.read[pv] = rpass.read[pv]
      BY <1>2, <1>3, <1>6, <2>1 DEF BondKept
    <2>2. CASE rpass'.read[pv] = works[pv]
      BY <1>2, <1>3, <1>6, <2>2 DEF BondKept
    <2>3. CASE UNCHANGED rpass \/ Proceeded \/ Skipped \/ Created
      <3>1. rpass # None /\ rpass'.read = rpass.read
        BY <1>6, <2>3 DEF Proceeded, Skipped, Created, Turn, IsPass, AtGate, AtWork
      <3>2. QED
        BY <2>1, <3>1
    <2>4. ASSUME NEW q \in Request, Begun(q) PROVE FALSE
      BY <1>2, <1>6, <2>4 DEF Begun, IsPass
    <2>5. CASE Observed
      BY <1>2, <2>1, <2>2, <2>5, ObservedFields
    <2>6. CASE Intended \/ Prepared
      BY <1>2, <2>1, <2>2, <2>6, IntendedFields, PreparedFields
    <2>7. QED
      BY <1>6, <2>3, <2>4, <2>5, <2>6, PassMoves DEF PassMove
  <1>7. QED
    BY <1>4, <1>5, <1>6

\* A pass keeps copies only of Works that it came by.
LEMMA CopiesKept ==
  ASSUME TypeOK, [Next]_vars, CopiesPlanned
  PROVE  CopiesPlanned'
  <1>1. SUFFICES ASSUME rpass' # None, NEW k \in Work, rpass'.read[k] # None
                 PROVE  k \in Works(rpass'.req)
    BY DEF CopiesPlanned
  <1>2. CASE rpass # None /\ rpass'.req = rpass.req /\ rpass'.read[k] = rpass.read[k]
    BY <1>1, <1>2 DEF CopiesPlanned
  <1>3. CASE AtWork /\ rpass'.req = rpass.req /\ k = RName
    <2>1. rpass.req \in Request /\ rpass.i \in 1..Len(Plan[rpass.req])
      BY <1>3, PlanTyped DEF AtWork, TypeOK, MigrationTypeOK, MigrationPass
    <2>2. QED
      BY <1>3, <2>1, PlannedAt DEF RName
  <1>4. CASE UNCHANGED rpass \/ Proceeded \/ Skipped \/ Created \/ Intended
    <2>1. rpass # None /\ rpass'.req = rpass.req /\ rpass'.read = rpass.read
      BY <1>1, <1>4, IntendedFields
         DEF Proceeded, Skipped, Created, Intended, Turn, IsPass, AtGate, AtWork
    <2>2. QED
      BY <1>2, <2>1
  <1>5. ASSUME NEW q \in Request, Begun(q) PROVE FALSE
    BY <1>1, <1>5 DEF Begun, IsPass
  <1>6. CASE Observed \/ Prepared
    <2>1. AtWork /\ rpass # None /\ rpass'.req = rpass.req
      BY <1>6 DEF Observed, Prepared, Turn, IsPass, AtWork
    <2>2. rpass'.read[k] = rpass.read[k] \/ k = RName
      BY <1>6, ObservedFields, PreparedFields
    <2>3. QED
      BY <1>2, <1>3, <2>1, <2>2
  <1>7. QED
    BY <1>1, <1>4, <1>5, <1>6, PassMoves DEF PassMove

\* Nothing is detached by a migration pass.
LEMMA UndetachedKept ==
  ASSUME TypeOK, [Next]_vars, PassesApart, NothingDetachedEarly
  PROVE  NothingDetachedEarly'
  <1>1. ASSUME NEW q \in Request, mig'[q] # None PROVE OpenUndetached(mig'[q])
    <2>1. CASE mig'[q] = mig[q]
      BY <1>1, <2>1 DEF NothingDetachedEarly
    <2>2. CASE mig'[q] = NewMigration
      BY <2>2 DEF OpenUndetached, NewMigration, NewRef
    <2>3. CASE GateWrite(q)
      <3>1. /\ mig[q] = rpass.base /\ mig'[q].refs = rpass.base.refs /\ rpass # None
            /\ mig[q] # None
        BY <2>3, NoneIsNoRecord DEF GateWrite, TypeOK, MigrationTypeOK, MigrationPass
      <3>2. QED
        BY <3>1 DEF NothingDetachedEarly, OpenUndetached, PassesApart
    <2>4. CASE IntentWrite(q)
      BY <2>4 DEF IntentWrite, OpenUndetached, NothingDetachedEarly
    <2>5. CASE ConcludeWrite(q)
      <3>1. rpass # None /\ rpass \in MigrationPass /\ mig'[q].refs = ConcludedRefs
        BY <2>5 DEF ConcludeWrite, TypeOK, MigrationTypeOK
      <3>2. \A k \in Work : ~ConcludedRefs[k].detached
        BY <3>1, ConcludedFields DEF NothingDetachedEarly
      <3>3. QED
        BY <3>1, <3>2 DEF OpenUndetached
    <2>6. CASE CleanupWrite(q)
      BY <2>6 DEF CleanupWrite, OpenUndetached, PassesApart
    <2>7. QED
      BY <1>1, <2>1, <2>2, <2>3, <2>4, <2>5, <2>6, RecordMoves DEF RecordMove, Written
  <1>2. ASSUME NEW q \in Request, seen'[q] # None PROVE OpenUndetached(seen'[q])
    BY <1>2, CacheSteps DEF NothingDetachedEarly
  <1>3. ASSUME rpass' # None, NEW k \in Work PROVE ~rpass'.refs[k].detached
    <2>1. CASE UNCHANGED rpass \/ Proceeded \/ Skipped \/ Created
      <3>1. rpass # None /\ rpass'.refs = rpass.refs
        BY <1>3, <2>1 DEF Proceeded, Skipped, Created, Turn, IsPass, AtGate, AtWork
      <3>2. QED
        BY <3>1 DEF NothingDetachedEarly
    <2>2. ASSUME NEW q \in Request, Begun(q) PROVE ~rpass'.refs[k].detached
      BY <2>2 DEF Begun, IsPass, NothingDetachedEarly, OpenUndetached
    <2>3. CASE Observed
      BY <2>3, ObservedFields DEF NothingDetachedEarly, RRef
    <2>4. CASE Intended
      BY <2>4, IntendedFields DEF NothingDetachedEarly, RRef
    <2>5. CASE Prepared
      BY <2>5, PreparedFields DEF NothingDetachedEarly
    <2>6. QED
      BY <1>3, <2>1, <2>2, <2>3, <2>4, <2>5, PassMoves DEF PassMove
  <1>4. QED
    BY <1>1, <1>2, <1>3 DEF NothingDetachedEarly

\* A pass that misses nothing has found every Work it passed applied (the flag
\* all of the loop of Reconcile).
LEMMA MigrationThoroughKept ==
  ASSUME TypeOK, [Next]_vars, NothingDetachedEarly, MigrationThorough
  PROVE  MigrationThorough'
  <1>1. SUFFICES ASSUME rpass' # None, rpass'.all, NEW j \in 1..(rpass'.i - 1),
                        j <= Len(Plan[rpass'.req])
                 PROVE  rpass'.refs[Plan[rpass'.req][j]].applied
    BY DEF MigrationThorough
  <1>a. ASSUME rpass # None
        PROVE  /\ rpass.req \in Request /\ rpass.i \in Nat \ {0}
               /\ \A i \in 1..Len(Plan[rpass.req]) : Plan[rpass.req][i] \in Work
    BY <1>a, PlanTyped DEF TypeOK, MigrationTypeOK, MigrationPass
  <1>2. CASE rpass # None /\ rpass.all /\ rpass'.req = rpass.req /\ rpass'.i = rpass.i /\
             \A k \in Work : rpass'.refs[k].applied = rpass.refs[k].applied
    <2>1. Plan[rpass.req][j] \in Work
      BY <1>1, <1>2, <1>a, PlanTyped
    <2>2. QED
      BY <1>1, <1>2, <2>1 DEF MigrationThorough
  <1>3. CASE UNCHANGED rpass \/ Proceeded
    <2>1. /\ rpass # None /\ rpass'.all = rpass.all /\ rpass'.req = rpass.req
          /\ rpass'.i = rpass.i /\ rpass'.refs = rpass.refs
      BY <1>1, <1>3 DEF Proceeded, IsPass, AtGate
    <2>2. QED
      BY <1>1, <1>2, <2>1
  <1>4. ASSUME NEW q \in Request, Begun(q) PROVE FALSE
    BY <1>1, <1>4 DEF Begun, IsPass
  <1>5. CASE Skipped
    <2>1. rpass # None /\ RRef.detached /\ RName \in Work
      BY <1>5, AtWorkTyped DEF Skipped, Turn, AtWork, TypeOK
    <2>2. QED
      BY <2>1 DEF NothingDetachedEarly, RRef
  <1>6. CASE Created
    BY <1>1, <1>6 DEF Created, Turn, IsPass
  <1>7. CASE Observed
    <2>1. /\ rpass # None /\ rpass'.req = rpass.req /\ rpass'.i = rpass.i + 1
      BY <1>7 DEF Observed, Turn, IsPass, AtWork
    <2>2. /\ rpass.all /\ rpass'.refs[RName].applied
          /\ \A k \in Work \ {RName} : rpass'.refs[k] = rpass.refs[k]
      BY <1>1, <1>7, ObservedFields
    <2>3. CASE Plan[rpass.req][j] = RName
      BY <2>1, <2>2, <2>3
    <2>4. CASE Plan[rpass.req][j] # RName
      <3>1. j # rpass.i
        BY <2>4 DEF RName
      <3>2. j \in 1..(rpass.i - 1)
        BY <1>1, <1>a, <2>1, <3>1
      <3>3. Plan[rpass.req][j] \in Work /\ j <= Len(Plan[rpass.req])
        BY <1>1, <1>a, <2>1, <3>2, PlanTyped
      <3>4. rpass.refs[Plan[rpass.req][j]].applied
        BY <2>1, <2>2, <3>2, <3>3 DEF MigrationThorough
      <3>5. QED
        BY <2>1, <2>2, <2>4, <3>3, <3>4
    <2>5. QED
      BY <2>3, <2>4
  <1>8. CASE Intended
    <2>1. rpass # None /\ rpass'.req = rpass.req
      BY <1>8 DEF Intended, Turn, IsPass, AtWork
    <2>2. QED
      BY <1>1, <1>2, <1>8, <2>1, IntendedFields DEF RRef
  <1>9. CASE Prepared
    <2>1. rpass # None /\ rpass'.req = rpass.req
      BY <1>9 DEF Prepared, Turn, IsPass, AtWork
    <2>2. QED
      BY <1>1, <1>2, <1>9, <2>1, PreparedFields
  <1>10. QED
    BY <1>1, <1>3, <1>4, <1>5, <1>6, <1>7, <1>8, <1>9, PassMoves DEF PassMove

\* Only the end of a thorough migration pass makes a request Ready (the condition
\* ready of Reconcile).
LEMMA BecomesReady ==
  ASSUME TypeOK, [Next]_vars, PassesApart,
         NEW q \in Request, mig'[q] # None, mig'[q].phase \in {"Ready", "Completed"}
  PROVE  \/ mig[q] # None /\ mig[q].phase \in {"Ready", "Completed"}
         \/ ConcludeWrite(q) /\ ReadyNow
  <1>1. CASE mig'[q] = mig[q]
    BY <1>1
  <1>2. CASE mig'[q] = NewMigration
    BY <1>2 DEF NewMigration
  <1>3. CASE GateWrite(q)
    BY <1>3 DEF GateWrite
  <1>4. CASE IntentWrite(q)
    BY <1>4 DEF IntentWrite, PassesApart
  <1>5. CASE ConcludeWrite(q)
    BY <1>5 DEF ConcludeWrite
  <1>6. CASE CleanupWrite(q)
    <2>1. cpass # None /\ mig[q] = cpass.base /\ cpass.base \in Migration
      BY <1>6 DEF CleanupWrite, TypeOK, CleanupTypeOK, CleanupPass
    <2>2. QED
      BY <2>1, NoneIsNoRecord DEF PassesApart
  <1>7. QED
    BY <1>1, <1>2, <1>3, <1>4, <1>5, <1>6, RecordMoves DEF RecordMove, Written

\* What the end of a thorough pass has found of every Work of the plan.
LEMMA ReadyFindings ==
  ASSUME TypeOK, MigrationThorough, NEW q \in Request, ConcludeWrite(q), ReadyNow,
         NEW k \in Works(q)
  PROVE  mig'[q].refs[k].applied
  <1>1. /\ rpass # None /\ rpass.req = q /\ rpass.i > Len(Plan[q]) /\ mig'[q].refs = ConcludedRefs
        /\ rpass.all /\ \A j \in PairWorks : PairApplied(j)
    BY DEF ConcludeWrite, ReadyNow
  <1>2. rpass \in MigrationPass /\ rpass.i \in Nat \ {0}
    BY <1>1 DEF TypeOK, MigrationTypeOK, MigrationPass
  <1>3. PICK j \in 1..Len(Plan[q]) : Plan[q][j] = k
    BY PlannedAt
  <1>4. j \in 1..(rpass.i - 1) /\ j <= Len(Plan[q])
    BY <1>1, <1>2, <1>3, PlanTyped
  <1>5. rpass.refs[k].applied
    BY <1>1, <1>3, <1>4 DEF MigrationThorough
  <1>6. k \in Work
    BY PlannedAt
  <1>7. QED
    BY <1>1, <1>2, <1>5, <1>6, ConcludedFields

\* What it has found of every pair: two Works of the plan, whose reflections show a
\* PV and a PVC that were bound to each other (splitPairApplied).
LEMMA ReadyPairs ==
  ASSUME TypeOK, BondsTrue, CopiesPlanned, NothingDetachedEarly,
         NEW q \in Request, ConcludeWrite(q), ReadyNow, NEW pv \in Works(q) \cap DOMAIN PvcOf
  PROVE  LET r == mig'[q].refs[pv]
             s == mig'[q].refs[PvcOf[pv]]
         IN /\ <<pv, r.pvUID, r.pvcUID>> \in bonds
            /\ s.pvUID = r.pvUID /\ s.pvcUID = r.pvcUID
  <1>1. /\ rpass # None /\ rpass.req = q /\ mig'[q].refs = ConcludedRefs
        /\ \A j \in PairWorks : PairApplied(j)
    BY DEF ConcludeWrite, ReadyNow
  <1>2. rpass \in MigrationPass
    BY <1>1 DEF TypeOK, MigrationTypeOK
  <1>3. PICK pvc : pvc = PvcOf[pv]
    OBVIOUS
  <1>4. /\ pv \in Work /\ pvc \in Work /\ Standalone(pv) /\ Standalone(pvc)
        /\ PairPV(pv) = pv /\ PairPV(pvc) = pv
    BY <1>3, PairOfBoth, PlannedAt
  <1>5. pv \in PairWorks
    BY <1>1, <1>4 DEF PairWorks, NothingDetachedEarly
  <1>6. SplitPairApplied(pv, rpass.read[pv], rpass.read[pvc])
    BY <1>1, <1>3, <1>4, <1>5 DEF PairApplied
  <1>7. /\ rpass.read[pv] # None /\ rpass.read[pvc] # None
        /\ WorkApplied(pv, rpass.read[pv])
        /\ rpass.read[pv].status.peer = rpass.read[pvc].status.uid
    BY <1>6 DEF SplitPairApplied, ReciprocallyBound
  <1>8. pvc \in PairWorks
    BY <1>1, <1>4, <1>7 DEF PairWorks, NothingDetachedEarly, CopiesPlanned
  <1>9. rpass.read[pv].status # None /\ rpass.read[pv].status.good
    BY <1>4, <1>7 DEF WorkApplied, StandaloneStatus
  <1>10. <<pv, rpass.read[pv].status.uid, rpass.read[pv].status.peer>> \in bonds
    BY <1>1, <1>7, <1>9 DEF BondsTrue, BondKept
  <1>11. /\ ConcludedRefs[pv].pvUID = rpass.read[pv].status.uid
         /\ ConcludedRefs[pv].pvcUID = rpass.read[pvc].status.uid
    BY <1>1, <1>2, <1>3, <1>4, <1>5, ConcludedFields
  <1>12. /\ ConcludedRefs[pvc].pvUID = rpass.read[pv].status.uid
         /\ ConcludedRefs[pvc].pvcUID = rpass.read[pvc].status.uid
    BY <1>1, <1>2, <1>3, <1>4, <1>8, ConcludedFields
  <1>13. QED
    BY <1>1, <1>3, <1>7, <1>10, <1>11, <1>12

\* Receipts are taken at that end, and durable after it.
LEMMA ReceiptKept ==
  ASSUME TypeOK, [Next]_vars, NothingBeforeFiling, PassesApart, ReceiptInv
  PROVE  ReceiptInv'
  <1> USE DEF ReceiptInv
  <1>1. BondsTrue' /\ CopiesPlanned' /\ NothingDetachedEarly' /\ MigrationThorough'
    BY BondsKept, CopiesKept, UndetachedKept, MigrationThoroughKept
  <1>2. ReadyMeansApplied'
    <2>1. ASSUME NEW q \in Request, mig'[q] # None, mig'[q].phase \in {"Ready", "Completed"},
                 NEW k \in Works(q)
          PROVE  mig'[q].refs[k].applied
      <3>1. k \in Work
        BY PlannedAt
      <3>2. CASE mig[q] # None /\ mig[q].phase \in {"Ready", "Completed"}
        <4>1. mig[q].refs[k].applied
          BY <3>2 DEF ReadyMeansApplied
        <4>2. EvidenceKept(mig[q], mig'[q])
          BY <2>1, <3>2, EvidenceStep
        <4>3. QED
          BY <3>1, <4>1, <4>2 DEF EvidenceKept
      <3>3. CASE ConcludeWrite(q) /\ ReadyNow
        BY <3>3, ReadyFindings
      <3>4. QED
        BY <2>1, <3>2, <3>3, BecomesReady
    <2>2. QED
      BY <2>1 DEF ReadyMeansApplied
  <1>3. ReceiptsTruthful'
    <2>1. ASSUME NEW q \in Request, mig'[q] # None, mig'[q].phase \in {"Ready", "Completed"},
                 NEW pv \in Works(q) \cap DOMAIN PvcOf
          PROVE  LET r == mig'[q].refs[pv]
                     s == mig'[q].refs[PvcOf[pv]]
                 IN /\ <<pv, r.pvUID, r.pvcUID>> \in bonds'
                    /\ s.pvUID = r.pvUID /\ s.pvcUID = r.pvcUID
      <3>1. bonds \subseteq bonds' /\ pv \in Work /\ PvcOf[pv] \in Work
        BY ObjectMoves, PairOfBoth, PlannedAt
      <3>2. CASE mig[q] # None /\ mig[q].phase \in {"Ready", "Completed"}
        <4>1. EvidenceKept(mig[q], mig'[q])
          BY <2>1, <3>2, EvidenceStep
        <4>2. QED
          BY <3>1, <3>2, <4>1 DEF EvidenceKept, ReceiptsTruthful
      <3>3. CASE ConcludeWrite(q) /\ ReadyNow
        BY <3>1, <3>3, ReadyPairs
      <3>4. QED
        BY <2>1, <3>2, <3>3, BecomesReady
    <2>2. QED
      BY <2>1 DEF ReceiptsTruthful
  <1>4. QED
    BY <1>1, <1>2, <1>3

\* At the start nothing is bound, and nothing is Ready.
LEMMA ReceiptInit == Init => ReceiptInv
  <1> SUFFICES ASSUME Init PROVE ReceiptInv
    OBVIOUS
  <1>1. rpass = None /\ seen = mig
    BY DEF Init, StoreInit, MigrationInit
  <1>2. ASSUME NEW q \in Request, mig[q] # None
        PROVE  /\ mig[q].phase \notin {"Ready", "Completed"}
               /\ \A k \in Work : ~mig[q].refs[k].detached
    <2>1. mig[q] = LegacyMigration(snapshot)
      BY <1>2 DEF Init, StoreInit
    <2>2. QED
      BY <2>1 DEF LegacyMigration, NewMigration, NewRef
  <1>3. BondsTrue
    <2>1. ASSUME NEW pv \in DOMAIN PvcOf
          PROVE  member[pv] = None /\ (works[pv] # None => works[pv].status = None)
      <3>1. pv \in Work
        BY PlanAssumption
      <3>2. QED
        BY <3>1 DEF Init, StoreInit, NewWork
    <2>2. QED
      BY <1>1, <2>1 DEF BondsTrue, BondKept
  <1>4. QED
    BY <1>1, <1>2, <1>3 DEF ReceiptInv, CopiesPlanned, NothingDetachedEarly, OpenUndetached,
       MigrationThorough, ReadyMeansApplied, ReceiptsTruthful

\* It holds forever.
LEMMA ReceiptHolds == Spec => []ReceiptInv
  <1>1. TypeOK /\ SafetyInv /\ ReceiptInv /\ [Next]_vars => ReceiptInv'
    BY ReceiptKept DEF SafetyInv, PlanInv
  <1>2. QED
    BY <1>1, ReceiptInit, SafetyHolds, TypeCorrect, PTL DEF Spec

\* The receipts of a standalone pair in a Ready or Completed request name a PV and a
\* PVC that the member did bind to each other, though they come from reflections of
\* two Works taken at different times (splitPairApplied).
THEOREM ReceiptsHold == Spec => []ReceiptsTruthful
  <1>1. ReceiptInv => ReceiptsTruthful
    BY DEF ReceiptInv
  <1>2. QED
    BY <1>1, ReceiptHolds, PTL

-----------------------------------------------------------------------------
(* A deletion has every reason for it still standing.                      *)

\* The evidence that a copy shows is that of the record after the step.
EvidenceAfter(m, q) == mig'[q] # None => EvidenceKept(m, mig'[q])

\* No step takes back the evidence that a copy of a Ready request shows.
LEMMA CopyKept ==
  ASSUME TypeOK, [Next]_vars, PlanInv, PassesApart, NEW q \in Request, born[q] # 0,
         NEW m, mig[q] # None => EvidenceKept(m, mig[q])
  PROVE  EvidenceAfter(m, q)
  <1>1. SUFFICES ASSUME mig'[q] # None PROVE EvidenceKept(m, mig'[q])
    BY DEF EvidenceAfter
  <1>2. mig[q] # None
    BY <1>1, FiledOnce DEF PlanInv
  <1>3. EvidenceKept(m, mig[q])
    BY <1>2
  <1>4. EvidenceKept(mig[q], mig'[q])
    BY <1>1, <1>2, <1>3, EvidenceStep DEF EvidenceKept, PlanInv
  <1>5. QED
    BY <1>3, <1>4 DEF EvidenceKept

\* A copy of a Ready request, in the cache or in a cleanup pass, keeps the evidence of
\* it (the optimistic lock of every status patch).
LEMMA ReadyCopiesKept ==
  ASSUME TypeOK, [Next]_vars, PlanInv, PassesApart, ReadyCopies
  PROVE  ReadyCopies'
  <1>1. ASSUME NEW q \in Request, seen[q] # None, seen[q].phase \in {"Ready", "Completed"}
        PROVE  EvidenceAfter(seen[q], q)
    <2>1. born[q] # 0
      BY <1>1 DEF PlanInv, NothingBeforeFiling
    <2>2. QED
      BY <1>1, <2>1, CopyKept DEF ReadyCopies
  <1>2. ASSUME cpass # None PROVE EvidenceAfter(cpass.base, cpass.req)
    <2>1. cpass.req \in Request
      BY <1>2 DEF TypeOK, CleanupTypeOK, CleanupPass
    <2>2. born[cpass.req] # 0
      BY <1>2, <2>1 DEF PlanInv, NothingBeforeFiling
    <2>3. QED
      BY <1>2, <2>1, <2>2, CopyKept DEF ReadyCopies
  <1>3. ASSUME NEW q \in Request, seen'[q] # None, seen'[q].phase \in {"Ready", "Completed"},
               mig'[q] # None
        PROVE  EvidenceKept(seen'[q], mig'[q])
    <2>1. CASE seen'[q] = seen[q]
      BY <1>1, <1>3, <2>1 DEF EvidenceAfter
    <2>2. CASE seen'[q] = mig[q] /\ mig'[q] = mig[q]
      BY <1>3, <2>2 DEF EvidenceKept
    <2>3. QED
      BY <2>1, <2>2, CacheSteps
  <1>4. ASSUME cpass' # None, mig'[cpass'.req] # None
        PROVE  EvidenceKept(cpass'.base, mig'[cpass'.req])
    <2>1. CASE cpass # None /\ cpass'.req = cpass.req /\ cpass'.base = cpass.base
      BY <1>2, <1>4, <2>1 DEF EvidenceAfter
    <2>2. ASSUME NEW q \in Request, seen[q] # None, seen[q].phase = "Ready",
                 cpass'.req = q, cpass'.base = seen[q]
          PROVE  EvidenceKept(cpass'.base, mig'[cpass'.req])
      BY <1>1, <1>4, <2>2 DEF EvidenceAfter
    <2>3. QED
      BY <1>4, <2>1, <2>2, CleanupPassSteps DEF CleanupPassStep
  <1>5. QED
    BY <1>3, <1>4 DEF ReadyCopies

\* A pass about to delete a Work looked at it first (the checks before the Delete).
LEMMA ApprovalKept ==
  ASSUME TypeOK, [Next]_vars, DeletionApproved
  PROVE  DeletionApproved'
  <1>1. CASE UNCHANGED cpass
    BY <1>1 DEF DeletionApproved, CName, CRef
  <1>2. CASE cpass' = None
    BY <1>2 DEF DeletionApproved
  <1>3. CASE (\E q \in Request : CBegun(q)) \/ CSkipped \/ CGone \/ CAwaited \/ CDeleted
    <2>1. cpass'.pc = "work"
      BY <1>3 DEF CBegun, CSkipped, CGone, CAwaited, CDeleted, CTurn, IsClean
    <2>2. QED
      BY <2>1 DEF DeletionApproved
  <1>4. CASE CApproved
    <2>1. /\ AtCleanup /\ cpass'.req = cpass.req /\ cpass'.i = cpass.i
          /\ cpass'.refs = cpass.refs /\ cpass'.read = CWork
      BY <1>4 DEF CApproved, CTurn, IsClean
    <2>2. /\ CWork # None /\ CWork.label = cpass.req /\ CWork.preserve
          /\ WorkApplied(CName, CWork)
          /\ Standalone(CName) => StandaloneReceiptMatches(CName, CWork, CRef)
      BY <1>4 DEF CApproved, CleanupOwned, EvidenceStands
    <2>3. CName' = CName /\ CRef' = CRef
      BY <2>1 DEF CName, CRef
    <2>4. QED
      BY <2>1, <2>2, <2>3 DEF DeletionApproved, AtCleanup
  <1>5. QED
    BY <1>1, <1>2, <1>3, <1>4, CleanMoves DEF CleanMove

\* The cleanup deletes only the Work that it has a copy of (the preconditions of
\* the Delete).
LEMMA DeletesCopied ==
  ASSUME TypeOK, [Next]_vars, NEW k \in Work, cpass # None, cpass' # cpass,
         works'[k] # works[k], works'[k] # None
  PROVE  cpass.pc = "delete" /\ k = CName /\ works[k] = cpass.read
  <1>0. works \in [Work -> WorkObject \cup {None}]
    BY DEF TypeOK, StoreTypeOK
  <1>1. CASE UNCHANGED vars \/ Migrate \/ Surroundings \/ Crash
    BY <1>1, Zenon DEF vars, storeVars, Migrate, Surroundings, Crash, workVars
  <1>2. CASE Cleanup
    <2>1. CASE CDelete
      <3>1. PICK w : w = [CWork EXCEPT !.dying = TRUE]
        OBVIOUS
      <3>2. /\ cpass.pc = "delete"
            /\ \/ UNCHANGED works
               \/ CWork = cpass.read /\ works' = [works EXCEPT ![CName] = w]
        BY <2>1, <3>1, Zenon DEF CDelete, Unchanged
      <3>3. QED
        BY <1>0, <3>2 DEF CWork
    <2>2. CASE (\E q \in Request : CStart(q)) \/ CFail \/ (CleanupStep /\ ~CDelete)
      BY <2>2, Zenon DEF CleanupStep, CSkip, CDetach, CAwait, CApprove, CRefuse, CConclude,
         CStart, CFail, storeVars, workVars
    <2>3. QED
      BY <1>2, <2>1, <2>2 DEF Cleanup
  <1>3. QED
    BY <1>1, <1>2 DEF Next

\* What justified the deletion when the pass looked still does when the API server
\* accepts it.
LEMMA DeletionStep ==
  ASSUME TypeOK, [Next]_vars, ReadyMeansApplied, PassesApart, DeletionInv,
         NEW k \in Work, cpass # None, cpass' # cpass, works[k] # None, works'[k] # None,
         ~works[k].dying, works'[k].dying
  PROVE  DeletionJustified(cpass.req, k)
  <1>1. cpass.pc = "delete" /\ k = CName /\ works[k] = cpass.read
    BY DeletesCopied
  <1>2. /\ works[k].label = cpass.req /\ works[k].preserve /\ WorkApplied(k, works[k])
        /\ Standalone(k) => StandaloneReceiptMatches(k, works[k], CRef)
    BY <1>1 DEF DeletionInv, DeletionApproved
  <1>3. cpass.req \in Request
    BY DEF TypeOK, CleanupTypeOK, CleanupPass
  <1>4. ASSUME mig[cpass.req] # None
        PROVE  /\ \A j \in Works(cpass.req) : mig[cpass.req].refs[j].applied
               /\ CRef.pvUID = mig[cpass.req].refs[k].pvUID
               /\ CRef.pvcUID = mig[cpass.req].refs[k].pvcUID
    <2>1. EvidenceKept(cpass.base, mig[cpass.req])
      BY <1>4 DEF DeletionInv, ReadyCopies
    <2>2. \A j \in Works(cpass.req) : mig[cpass.req].refs[j].applied
      BY <1>3, <1>4, <2>1 DEF EvidenceKept, ReadyMeansApplied
    <2>3. RefKept(cpass.base.refs[k], cpass.refs[k])
      BY DEF PassesApart
    <2>4. QED
      BY <1>1, <2>1, <2>2, <2>3 DEF EvidenceKept, RefKept, CRef
  <1>5. QED
    BY <1>2, <1>4 DEF DeletionJustified, StandaloneReceiptMatches

\* At the start there is no pass, and nothing is Ready.
LEMMA DeletionInit == Init => DeletionInv
  <1> SUFFICES ASSUME Init PROVE DeletionInv
    OBVIOUS
  <1>1. cpass = None /\ seen = mig
    BY DEF Init, StoreInit, CleanupInit
  <1>2. ASSUME NEW q \in Request, mig[q] # None PROVE mig[q].phase = "Preparing"
    BY <1>2 DEF Init, StoreInit, LegacyMigration, NewMigration
  <1>3. QED
    BY <1>1, <1>2 DEF DeletionInv, ReadyCopies, DeletionApproved

\* It holds forever.
LEMMA DeletionHolds == Spec => []DeletionInv
  <1>1. TypeOK /\ SafetyInv /\ DeletionInv /\ [Next]_vars => DeletionInv'
    BY ReadyCopiesKept, ApprovalKept DEF SafetyInv, DeletionInv
  <1>2. QED
    BY <1>1, DeletionInit, SafetyHolds, TypeCorrect, PTL DEF Spec

\* At the instant the API server accepts a deletion of the cleanup, the Work is still
\* the one that was applied for this request, and every Work of the request has been
\* recorded applied (the preconditions of the Delete).
THEOREM DeletionsVerified == Spec => DetachVerified
  <1>1. TypeOK /\ SafetyInv /\ ReceiptInv /\ DeletionInv /\ [Next]_vars =>
          [\A k \in Work :
             /\ cpass # None /\ cpass' # cpass
             /\ works[k] # None /\ works'[k] # None
             /\ ~works[k].dying /\ works'[k].dying
             => DeletionJustified(cpass.req, k)]_vars
    BY DeletionStep DEF SafetyInv, ReceiptInv
  <1>2. QED
    BY <1>1, DeletionHolds, ReceiptHolds, SafetyHolds, TypeCorrect, PTL DEF Spec, DetachVerified

-----------------------------------------------------------------------------
(* What is Completed is on the target, as long as nobody interferes.       *)

\* Disturbances are counted.
LEMMA QuietBefore ==
  ASSUME TypeOK, [Next]_vars, faults' = 0
  PROVE  faults = 0
  <1>1. CASE UNCHANGED vars \/ Migrate \/ Cleanup \/ Crash
    <2>1. Migrate => UNCHANGED faults
      BY Zenon DEF Migrate, MigrationStep, RStart, RFail, RPend, RRecordPlan, RProceed, RSkip,
         RCreate, RObserve, RRefuse, RIntend, RRecordIntent, RPrepareRepair, RRepair, RConclude,
         externalToR, storeVars, boundVars, Interrupt, GateCloses
    <2>2. Cleanup => UNCHANGED faults
      BY Zenon DEF Cleanup, CleanupStep, CStart, CFail, CSkip, CDetach, CAwait, CApprove,
         CRefuse, CDelete, CConclude, externalToC, storeVars, boundVars, Interrupt
    <2>3. UNCHANGED vars \/ Crash => UNCHANGED faults
      BY Zenon DEF vars, storeVars, boundVars, Crash, Interrupt
    <2>4. QED
      BY <1>1, <2>1, <2>2, <2>3
  <1>2. CASE Surroundings
    <2>1. faults' = faults \/ faults' = faults + 1
      BY <1>2, Zenon DEF Surroundings, Deliver, SnapshotArrives, SnapshotChanges, BindingChanges,
         FileRequest, DeleteRequest, KarmadaApply, KarmadaReflect, KarmadaFinalize,
         SettleTemplate, BindPair, TemplateFault, PairFault, EditWork, RelabelWork,
         ForeignDelete, Disturb, boundVars
    <2>2. faults \in Nat
      BY BoundsAssumption DEF TypeOK, StoreTypeOK
    <2>3. QED
      BY <2>1, <2>2
  <1>3. QED
    BY <1>1, <1>2 DEF Next

\* What shows a volume, and what counts as evidence of it.
LEMMA AppliedShows ==
  ASSUME NEW k, NEW w, w # None, WorkApplied(k, w), ShownHeld(k, w)
  PROVE  Held(k)
  BY DEF WorkApplied, StandaloneStatus, ShownHeld

\* The receipt of a pair rests on the reflections of both of its Works.
LEMMA ConcludedHeld ==
  ASSUME TypeOK, rpass # None, \A k \in Work : ShownHeld(k, rpass.read[k]),
         AppliedHeld(rpass.refs)
  PROVE  AppliedHeld(ConcludedRefs)
  <1>1. SUFFICES ASSUME NEW k \in Work, ConcludedRefs[k].applied PROVE Held(k)
    BY DEF AppliedHeld
  <1>2. rpass \in MigrationPass
    BY DEF TypeOK, MigrationTypeOK
  <1>3. CASE k \notin PairWorks
    BY <1>1, <1>2, <1>3, ConcludedFields DEF AppliedHeld
  <1>4. CASE k \in PairWorks
    <2>1. PairApplied(k) /\ Standalone(k)
      BY <1>1, <1>2, <1>4, ConcludedFields DEF PairWorks
    <2>2. PICK pv : pv = PairPV(k)
      OBVIOUS
    <2>3. /\ rpass.read[pv] # None /\ rpass.read[PvcOf[pv]] # None
          /\ WorkApplied(pv, rpass.read[pv]) /\ WorkApplied(PvcOf[pv], rpass.read[PvcOf[pv]])
      BY <2>1, <2>2 DEF PairApplied, SplitPairApplied
    <2>4. pv \in Work /\ PvcOf[pv] \in Work
      BY <2>1, <2>2, PairTyped
    <2>5. Held(pv) /\ Held(PvcOf[pv])
      BY <2>3, <2>4, AppliedShows
    <2>6. k = pv \/ k = PvcOf[pv]
      <3>1. CASE k \in DOMAIN PvcOf
        BY <2>2, <3>1 DEF PairPV
      <3>2. CASE k \notin DOMAIN PvcOf
        <4>1. \E p \in DOMAIN PvcOf : PvcOf[p] = k
          BY <2>1, <3>2 DEF Standalone, Range
        <4>2. pv = CHOOSE p \in DOMAIN PvcOf : PvcOf[p] = k
          BY <2>2, <3>2 DEF PairPV
        <4>3. QED
          BY <4>1, <4>2
      <3>3. QED
        BY <3>1, <3>2
    <2>7. QED
      BY <2>5, <2>6
  <1>5. QED
    BY <1>3, <1>4

\* As long as nobody interferes, what any copy of a request or of a Work shows to be
\* on the target is there.
LEMMA RetainedKept ==
  ASSUME TypeOK, [Next]_vars, RetainedInv
  PROVE  RetainedInv'
  <1>1. SUFFICES ASSUME faults' = 0 PROVE RetainedInv'
    BY DEF RetainedInv
  <1>2. faults = 0
    BY <1>1, QuietBefore
  <1>3. /\ \A k \in Work :
            /\ works[k] # None => works[k].preserve
            /\ ShownHeld(k, works[k])
            /\ rpass # None => ShownHeld(k, rpass.read[k])
        /\ \A q \in Request :
            /\ mig[q] # None => AppliedHeld(mig[q].refs)
            /\ seen[q] # None => AppliedHeld(seen[q].refs)
        /\ rpass # None => AppliedHeld(rpass.refs)
        /\ cpass # None => AppliedHeld(cpass.refs)
    BY <1>2 DEF RetainedInv
  <1>4. \A k \in Work : Held(k) => Held(k)'
    BY <1>1, <1>3, ObjectMoves DEF HeldMove
  <1> DEFINE HeldAfter(refs) == \A k \in Work : refs[k].applied => Held(k)'
             ShownAfter(k, w) == w # None /\ w.status # None /\ w.status.good => Held(k)'
  <1>5. ASSUME NEW refs, AppliedHeld(refs) PROVE HeldAfter(refs)
    BY <1>4, <1>5 DEF AppliedHeld
  <1>6. ASSUME NEW k \in Work
        PROVE  (works'[k] # None => works'[k].preserve) /\ ShownAfter(k, works'[k])
    <2>1. WorkMove(k) /\ ShownHeld(k, works[k]) /\ (works[k] # None => works[k].preserve)
      BY <1>3, WorkMoves
    <2>2. CASE member[k] # None /\ works'[k].status = ReflectionOf(member[k])
      <3>1. ShownAfter(k, works'[k])
        BY <1>4, <2>2 DEF ReflectionOf, Held
      <3>2. QED
        BY <1>1, <2>1, <3>1 DEF WorkMove, Touched, SameWork, Edited, Repaired, Made, NewWork
    <2>3. CASE works'[k] # None /\ works[k] # None /\ works'[k].status = works[k].status
      <3>1. ShownAfter(k, works'[k])
        BY <1>4, <2>1, <2>3 DEF ShownHeld
      <3>2. QED
        BY <1>1, <2>1, <3>1 DEF WorkMove, Touched, SameWork, Edited, Repaired, Made, NewWork
    <2>4. CASE works'[k] = None
      BY <2>4
    <2>5. CASE Made(k)
      BY <2>5 DEF Made, NewWork
    <2>6. QED
      BY <1>1, <2>1, <2>2, <2>3, <2>4, <2>5 DEF WorkMove, Touched, Edited, Repaired
  <1>7. ASSUME NEW q \in Request, mig'[q] # None PROVE HeldAfter(mig'[q].refs)
    <2>1. CASE mig'[q] = mig[q]
      BY <1>3, <1>5, <1>7, <2>1
    <2>2. CASE mig'[q] = NewMigration
      BY <2>2 DEF NewMigration, NewRef
    <2>3. CASE GateWrite(q)
      <3>1. mig'[q].refs = mig[q].refs /\ mig[q] # None
        BY <2>3, NoneIsNoRecord DEF GateWrite, TypeOK, MigrationTypeOK, MigrationPass
      <3>2. QED
        BY <1>3, <1>5, <3>1
    <2>4. CASE IntentWrite(q)
      BY <1>3, <1>5, <2>4 DEF IntentWrite
    <2>5. CASE ConcludeWrite(q)
      <3>1. rpass # None /\ mig'[q].refs = ConcludedRefs
        BY <2>5 DEF ConcludeWrite
      <3>2. QED
        BY <1>3, <1>5, <3>1, ConcludedHeld
    <2>6. CASE CleanupWrite(q)
      BY <1>3, <1>5, <2>6 DEF CleanupWrite
    <2>7. QED
      BY <1>7, <2>1, <2>2, <2>3, <2>4, <2>5, <2>6, RecordMoves DEF RecordMove, Written
  <1>8. ASSUME NEW q \in Request, seen'[q] # None PROVE HeldAfter(seen'[q].refs)
    BY <1>3, <1>5, <1>8, CacheSteps
  <1>9. ASSUME rpass' # None
        PROVE  HeldAfter(rpass'.refs) /\ \A k \in Work : ShownAfter(k, rpass'.read[k])
    <2>1. ASSUME rpass # None, NEW k \in Work PROVE ShownAfter(k, rpass.read[k])
      BY <1>3, <1>4, <2>1 DEF ShownHeld
    <2>2. ASSUME NEW k \in Work PROVE ShownAfter(k, works[k])
      BY <1>3, <1>4 DEF ShownHeld
    <2>3. ASSUME rpass # None PROVE HeldAfter(rpass.refs)
      BY <1>3, <1>5, <2>3
    <2>4. CASE UNCHANGED rpass \/ Proceeded \/ Skipped \/ Created
      <3>1. rpass # None /\ rpass'.refs = rpass.refs /\ rpass'.read = rpass.read
        BY <1>9, <2>4 DEF Proceeded, Skipped, Created, Turn, IsPass, AtGate, AtWork
      <3>2. QED
        BY <2>1, <2>3, <3>1
    <2>5. ASSUME NEW q \in Request, Begun(q)
          PROVE  HeldAfter(rpass'.refs) /\ \A k \in Work : ShownAfter(k, rpass'.read[k])
      <3>1. /\ seen[q] # None /\ rpass'.refs = seen[q].refs
            /\ \A k \in Work : rpass'.read[k] = None
        BY <2>5 DEF Begun, IsPass
      <3>2. QED
        BY <1>3, <1>5, <3>1
    <2>6. CASE Observed
      <3>1. rpass # None /\ RWork # None /\ RName \in Work
        BY <2>6, ObservedFields DEF Observed, Acceptable
      <3>2. WorkApplied(RName, RWork) => Held(RName)
        BY <1>3, <3>1, AppliedShows DEF RWork
      <3>3. HeldAfter(rpass'.refs)
        <4>1. ASSUME NEW k \in Work, rpass'.refs[k].applied PROVE Held(k)'
          <5>1. CASE k = RName
            BY <1>4, <2>6, <3>1, <3>2, <4>1, <5>1, ObservedFields
          <5>2. CASE k # RName
            BY <2>3, <2>6, <3>1, <4>1, <5>2, ObservedFields
          <5>3. QED
            BY <5>1, <5>2
        <4>2. QED
          BY <4>1
      <3>4. \A k \in Work : rpass'.read[k] = rpass.read[k] \/ rpass'.read[k] = works[k]
        BY <2>6, ObservedFields
      <3>5. QED
        BY <2>1, <2>2, <3>1, <3>3, <3>4
    <2>7. CASE Intended
      <3>1. rpass # None /\ rpass'.read = rpass.read
        BY <2>7, IntendedFields
      <3>2. \A k \in Work : rpass'.refs[k].applied = rpass.refs[k].applied
        BY <2>7, IntendedFields DEF RRef
      <3>3. QED
        BY <2>1, <2>3, <3>1, <3>2
    <2>8. CASE Prepared
      <3>1. rpass # None /\ rpass'.refs = rpass.refs
        BY <2>8, PreparedFields
      <3>2. \A k \in Work : rpass'.read[k] = rpass.read[k] \/ rpass'.read[k] = works[k]
        BY <2>8, PreparedFields
      <3>3. QED
        BY <2>1, <2>2, <2>3, <3>1, <3>2
    <2>9. QED
      BY <1>9, <2>4, <2>5, <2>6, <2>7, <2>8, PassMoves DEF PassMove
  <1>10. ASSUME cpass' # None PROVE HeldAfter(cpass'.refs)
    <2>1. CASE UNCHANGED cpass
      BY <1>3, <1>5, <1>10, <2>1
    <2>2. ASSUME NEW q \in Request, seen[q] # None, cpass'.refs = seen[q].refs
          PROVE  HeldAfter(cpass'.refs)
      BY <1>3, <1>5, <2>2
    <2>3. CASE cpass # None /\ \A k \in Work : RefKept(cpass.refs[k], cpass'.refs[k])
      <3>1. HeldAfter(cpass.refs)
        BY <1>3, <1>5, <2>3
      <3>2. QED
        BY <2>3, <3>1 DEF RefKept
    <2>4. QED
      BY <1>10, <2>1, <2>2, <2>3, CleanupPassSteps DEF CleanupPassStep
  <1>11. QED
    BY <1>6, <1>7, <1>8, <1>9, <1>10 DEF RetainedInv, AppliedHeld, ShownHeld

\* At the start no reference claims anything, and no Work reflects anything.
LEMMA RetainedInit == Init => RetainedInv
  <1> SUFFICES ASSUME Init PROVE RetainedInv
    OBVIOUS
  <1>1. rpass = None /\ cpass = None /\ seen = mig
    BY DEF Init, StoreInit, MigrationInit, CleanupInit
  <1>2. ASSUME NEW k \in Work, works[k] # None PROVE works[k].preserve /\ works[k].status = None
    BY <1>2 DEF Init, StoreInit, NewWork
  <1>3. ASSUME NEW q \in Request, mig[q] # None PROVE \A k \in Work : ~mig[q].refs[k].applied
    <2>1. mig[q] = LegacyMigration(snapshot)
      BY <1>3 DEF Init, StoreInit
    <2>2. QED
      BY <2>1 DEF LegacyMigration, NewMigration, NewRef
  <1>4. QED
    BY <1>1, <1>2, <1>3 DEF RetainedInv, ShownHeld, AppliedHeld

\* It holds forever.
LEMMA RetainedHolds == Spec => []RetainedInv
  <1>1. TypeOK /\ RetainedInv /\ [Next]_vars => RetainedInv'
    BY RetainedKept
  <1>2. QED
    BY <1>1, RetainedInit, TypeCorrect, PTL DEF Spec

\* Completed means that the volumes are on the target, bound, as long as nobody
\* interferes: a Work goes only after its object was there, and leaves it
\* (the missing Work that counts as detached, cleanup.go:48).
THEOREM CompletionRetains == Spec => []CompletedRetains
  <1>1. SafetyInv /\ RetainedInv => CompletedRetains
    <2>1. SUFFICES ASSUME SafetyInv, RetainedInv, faults = 0, NEW q \in Request,
                          mig[q] # None, mig[q].phase = "Completed", NEW k \in Works(q)
                   PROVE  member[k] # None /\ member[k].good
      BY DEF CompletedRetains
    <2>2. mig[q].refs[k].applied /\ k \in Work
      BY <2>1, PlannedAt DEF SafetyInv, CompletedDetached
    <2>3. QED
      BY <2>1, <2>2 DEF RetainedInv, AppliedHeld, Held
  <1>2. QED
    BY <1>1, RetainedHolds, SafetyHolds, PTL
=============================================================================
