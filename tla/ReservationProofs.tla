--------------------------- MODULE ReservationProofs ---------------------------
(***************************************************************************)
(* Who may rely on a claim.  The peers are looked at through a cache that  *)
(* trails the records; that two rivals still never both rely on the claim, *)
(* and that no request relies on a Work of another, is what the order of   *)
(* the watch, the optimistic lock and the gate give together.              *)
(***************************************************************************)
EXTENDS EvidenceProofs

-----------------------------------------------------------------------------
(* The invariants.                                                         *)

\* The feed holds the requests whose cached copy is behind, each once.
FeedExact ==
    /\ \A q \in Request : mig[q] # None =>
         /\ seen[q] # mig[q] <=> \E i \in 1..Len(feed) : feed[i] = q
         /\ \A i, j \in 1..Len(feed) : feed[i] = q /\ feed[j] = q => i = j
    /\ \A i \in 1..Len(feed) : born[feed[i]] # 0

\* A pass that can still patch its request started from what the cache shows now.
CurrentCopies ==
    /\ rpass # None /\ mig[rpass.req] = rpass.base => seen[rpass.req] = rpass.base
    /\ cpass # None /\ mig[cpass.req] = cpass.base => seen[cpass.req] = cpass.base

\* Whatever was written of a request after it was filed, it had been seen.
SeenBeforeWritten ==
    \A q \in Request : mig[q] # None /\ mig[q] # NewMigration => seen[q] # None

\* Two requests that want the same volumes.
Rivals(p, q) == p # q /\ Overlap(p, q)

\* A record, or a copy of one, that has its plan.
Planned(m) == m # None /\ m.hash # None

\* The plan of q is recorded, or was when the cache last heard of it.
Known(q) == Planned(mig[q]) \/ Planned(seen[q])

\* A reservation on record, and one that the cache shows.
ReservedNow(q) == mig[q] # None /\ Reserved(mig[q])

ReservedSeen(q) == seen[q] # None /\ Reserved(seen[q])

\* The cache will learn of p before it learns anything more of q.
Ahead(p, q) ==
    \A j \in 1..Len(feed) : feed[j] = q => \E i \in 1..(j - 1) : feed[i] = p

\* A reservation is seen by every rival whose plan is known, or the rival has to
\* give way to it for its age, or hears of it before it hears of its own plan.
ReservationsShow ==
    \A p, q \in Request : Rivals(p, q) /\ ReservedNow(p) /\ Known(q) =>
        \/ Older(p, q)
        \/ ReservedSeen(p)
        \/ ~Planned(seen[q]) /\ Ahead(p, q)

\* What the peers mean to a pass: before the gate, those that are reserved will
\* block it; behind it, there are none, and those with a plan are younger.
PeersOfPass ==
    rpass # None =>
        \A p \in Request : Rivals(p, rpass.req) =>
            /\ rpass.pc = "gate" /\ rpass.base.hash # None /\ ReservedNow(p) =>
                 ReservedSeen(p) \/ Older(p, rpass.req)
            /\ rpass.pc # "gate" =>
                /\ ~ReservedNow(p)
                /\ Known(p) => Older(rpass.req, p)

\* No pass gets past the gate without a plan on record.
PlannedBehindGate == rpass # None /\ rpass.pc # "gate" => rpass.base.hash # None

\* What is reserved has its plan on record.
ReservedPlanned ==
    \A q \in Request : mig[q] # None /\ Reserved(mig[q]) => mig[q].hash # None

\* A pass relies on no Work of others.
PassRelies ==
    rpass # None =>
        /\ rpass.pc = "gate" => rpass.refs = rpass.base.refs
        /\ \A k \in Works(rpass.req) : works[k] # None =>
             /\ rpass.pc # "gate" /\ mig[rpass.req] = rpass.base /\ rpass.refs[k].applied =>
                  works[k].owner = rpass.req
             /\ rpass.read[k] # None => works[k].owner = rpass.req

\* The reservations.
ResInv ==
    /\ FeedExact /\ CurrentCopies /\ SeenBeforeWritten /\ ReservationsShow
    /\ PeersOfPass /\ PlannedBehindGate /\ ReservedPlanned

-----------------------------------------------------------------------------
(* What a step does to the feed of the watch and to the age of a request.  *)

\* The watch delivers a write, a write is queued for it, or the manager lists
\* everything anew; a step writes at most one request.
Delivered(p) ==
    /\ feed # <<>> /\ p = Head(feed)
    /\ UNCHANGED <<mig, born, rpass, cpass>>
    /\ feed' = Tail(feed)
    /\ seen'[p] = mig[p]
    /\ \A q \in Request \ {p} : seen'[q] = seen[q]

Queued(p) ==
    /\ feed' = Append(feed, p)
    /\ seen' = seen
    /\ mig'[p] # mig[p]
    /\ \A q \in Request \ {p} : mig'[q] = mig[q]
    /\ born'[p] # 0

Relisted ==
    /\ UNCHANGED <<mig, born>>
    /\ seen' = mig /\ feed' = <<>>
    /\ rpass' = None /\ cpass' = None

\* Everything that can happen to the feed and the cache.
FeedMove ==
    \/ UNCHANGED <<mig, seen, feed>>
    \/ \E p \in Request : Delivered(p) \/ Queued(p)
    \/ Relisted

\* A status patch that sends anything is queued for the watch (PatchStatus).
LEMMA PatchQueued ==
  ASSUME StoreTypeOK, NothingBeforeFiling, NEW p \in Request, NEW base, NEW new,
         base # None, PatchStatus(p, base, new), seen' = seen, born' = born
  PROVE  UNCHANGED <<mig, seen, feed>> \/ Queued(p)
  BY DEF PatchStatus, StoreTypeOK, NothingBeforeFiling, Queued

\* Every step changes the records and the feed in these ways only.
LEMMA FeedMoves ==
  ASSUME TypeOK, [Next]_vars, NothingBeforeFiling
  PROVE  FeedMove
  <1>0. StoreTypeOK /\ MigrationTypeOK /\ CleanupTypeOK
    BY DEF TypeOK
  <1>1. CASE UNCHANGED vars
    BY <1>1 DEF vars, storeVars, recordVars, FeedMove
  <1>2. CASE Crash
    BY <1>2, Zenon DEF Crash, FeedMove, Relisted
  <1>3. CASE Migrate
    <2>1. ASSUME rpass # None PROVE rpass.req \in Request /\ rpass.base # None
      BY <1>0, <2>1, NoneIsNoRecord DEF MigrationTypeOK, MigrationPass
    <2>2. ASSUME NEW new, rpass # None, PatchStatus(rpass.req, rpass.base, new),
                 seen' = seen, born' = born
          PROVE  FeedMove
      BY <1>0, <2>1, <2>2, PatchQueued DEF FeedMove
    <2>3. CASE RPend
      BY <2>2, <2>3, Zenon DEF RPend, AtGate
    <2>4. CASE RRecordPlan
      BY <2>2, <2>4, Zenon DEF RRecordPlan, AtGate, externalToR
    <2>5. CASE RRecordIntent
      BY <2>2, <2>5, Zenon DEF RRecordIntent, externalToR
    <2>6. CASE RConclude
      BY <2>2, <2>6, Zenon DEF RConclude, externalToR
    <2>7. CASE ~RPend /\ ~RRecordPlan /\ ~RRecordIntent /\ ~RConclude
      <3>1. UNCHANGED <<mig, seen, feed>>
        BY <1>3, <2>7, Zenon DEF Migrate, MigrationStep, RStart, RFail, RProceed, RSkip, RCreate,
           RObserve, RRefuse, RIntend, RPrepareRepair, RRepair, externalToR, storeVars, recordVars
      <3>2. QED
        BY <3>1 DEF FeedMove
    <2>8. QED
      BY <2>3, <2>4, <2>5, <2>6, <2>7
  <1>4. CASE Cleanup
    <2>1. CASE CConclude
      <3>1. cpass # None /\ cpass.req \in Request /\ cpass.base # None
        BY <1>0, <2>1, NoneIsNoRecord DEF CleanupTypeOK, CleanupPass, CConclude
      <3>2. PICK new : PatchStatus(cpass.req, cpass.base, new)
        BY <2>1, Zenon DEF CConclude
      <3>3. seen' = seen /\ born' = born
        BY <2>1 DEF CConclude, externalToC
      <3>4. QED
        BY <1>0, <3>1, <3>2, <3>3, PatchQueued DEF FeedMove
    <2>2. CASE ~CConclude
      <3>1. UNCHANGED <<mig, seen, feed>>
        BY <1>4, <2>2, Zenon DEF Cleanup, CleanupStep, CStart, CFail, CSkip, CDetach, CAwait,
           CApprove, CRefuse, CDelete, externalToC, storeVars, recordVars
      <3>2. QED
        BY <3>1 DEF FeedMove
    <2>3. QED
      BY <2>1, <2>2
  <1>5. CASE Surroundings
    <2>1. CASE Deliver
      <3>1. Head(feed) \in Request
        BY <1>0, <2>1 DEF Deliver, StoreTypeOK
      <3>2. Delivered(Head(feed))
        BY <1>0, <1>5, <2>1, <3>1 DEF Deliver, Delivered, StoreTypeOK, Surroundings
      <3>3. QED
        BY <3>1, <3>2 DEF FeedMove
    <2>2. ASSUME NEW q \in Request, FileRequest(q) PROVE FeedMove
      <3>1. born[q] = 0 /\ mig[q] = None /\ born'[q] # 0
        BY <1>0, <2>2, BoundsAssumption DEF FileRequest, NothingBeforeFiling, StoreTypeOK
      <3>2. NewMigration # None
        BY NoneIsNoRecord, NewMigrationTyped
      <3>3. Queued(q)
        BY <1>0, <2>2, <3>1, <3>2 DEF FileRequest, Queued, StoreTypeOK
      <3>4. QED
        BY <3>3 DEF FeedMove
    <2>3. ASSUME NEW q \in Request, DeleteRequest(q) PROVE FeedMove
      <3>1. Queued(q)
        BY <1>0, <2>3 DEF DeleteRequest, Queued, StoreTypeOK, NothingBeforeFiling
      <3>2. QED
        BY <3>1 DEF FeedMove
    <2>4. CASE ~Deliver /\ ~(\E q \in Request : FileRequest(q) \/ DeleteRequest(q))
      <3>1. UNCHANGED <<mig, seen, feed>>
        BY <1>5, <2>4, Zenon DEF Surroundings, SnapshotArrives, SnapshotChanges, BindingChanges,
           KarmadaApply, KarmadaReflect, KarmadaFinalize, SettleTemplate, BindPair,
           TemplateFault, PairFault, EditWork, RelabelWork, ForeignDelete, recordVars
      <3>2. QED
        BY <3>1 DEF FeedMove
    <2>5. QED
      BY <2>1, <2>2, <2>3, <2>4
  <1>6. QED
    BY <1>1, <1>2, <1>3, <1>4, <1>5 DEF Next

\* A request that was filed keeps its creation timestamp.
LEMMA BornKept ==
  ASSUME TypeOK, [Next]_vars, NEW q \in Request, born[q] # 0
  PROVE  born'[q] = born[q]
  <1>1. UNCHANGED vars \/ Migrate \/ Cleanup \/ Crash => UNCHANGED born
    <2>1. Migrate => UNCHANGED born
      BY Zenon DEF Migrate, MigrationStep, RStart, RFail, RPend, RRecordPlan, RProceed, RSkip,
         RCreate, RObserve, RRefuse, RIntend, RRecordIntent, RPrepareRepair, RRepair, RConclude,
         externalToR, storeVars, recordVars
    <2>2. Cleanup => UNCHANGED born
      BY Zenon DEF Cleanup, CleanupStep, CStart, CFail, CSkip, CDetach, CAwait, CApprove,
         CRefuse, CDelete, CConclude, externalToC, storeVars, recordVars
    <2>3. QED
      BY <2>1, <2>2, Zenon DEF vars, storeVars, recordVars, Crash
  <1>2. ASSUME NEW p \in Request, FileRequest(p) PROVE born'[q] = born[q]
    BY <1>2 DEF FileRequest, TypeOK, StoreTypeOK
  <1>3. Surroundings /\ ~(\E p \in Request : FileRequest(p)) => UNCHANGED born
    BY Zenon DEF Surroundings, Deliver, SnapshotArrives, SnapshotChanges, BindingChanges,
       DeleteRequest, KarmadaApply, KarmadaReflect, KarmadaFinalize, SettleTemplate, BindPair,
       TemplateFault, PairFault, EditWork, RelabelWork, ForeignDelete, recordVars
  <1>4. QED
    BY <1>1, <1>2, <1>3 DEF Next

\* Of two requests one is the older (the age, and the UID among equals).
LEMMA OlderTotal ==
  ASSUME TypeOK, NEW p \in Request, NEW q \in Request, p # q
  PROVE  (Older(p, q) \/ Older(q, p)) /\ ~(Older(p, q) /\ Older(q, p))
  <1>1. born[p] \in Nat /\ born[q] \in Nat
    BY BoundsAssumption DEF TypeOK, StoreTypeOK
  <1>2. Rank[p] \in Nat /\ Rank[q] \in Nat /\ Rank[p] # Rank[q]
    BY OrderAssumption DEF IsInjective
  <1>3. QED
    BY <1>1, <1>2 DEF Older

-----------------------------------------------------------------------------
(* The cache, the feed and the copies that the passes can still patch.     *)

\* A pass that goes on keeps its request and its copy.
GoesOn == rpass # None /\ rpass'.req = rpass.req /\ rpass'.base = rpass.base

CGoesOn == cpass # None /\ cpass'.req = cpass.req /\ cpass'.base = cpass.base

\* A pass after a step went on, or has just started.
LEMMA PassGoes ==
  ASSUME TypeOK, [Next]_vars, rpass' # None
  PROVE  GoesOn \/ \E q \in Request : Begun(q)
  <1>1. CASE UNCHANGED rpass
    BY <1>1 DEF GoesOn
  <1>2. CASE Proceeded
    BY <1>2 DEF Proceeded, AtGate, IsPass, GoesOn
  <1>3. CASE Skipped \/ Created \/ Observed \/ Intended \/ Prepared
    BY <1>3 DEF Skipped, Created, Observed, Intended, Prepared, Turn, AtWork, IsPass, GoesOn
  <1>4. QED
    BY <1>1, <1>2, <1>3, PassMoves DEF PassMove

\* A cleanup pass after a step went on, or has just started.
LEMMA CleanGoes ==
  ASSUME TypeOK, [Next]_vars, cpass' # None
  PROVE  CGoesOn \/ \E q \in Request : CBegun(q)
  <1>1. CASE UNCHANGED cpass
    BY <1>1 DEF CGoesOn
  <1>2. CASE CSkipped \/ CGone \/ CAwaited \/ CApproved \/ CDeleted
    BY <1>2 DEF CSkipped, CGone, CAwaited, CApproved, CDeleted, CTurn, AtCleanup, IsClean, CGoesOn
  <1>3. QED
    BY <1>1, <1>2, CleanMoves DEF CleanMove

\* What the passes started from is a record.
LEMMA BaseTyped ==
  ASSUME TypeOK
  PROVE  /\ rpass # None => rpass.req \in Request /\ rpass.base \in Migration /\ rpass.base # None
         /\ cpass # None => cpass.req \in Request /\ cpass.base \in Migration /\ cpass.base # None
  BY NoneIsNoRecord DEF TypeOK, MigrationTypeOK, CleanupTypeOK, MigrationPass, CleanupPass

\* Once a request has moved away from the copy of a pass, it does not come back to it
\* while the pass goes on, so that the optimistic lock misses nothing.
LEMMA BaseNotRestored ==
  ASSUME TypeOK, [Next]_vars, NothingBeforeFiling, PassesApart, rpass' # None, GoesOn,
         mig'[rpass.req] = rpass.base
  PROVE  mig[rpass.req] = rpass.base
  <1>1. rpass.req \in Request /\ rpass.base \in Migration /\ rpass.base # None
    BY BaseTyped DEF GoesOn
  <1>2. RecordMove(rpass.req)
    BY <1>1, RecordMoves
  <1>3. born[rpass.req] # 0
    BY <1>1 DEF NothingBeforeFiling, GoesOn
  <1>4. ~CleanupWrite(rpass.req)
    BY <1>1 DEF CleanupWrite, PassesApart, GoesOn
  <1>5. QED
    BY <1>1, <1>2, <1>3, <1>4 DEF RecordMove, Written, GateWrite, IntentWrite, ConcludeWrite

\* The same of the copy that a cleanup pass started from.
LEMMA CBaseNotRestored ==
  ASSUME TypeOK, [Next]_vars, NothingBeforeFiling, PassesApart, ReadyCopies, cpass' # None,
         CGoesOn, mig'[cpass.req] = cpass.base
  PROVE  mig[cpass.req] = cpass.base
  <1>1. cpass.req \in Request /\ cpass.base \in Migration /\ cpass.base # None
    BY BaseTyped DEF CGoesOn
  <1>2. RecordMove(cpass.req)
    BY <1>1, RecordMoves
  <1>3. born[cpass.req] # 0
    BY <1>1 DEF NothingBeforeFiling, CGoesOn
  <1>4. ~(rpass # None /\ mig[cpass.req] = rpass.base)
    <2>1. SUFFICES ASSUME rpass # None, mig[cpass.req] = rpass.base PROVE FALSE
      OBVIOUS
    <2>2. rpass.base # None /\ rpass.base.phase \notin {"Ready", "Completed"}
      BY <2>1, BaseTyped DEF PassesApart
    <2>3. mig[cpass.req].phase \in {"Ready", "Completed"}
      BY <2>1, <2>2 DEF ReadyCopies, EvidenceKept, CGoesOn
    <2>4. QED
      BY <2>1, <2>2, <2>3
  <1>5. QED
    BY <1>1, <1>2, <1>3, <1>4 DEF RecordMove, Written, GateWrite, IntentWrite, ConcludeWrite,
       CleanupWrite

\* A pass that can still patch its request holds what the cache shows (the pass starts
\* from the cache, and a write of the request reaches the cache before the next pass).
LEMMA CurrentKept ==
  ASSUME TypeOK, [Next]_vars, NothingBeforeFiling, PassesApart, ReadyCopies, CurrentCopies
  PROVE  CurrentCopies'
  <1>1. ASSUME rpass' # None, mig'[rpass'.req] = rpass'.base
        PROVE  seen'[rpass'.req] = rpass'.base
    <2>1. CASE GoesOn
      <3>1. rpass.req \in Request /\ mig[rpass.req] = rpass.base
        BY <1>1, <2>1, BaseTyped, BaseNotRestored DEF GoesOn
      <3>2. seen[rpass.req] = rpass.base
        BY <2>1, <3>1 DEF CurrentCopies, GoesOn
      <3>3. QED
        BY <2>1, <3>1, <3>2, CacheSteps DEF GoesOn
    <2>2. ASSUME NEW q \in Request, Begun(q) PROVE seen'[rpass'.req] = rpass'.base
      BY <2>2 DEF Begun, IsPass, storeVars, recordVars
    <2>3. QED
      BY <1>1, <2>1, <2>2, PassGoes
  <1>2. ASSUME cpass' # None, mig'[cpass'.req] = cpass'.base
        PROVE  seen'[cpass'.req] = cpass'.base
    <2>1. CASE CGoesOn
      <3>1. cpass.req \in Request /\ mig[cpass.req] = cpass.base
        BY <1>2, <2>1, BaseTyped, CBaseNotRestored DEF CGoesOn
      <3>2. seen[cpass.req] = cpass.base
        BY <2>1, <3>1 DEF CurrentCopies, CGoesOn
      <3>3. QED
        BY <2>1, <3>1, <3>2, CacheSteps DEF CGoesOn
    <2>2. ASSUME NEW q \in Request, CBegun(q) PROVE seen'[cpass'.req] = cpass'.base
      BY <1>2, <2>2, CacheSteps DEF CBegun, IsClean
    <2>3. QED
      BY <1>2, <2>1, <2>2, CleanGoes
  <1>3. QED
    BY <1>1, <1>2 DEF CurrentCopies

\* What a pass writes, the cache shows the state before.
LEMMA WrittenSeen ==
  ASSUME TypeOK, CurrentCopies, NEW q \in Request, Written(q)
  PROVE  mig[q] # None /\ seen[q] = mig[q] /\ mig'[q] # None /\ mig[q] \in Migration
  BY BaseTyped, NoneIsNoRecord DEF CurrentCopies, Written, GateWrite, IntentWrite, ConcludeWrite,
     CleanupWrite

\* A write finds its request in the cache as it was, and nothing of it in the feed.
LEMMA QueuedFresh ==
  ASSUME TypeOK, [Next]_vars, NothingBeforeFiling, FeedExact, CurrentCopies,
         NEW p \in Request, mig'[p] # mig[p], mig'[p] # None
  PROVE  /\ seen[p] # mig'[p] /\ seen[p] = mig[p]
         /\ \A i \in 1..Len(feed) : feed[i] # p
  <1>1. CASE born[p] = 0 /\ mig'[p] = NewMigration
    BY <1>1 DEF NothingBeforeFiling, FeedExact
  <1>2. CASE Written(p)
    <2>1. mig[p] # None /\ seen[p] = mig[p]
      BY <1>2, WrittenSeen
    <2>2. QED
      BY <2>1 DEF FeedExact
  <1>3. QED
    BY <1>1, <1>2, RecordMoves DEF RecordMove

\* The places of the feed that the watch has not come to.
LEMMA FeedPlaces ==
  ASSUME TypeOK
  PROVE  /\ Len(feed) \in Nat
         /\ feed # <<>> =>
              /\ Len(feed) # 0 /\ Head(feed) = feed[1]
              /\ Len(Tail(feed)) = Len(feed) - 1
              /\ \A i \in 1..(Len(feed) - 1) : Tail(feed)[i] = feed[i + 1]
         /\ \A p \in Request :
              /\ Len(Append(feed, p)) = Len(feed) + 1
              /\ Append(feed, p)[Len(feed) + 1] = p
              /\ \A i \in 1..Len(feed) : Append(feed, p)[i] = feed[i]
  BY DEF TypeOK, StoreTypeOK

\* The feed holds the requests whose cached copy is behind, each once (the watch
\* delivers every write, in the order of the writes).
LEMMA FeedKept ==
  ASSUME TypeOK, [Next]_vars, NothingBeforeFiling, FeedExact, CurrentCopies
  PROVE  FeedExact'
  <1>0. feed \in Seq(Request) /\ Len(feed) \in Nat
    BY DEF TypeOK, StoreTypeOK
  <1>1. CASE UNCHANGED <<mig, seen, feed>>
    <2>1. \A i \in 1..Len(feed) : born'[feed[i]] # 0
      BY <1>0, BornKept DEF FeedExact
    <2>2. QED
      BY <1>1, <2>1 DEF FeedExact
  <1>2. ASSUME NEW p \in Request, Delivered(p) PROVE FeedExact'
    <2>1. /\ feed # <<>> /\ feed[1] = p /\ Len(feed') = Len(feed) - 1 /\ Len(feed) # 0
          /\ \A i \in 1..(Len(feed) - 1) : feed'[i] = feed[i + 1]
      BY <1>2, FeedPlaces DEF Delivered
    <2>2. ASSUME NEW q \in Request, mig[q] # None
          PROVE  /\ seen'[q] # mig[q] <=> \E i \in 1..Len(feed') : feed'[i] = q
                 /\ \A i, j \in 1..Len(feed') : feed'[i] = q /\ feed'[j] = q => i = j
      <3>1. /\ seen[q] # mig[q] <=> \E i \in 1..Len(feed) : feed[i] = q
            /\ \A i, j \in 1..Len(feed) : feed[i] = q /\ feed[j] = q => i = j
        BY <2>2 DEF FeedExact
      <3>2. \A i, j \in 1..Len(feed') : feed'[i] = q /\ feed'[j] = q => i = j
        BY <1>0, <2>1, <3>1
      <3>3. CASE q = p
        <4>1. \A i \in 1..Len(feed') : feed'[i] # q
          BY <1>0, <2>1, <3>1, <3>3
        <4>2. QED
          BY <1>2, <3>2, <3>3, <4>1 DEF Delivered
      <3>4. CASE q # p
        <4>1. (\E i \in 1..Len(feed) : feed[i] = q) => \E i \in 1..Len(feed') : feed'[i] = q
          <5>1. SUFFICES ASSUME NEW i \in 1..Len(feed), feed[i] = q
                         PROVE  \E j \in 1..Len(feed') : feed'[j] = q
            OBVIOUS
          <5>2. i # 1
            BY <2>1, <3>4, <5>1
          <5>3. i - 1 \in 1..Len(feed') /\ i - 1 \in 1..(Len(feed) - 1) /\ (i - 1) + 1 = i
            BY <1>0, <2>1, <5>2
          <5>4. feed'[i - 1] = q
            BY <2>1, <5>1, <5>3
          <5>5. QED
            BY <5>3, <5>4
        <4>2. (\E i \in 1..Len(feed') : feed'[i] = q) => \E i \in 1..Len(feed) : feed[i] = q
          <5>1. SUFFICES ASSUME NEW i \in 1..Len(feed'), feed'[i] = q
                         PROVE  \E j \in 1..Len(feed) : feed[j] = q
            OBVIOUS
          <5>2. i + 1 \in 1..Len(feed) /\ i \in 1..(Len(feed) - 1)
            BY <1>0, <2>1
          <5>3. feed[i + 1] = q
            BY <2>1, <5>1, <5>2
          <5>4. QED
            BY <5>2, <5>3
        <4>3. seen'[q] = seen[q]
          BY <1>2, <3>4 DEF Delivered
        <4>4. QED
          BY <3>1, <3>2, <4>1, <4>2, <4>3
      <3>5. QED
        BY <3>3, <3>4
    <2>3. \A i \in 1..Len(feed') : born'[feed'[i]] # 0
      BY <1>0, <1>2, <2>1 DEF FeedExact, Delivered
    <2>4. QED
      BY <1>2, <2>2, <2>3 DEF FeedExact, Delivered
  <1>3. ASSUME NEW p \in Request, Queued(p) PROVE FeedExact'
    <2>1. /\ Len(feed') = Len(feed) + 1 /\ feed'[Len(feed) + 1] = p
          /\ \A i \in 1..Len(feed) : feed'[i] = feed[i]
      BY <1>3, FeedPlaces DEF Queued
    <2>2. ASSUME NEW q \in Request, mig'[q] # None
          PROVE  /\ seen'[q] # mig'[q] <=> \E i \in 1..Len(feed') : feed'[i] = q
                 /\ \A i, j \in 1..Len(feed') : feed'[i] = q /\ feed'[j] = q => i = j
      <3>1. CASE q = p
        <4>1. seen'[p] # mig'[p] /\ \A i \in 1..Len(feed) : feed[i] # p
          BY <1>3, <2>2, <3>1, QueuedFresh DEF Queued
        <4>2. Len(feed) + 1 \in 1..Len(feed')
          BY <1>0, <2>1
        <4>3. \A i \in 1..Len(feed') : feed'[i] = p => i = Len(feed) + 1
          BY <1>0, <2>1, <4>1
        <4>4. QED
          BY <2>1, <3>1, <4>1, <4>2, <4>3
      <3>2. CASE q # p
        <4>1. /\ mig'[q] = mig[q] /\ seen'[q] = seen[q]
              /\ seen[q] # mig[q] <=> \E i \in 1..Len(feed) : feed[i] = q
              /\ \A i, j \in 1..Len(feed) : feed[i] = q /\ feed[j] = q => i = j
          BY <1>3, <2>2, <3>2 DEF FeedExact, Queued
        <4>2. \A i \in 1..Len(feed') : feed'[i] = q => i \in 1..Len(feed) /\ feed[i] = q
          BY <1>0, <2>1, <3>2
        <4>3. \A i \in 1..Len(feed) : i \in 1..Len(feed')
          BY <1>0, <2>1
        <4>4. QED
          BY <2>1, <4>1, <4>2, <4>3
      <3>3. QED
        BY <3>1, <3>2
    <2>3. ASSUME NEW i \in 1..Len(feed') PROVE born'[feed'[i]] # 0
      <3>1. CASE i \in 1..Len(feed)
        <4>1. feed[i] \in Request /\ born[feed[i]] # 0
          BY <1>0, <3>1 DEF FeedExact
        <4>2. QED
          BY <2>1, <3>1, <4>1, BornKept
      <3>2. CASE i = Len(feed) + 1
        BY <1>3, <2>1, <3>2 DEF Queued
      <3>3. QED
        BY <1>0, <2>1, <2>3, <3>1, <3>2
    <2>4. QED
      BY <2>2, <2>3 DEF FeedExact
  <1>4. CASE Relisted
    <2>1. Len(feed') = 0
      BY <1>4 DEF Relisted
    <2>2. QED
      BY <1>4, <2>1 DEF FeedExact, Relisted
  <1>5. QED
    BY <1>1, <1>2, <1>3, <1>4, FeedMoves DEF FeedMove

\* Nothing is written of a request before a pass has read it from the cache.
LEMMA SeenKept ==
  ASSUME TypeOK, [Next]_vars, CurrentCopies, SeenBeforeWritten
  PROVE  SeenBeforeWritten'
  <1>1. SUFFICES ASSUME NEW q \in Request, mig'[q] # None, mig'[q] # NewMigration
                 PROVE  seen'[q] # None
    BY DEF SeenBeforeWritten
  <1>2. CASE mig'[q] = mig[q]
    BY <1>1, <1>2, CacheSteps DEF SeenBeforeWritten
  <1>3. CASE Written(q)
    BY <1>3, WrittenSeen, CacheSteps
  <1>4. QED
    BY <1>1, <1>2, <1>3, RecordMoves DEF RecordMove

-----------------------------------------------------------------------------
(* Who relies on a claim, and who knows of it.                             *)

\* A request relies on its claim from a write of a pass behind the gate on.
LEMMA BecomesReserved ==
  ASSUME TypeOK, [Next]_vars, PassesApart, NEW q \in Request, ReservedNow(q)', ~ReservedNow(q)
  PROVE  /\ rpass # None /\ rpass.req = q /\ rpass.pc # "gate" /\ rpass' = None
         /\ mig'[q].hash = rpass.base.hash
  <1>1. mig'[q] # None /\ Reserved(mig'[q])
    BY DEF ReservedNow, Reserved
  <1>2. CASE mig'[q] = mig[q]
    BY <1>1, <1>2 DEF ReservedNow
  <1>3. CASE mig'[q] = NewMigration
    BY <1>1, <1>3 DEF NewMigration, NewRef, Reserved
  <1>4. CASE GateWrite(q)
    <2>1. mig[q] # None /\ mig'[q].refs = mig[q].refs
      BY <1>4, BaseTyped DEF GateWrite
    <2>2. mig'[q].phase \notin {"Ready", "Completed"}
      BY <1>4 DEF GateWrite
    <2>3. QED
      BY <1>1, <2>1, <2>2 DEF Reserved, ReservedNow
  <1>5. CASE CleanupWrite(q)
    BY <1>5, BaseTyped DEF CleanupWrite, PassesApart, ReservedNow, Reserved
  <1>6. CASE IntentWrite(q) \/ ConcludeWrite(q)
    BY <1>6 DEF IntentWrite, ConcludeWrite
  <1>7. QED
    BY <1>1, <1>2, <1>3, <1>4, <1>5, <1>6, RecordMoves DEF RecordMove, Written

\* The plan of a request becomes known by the write of a pass at the gate.
LEMMA BecomesKnown ==
  ASSUME TypeOK, [Next]_vars, NEW q \in Request, Known(q)', ~Known(q)
  PROVE  GateWrite(q) /\ mig'[q] # mig[q] /\ mig'[q] # None
  <1>1. Planned(mig'[q]) \/ Planned(seen'[q])
    BY DEF Known, Planned
  <1>2. ~Planned(mig[q]) /\ ~Planned(seen[q])
    BY DEF Known
  <1>3. Planned(mig'[q]) /\ mig'[q] # mig[q]
    BY <1>1, <1>2, CacheSteps
  <1>4. mig'[q] # NewMigration
    BY <1>3 DEF Planned, NewMigration
  <1>5. CASE GateWrite(q)
    BY <1>3, <1>5 DEF Planned
  <1>6. CASE IntentWrite(q) \/ ConcludeWrite(q) \/ CleanupWrite(q)
    BY <1>2, <1>3, <1>6, BaseTyped DEF IntentWrite, ConcludeWrite, CleanupWrite, Planned
  <1>7. QED
    BY <1>3, <1>4, <1>5, <1>6, RecordMoves DEF RecordMove, Written, Planned

\* What is known was filed, and so its age stands.
LEMMA OlderKept ==
  ASSUME TypeOK, [Next]_vars, NothingBeforeFiling, NEW p \in Request, NEW q \in Request,
         born[p] # 0, born[q] # 0, Older(p, q)
  PROVE  Older(p, q)'
  BY BornKept DEF Older

\* Whatever is known or reserved was filed.
LEMMA KnownFiled ==
  ASSUME NothingBeforeFiling, NEW q \in Request, Known(q) \/ ReservedNow(q)
  PROVE  born[q] # 0
  BY DEF NothingBeforeFiling, Known, Planned, ReservedNow

\* What the cache shows of a reservation it goes on showing, while the record has it.
LEMMA ReservedSeenKept ==
  ASSUME TypeOK, [Next]_vars, NEW p \in Request, ReservedNow(p), ReservedSeen(p)
  PROVE  ReservedSeen(p)'
  <1>1. seen'[p] = seen[p] \/ seen'[p] = mig[p]
    BY CacheSteps
  <1>2. seen'[p] # None /\ Reserved(seen'[p])
    BY <1>1 DEF ReservedNow, ReservedSeen
  <1>3. QED
    BY <1>2 DEF ReservedSeen, Reserved

\* A reservation that the cache does not show is in the feed.
LEMMA ReservedFed ==
  ASSUME FeedExact, NEW p \in Request, ReservedNow(p), ~ReservedSeen(p)
  PROVE  \E i \in 1..Len(feed) : feed[i] = p
  BY DEF FeedExact, ReservedNow, ReservedSeen

\* The cache goes on hearing of a reservation before it hears of the plan of a rival.
LEMMA AheadKept ==
  ASSUME TypeOK, [Next]_vars, NothingBeforeFiling, FeedExact,
         NEW p \in Request, NEW q \in Request,
         ReservedNow(p), ~ReservedSeen(p), ~Planned(seen[q]), Ahead(p, q)
  PROVE  ReservedSeen(p)' \/ (~Planned(seen[q])' /\ Ahead(p, q)')
  <1>0. Len(feed) \in Nat
    BY FeedPlaces
  <1>a. ASSUME seen'[p] = mig[p] PROVE ReservedSeen(p)'
    <2>1. seen'[p] # None /\ Reserved(seen'[p])
      BY <1>a DEF ReservedNow
    <2>2. QED
      BY <2>1 DEF ReservedSeen, Reserved
  <1>b. ASSUME seen'[q] = seen[q],
               \A j \in 1..Len(feed') : feed'[j] = q => \E i \in 1..(j - 1) : feed'[i] = p
        PROVE  ~Planned(seen[q])' /\ Ahead(p, q)'
    BY <1>b DEF Planned, Ahead
  <1>1. CASE UNCHANGED <<mig, seen, feed>>
    BY <1>1, <1>b DEF Ahead
  <1>2. ASSUME NEW h \in Request, Delivered(h), h # p
        PROVE  ~Planned(seen[q])' /\ Ahead(p, q)'
    <2>1. /\ feed[1] = h /\ Len(feed') = Len(feed) - 1 /\ Len(feed) # 0
          /\ \A i \in 1..(Len(feed) - 1) : feed'[i] = feed[i + 1]
      BY <1>2, FeedPlaces DEF Delivered
    <2>2. h # q
      <3>1. 1 \in 1..Len(feed)
        BY <1>0, <2>1
      <3>2. feed[1] # q
        BY <3>1 DEF Ahead
      <3>3. QED
        BY <2>1, <3>2
    <2>3. seen'[q] = seen[q]
      BY <1>2, <2>2 DEF Delivered
    <2>4. ASSUME NEW j \in 1..Len(feed'), feed'[j] = q
          PROVE  \E i \in 1..(j - 1) : feed'[i] = p
      <3>1. j + 1 \in 1..Len(feed) /\ feed[j + 1] = q
        BY <1>0, <2>1, <2>4
      <3>2. PICK i \in 1..((j + 1) - 1) : feed[i] = p
        BY <3>1 DEF Ahead
      <3>3. i # 1
        BY <1>2, <2>1, <3>2
      <3>4. i - 1 \in 1..(j - 1) /\ i - 1 \in 1..(Len(feed) - 1) /\ (i - 1) + 1 = i
        BY <1>0, <2>1, <3>2, <3>3
      <3>5. feed'[i - 1] = p
        BY <2>1, <3>2, <3>4
      <3>6. QED
        BY <3>4, <3>5
    <2>5. QED
      BY <1>b, <2>3, <2>4
  <1>3. ASSUME NEW h \in Request, Delivered(h), h = p PROVE ReservedSeen(p)'
    BY <1>a, <1>3 DEF Delivered
  <1>4. ASSUME NEW h \in Request, Queued(h) PROVE ~Planned(seen[q])' /\ Ahead(p, q)'
    <2>1. /\ Len(feed') = Len(feed) + 1
          /\ \A i \in 1..Len(feed) : feed'[i] = feed[i]
      BY <1>4, FeedPlaces DEF Queued
    <2>2. ASSUME NEW j \in 1..Len(feed'), feed'[j] = q
          PROVE  \E i \in 1..(j - 1) : feed'[i] = p
      <3>1. CASE j \in 1..Len(feed)
        <4>1. PICK i \in 1..(j - 1) : feed[i] = p
          BY <2>1, <2>2, <3>1 DEF Ahead
        <4>2. i \in 1..Len(feed)
          BY <1>0, <3>1, <4>1
        <4>3. QED
          BY <2>1, <4>1, <4>2
      <3>2. CASE j = Len(feed) + 1
        <4>1. PICK i \in 1..Len(feed) : feed[i] = p
          BY ReservedFed
        <4>2. i \in 1..(j - 1)
          BY <1>0, <3>2
        <4>3. QED
          BY <2>1, <4>1, <4>2
      <3>3. j \in 1..(Len(feed) + 1) /\ Len(feed) \in Nat
        BY <1>0, <2>1, <2>2
      <3>4. QED
        BY <3>1, <3>2, <3>3, SMT
    <2>3. QED
      BY <1>4, <1>b, <2>2 DEF Queued
  <1>5. CASE Relisted
    BY <1>a, <1>5 DEF Relisted
  <1>6. QED
    BY <1>1, <1>2, <1>3, <1>4, <1>5, FeedMoves DEF FeedMove

\* A request whose plan is recorded now comes behind every reservation in the feed.
LEMMA AheadOfPlan ==
  ASSUME TypeOK, [Next]_vars, NothingBeforeFiling, FeedExact, CurrentCopies,
         NEW p \in Request, NEW q \in Request,
         ReservedNow(p), ~ReservedSeen(p), ~Planned(seen[q]), mig'[q] # mig[q], mig'[q] # None
  PROVE  ~Planned(seen[q])' /\ Ahead(p, q)'
  <1>0. Len(feed) \in Nat
    BY FeedPlaces
  <1>1. Queued(q)
    BY FeedMoves DEF FeedMove, Delivered, Queued, Relisted
  <1>2. /\ Len(feed') = Len(feed) + 1 /\ seen' = seen
        /\ \A i \in 1..Len(feed) : feed'[i] = feed[i]
    BY <1>1, FeedPlaces DEF Queued
  <1>3. \A i \in 1..Len(feed) : feed[i] # q
    BY QueuedFresh
  <1>4. PICK i \in 1..Len(feed) : feed[i] = p
    BY ReservedFed
  <1>5. ASSUME NEW j \in 1..Len(feed'), feed'[j] = q
        PROVE  \E h \in 1..(j - 1) : feed'[h] = p
    <2>1. j = Len(feed) + 1
      BY <1>0, <1>2, <1>3, <1>5
    <2>2. i \in 1..(j - 1)
      BY <1>0, <2>1
    <2>3. QED
      BY <1>2, <1>4, <2>2
  <1>6. QED
    BY <1>2, <1>5 DEF Ahead, Planned

\* A reservation does not hide from a rival: not behind the cache, since the watch
\* keeps the order of the writes (the peers of validateBinding).
LEMMA ShowsKept ==
  ASSUME TypeOK, [Next]_vars, NothingBeforeFiling, PassesApart, FeedExact, CurrentCopies,
         PeersOfPass, ReservationsShow
  PROVE  ReservationsShow'
  <1>1. SUFFICES ASSUME NEW p \in Request, NEW q \in Request, Rivals(p, q),
                        ReservedNow(p)', Known(q)'
                 PROVE  \/ Older(p, q)'
                        \/ ReservedSeen(p)'
                        \/ ~Planned(seen[q])' /\ Ahead(p, q)'
    BY DEF ReservationsShow, Rivals
  <1>2. CASE ~ReservedNow(p)
    <2>1. rpass # None /\ rpass.req = p /\ rpass.pc # "gate"
      BY <1>1, <1>2, BecomesReserved
    <2>2. Known(q)
      BY <1>1, <2>1, BecomesKnown DEF GateWrite
    <2>3. Rivals(q, p)
      BY <1>1 DEF Rivals, Overlap
    <2>4. Older(p, q)
      BY <2>1, <2>2, <2>3 DEF PeersOfPass
    <2>5. born[p] # 0 /\ born[q] # 0
      BY <2>1, <2>2, KnownFiled DEF NothingBeforeFiling
    <2>6. QED
      BY <2>4, <2>5, OlderKept
  <1>3. CASE ReservedNow(p) /\ ReservedSeen(p)
    BY <1>3, ReservedSeenKept
  <1>4. CASE ReservedNow(p) /\ ~ReservedSeen(p) /\ Known(q)
    <2>1. Older(p, q) \/ (~Planned(seen[q]) /\ Ahead(p, q))
      BY <1>1, <1>4 DEF ReservationsShow
    <2>2. CASE Older(p, q)
      BY <1>4, <2>2, KnownFiled, OlderKept
    <2>3. QED
      BY <1>4, <2>1, <2>2, AheadKept
  <1>5. CASE ReservedNow(p) /\ ~ReservedSeen(p) /\ ~Known(q)
    <2>1. mig'[q] # mig[q] /\ mig'[q] # None
      BY <1>1, <1>5, BecomesKnown
    <2>2. QED
      BY <1>5, <2>1, AheadOfPlan DEF Known
  <1>6. QED
    BY <1>2, <1>3, <1>4, <1>5

\* A pass begins, passes the gate, or goes on on its side of the gate.
LEMMA PassTurns ==
  ASSUME TypeOK, [Next]_vars, rpass' # None
  PROVE  \/ \E q \in Request : Begun(q)
         \/ Proceeded
         \/ GoesOn /\ (rpass'.pc = "gate" <=> rpass.pc = "gate")
  <1>1. CASE UNCHANGED rpass
    BY <1>1 DEF GoesOn
  <1>2. CASE Skipped \/ Created \/ Observed \/ Intended \/ Prepared
    BY <1>2 DEF Skipped, Created, Observed, Intended, Prepared, Turn, AtWork, IsPass, GoesOn
  <1>3. QED
    BY <1>1, <1>2, PassMoves DEF PassMove

\* A pass that passes the gate has no rival that relies on the claim, and is older than
\* every rival whose plan is known (the peers of validateBinding).
LEMMA GateDecides ==
  ASSUME TypeOK, SeenBeforeWritten, PeersOfPass, Proceeded,
         NEW p \in Request, Rivals(p, rpass.req)
  PROVE  ~ReservedNow(p) /\ (Known(p) => Older(rpass.req, p))
  <1>1. /\ rpass # None /\ rpass.pc = "gate" /\ rpass.base.hash # None
        /\ ~Blocks(p, rpass.req)
    BY DEF Proceeded, AtGate, PlanBuilt, ValidateBinding
  <1>2. rpass.req \in Request
    BY <1>1, BaseTyped
  <1>3. seen[p] # None => ~Reserved(seen[p]) /\ ~Older(p, rpass.req)
    BY <1>1 DEF Blocks, Rivals
  <1>4. ASSUME ReservedNow(p) PROVE FALSE
    <2>1. mig[p] # NewMigration /\ mig[p] # None
      BY <1>4 DEF ReservedNow, Reserved, NewMigration, NewRef
    <2>2. seen[p] # None
      BY <2>1 DEF SeenBeforeWritten
    <2>3. ReservedSeen(p) \/ Older(p, rpass.req)
      BY <1>1, <1>4 DEF PeersOfPass
    <2>4. QED
      BY <1>3, <2>2, <2>3 DEF ReservedSeen
  <1>5. ASSUME Known(p) PROVE Older(rpass.req, p)
    <2>1. seen[p] # None
      BY <1>5 DEF Known, Planned, SeenBeforeWritten, NewMigration
    <2>2. p # rpass.req
      BY DEF Rivals
    <2>3. QED
      BY <1>2, <1>3, <2>1, <2>2, OlderTotal
  <1>6. QED
    BY <1>4, <1>5

\* What a pass may take for granted about the rivals of its request stands until it
\* ends: behind the gate nobody else can start to rely on the claim.
LEMMA PeersKept ==
  ASSUME TypeOK, [Next]_vars, NothingBeforeFiling, PassesApart, SeenBeforeWritten,
         ReservationsShow, PeersOfPass
  PROVE  PeersOfPass'
  <1>1. SUFFICES ASSUME rpass' # None, NEW r \in Request, r = rpass'.req,
                        NEW p \in Request, Rivals(p, r)
                 PROVE  /\ rpass'.pc = "gate" /\ rpass'.base.hash # None /\ ReservedNow(p)' =>
                             ReservedSeen(p)' \/ Older(p, r)'
                        /\ rpass'.pc # "gate" =>
                             /\ ~ReservedNow(p)'
                             /\ Known(p)' => Older(r, p)'
    <2>1. rpass' # None => rpass'.req \in Request
      BY NextTyped, BaseTyped DEF TypeOK, MigrationTypeOK, MigrationPass
    <2>2. QED
      BY <2>1 DEF PeersOfPass, Rivals, Overlap, Older
  <1>2. ReservedNow(p)' => ReservedNow(p)
    BY <1>1, BecomesReserved
  <1>3. Known(p)' => Known(p)
    BY <1>1, BecomesKnown DEF GateWrite
  <1>4. ASSUME NEW q \in Request, Begun(q)
        PROVE  /\ rpass'.pc = "gate"
               /\ rpass'.base.hash # None /\ ReservedNow(p)' =>
                    ReservedSeen(p)' \/ Older(p, r)'
    <2>1. /\ r = q /\ rpass'.base = seen[q] /\ seen[q] # None /\ rpass'.pc = "gate"
          /\ mig' = mig /\ seen' = seen /\ born' = born
      BY <1>1, <1>4 DEF Begun, IsPass, storeVars, recordVars
    <2>2. SUFFICES ASSUME seen[q].hash # None, ReservedNow(p)
                   PROVE  ReservedSeen(p) \/ Older(p, q)
      BY <1>2, <2>1 DEF Older, ReservedSeen, Reserved
    <2>3. Known(q) /\ Planned(seen[q])
      BY <2>1, <2>2 DEF Known, Planned
    <2>4. QED
      BY <1>1, <2>1, <2>2, <2>3 DEF ReservationsShow
  <1>5. CASE Proceeded
    <2>1. /\ r = rpass.req /\ rpass'.pc # "gate"
          /\ mig' = mig /\ seen' = seen /\ born' = born
      BY <1>1, <1>5 DEF Proceeded, IsPass, storeVars, recordVars
    <2>2. ~ReservedNow(p) /\ (Known(p) => Older(r, p))
      BY <1>1, <1>5, <2>1, GateDecides
    <2>3. Older(r, p) => Older(r, p)'
      BY <2>1 DEF Older
    <2>4. QED
      BY <1>2, <1>3, <2>1, <2>2, <2>3
  <1>6. CASE GoesOn /\ (rpass'.pc = "gate" <=> rpass.pc = "gate")
    <2>1. /\ rpass # None /\ r = rpass.req /\ rpass'.base = rpass.base
          /\ born[r] # 0
      BY <1>1, <1>6 DEF GoesOn, NothingBeforeFiling
    <2>2. ASSUME rpass.pc = "gate", rpass.base.hash # None, ReservedNow(p)
          PROVE  ReservedSeen(p)' \/ Older(p, r)'
      <3>1. ReservedSeen(p) \/ Older(p, r)
        BY <1>1, <2>1, <2>2 DEF PeersOfPass
      <3>2. QED
        BY <2>1, <2>2, <3>1, ReservedSeenKept, KnownFiled, OlderKept
    <2>3. ASSUME rpass.pc # "gate"
          PROVE  ~ReservedNow(p) /\ (Known(p) => Older(r, p)')
      <3>1. ~ReservedNow(p) /\ (Known(p) => Older(r, p))
        BY <1>1, <2>1, <2>3 DEF PeersOfPass
      <3>2. QED
        BY <2>1, <3>1, KnownFiled, OlderKept
    <2>4. QED
      BY <1>2, <1>3, <1>6, <2>1, <2>2, <2>3
  <1>7. QED
    BY <1>1, <1>4, <1>5, <1>6, PassTurns

\* Behind the gate a pass has the recorded plan, and so has what it relies on (the
\* planHash check).
LEMMA SpendingKept ==
  ASSUME TypeOK, [Next]_vars, PassesApart, PlannedBehindGate, ReservedPlanned
  PROVE  PlannedBehindGate' /\ ReservedPlanned'
  <1>1. PlannedBehindGate'
    <2>1. SUFFICES ASSUME rpass' # None, rpass'.pc # "gate" PROVE rpass'.base.hash # None
      BY DEF PlannedBehindGate
    <2>2. CASE Proceeded
      BY <2>2 DEF Proceeded, IsPass
    <2>3. CASE GoesOn /\ (rpass'.pc = "gate" <=> rpass.pc = "gate")
      BY <2>1, <2>3 DEF GoesOn, PlannedBehindGate
    <2>4. QED
      BY <2>1, <2>2, <2>3, PassTurns DEF Begun, IsPass
  <1>2. ReservedPlanned'
    <2>1. SUFFICES ASSUME NEW q \in Request, ReservedNow(q)' PROVE mig'[q].hash # None
      BY DEF ReservedPlanned, ReservedNow
    <2>2. CASE ~ReservedNow(q)
      BY <2>1, <2>2, BecomesReserved DEF PlannedBehindGate
    <2>3. CASE ReservedNow(q)
      <3>1. mig[q] # None /\ mig[q].hash # None
        BY <2>3 DEF ReservedNow, ReservedPlanned
      <3>2. mig'[q] # None /\ mig'[q] # NewMigration
        BY <2>1 DEF ReservedNow, Reserved, NewMigration, NewRef
      <3>3. QED
        BY <3>1, <3>2, RecordMoves DEF RecordMove, Written, GateWrite, IntentWrite, ConcludeWrite,
           CleanupWrite
    <2>4. QED
      BY <2>2, <2>3
  <1>3. QED
    BY <1>1, <1>2

\* The inductive step of the reservations.
LEMMA ReservationKept ==
  ASSUME TypeOK, [Next]_vars, NothingBeforeFiling, PassesApart, ReadyCopies, ResInv
  PROVE  ResInv'
  <1> USE DEF ResInv
  <1>1. FeedExact'
    BY FeedKept
  <1>2. CurrentCopies'
    BY CurrentKept
  <1>3. SeenBeforeWritten'
    BY SeenKept
  <1>4. ReservationsShow'
    BY ShowsKept
  <1>5. PeersOfPass'
    BY PeersKept
  <1>6. PlannedBehindGate' /\ ReservedPlanned'
    BY SpendingKept
  <1>7. QED
    BY <1>1, <1>2, <1>3, <1>4, <1>5, <1>6

\* No two rivals rely on the claim after a step: one that starts to has found the other
\* not to, at the gate and ever since.
LEMMA ExclusiveKept ==
  ASSUME TypeOK, [Next]_vars, PassesApart, PeersOfPass, ReservationExclusive
  PROVE  ReservationExclusive'
  <1>1. SUFFICES ASSUME NEW p \in Request, NEW q \in Request, Rivals(p, q),
                        ReservedNow(p)', ReservedNow(q)'
                 PROVE  FALSE
    BY DEF ReservationExclusive, Rivals, ReservedNow
  <1>2. Rivals(q, p)
    BY <1>1 DEF Rivals, Overlap
  <1>3. CASE ReservedNow(p) /\ ReservedNow(q)
    BY <1>1, <1>3 DEF ReservationExclusive, ReservedNow, Rivals
  <1>4. CASE ~ReservedNow(p)
    <2>1. rpass # None /\ rpass.req = p /\ rpass.pc # "gate"
      BY <1>1, <1>4, BecomesReserved
    <2>2. ~ReservedNow(q)
      BY <1>2, <2>1 DEF PeersOfPass
    <2>3. rpass.req = q
      BY <1>1, <2>2, BecomesReserved
    <2>4. QED
      BY <1>1, <2>1, <2>3 DEF Rivals
  <1>5. CASE ~ReservedNow(q)
    <2>1. rpass # None /\ rpass.req = q /\ rpass.pc # "gate"
      BY <1>1, <1>5, BecomesReserved
    <2>2. ~ReservedNow(p)
      BY <1>1, <2>1 DEF PeersOfPass
    <2>3. rpass.req = p
      BY <1>1, <2>2, BecomesReserved
    <2>4. QED
      BY <1>1, <2>1, <2>3 DEF Rivals
  <1>6. QED
    BY <1>3, <1>4, <1>5

\* In the beginning nobody relies on anything, and the cache shows what there is.
LEMMA ReservationInit == Init => ResInv /\ ReservationExclusive
  <1> SUFFICES ASSUME Init PROVE ResInv /\ ReservationExclusive
    OBVIOUS
  <1>1. rpass = None /\ cpass = None /\ seen = mig /\ feed = <<>> /\ Len(feed) = 0
    BY DEF Init, StoreInit, MigrationInit, CleanupInit
  <1>2. ASSUME NEW q \in Request, mig[q] # None PROVE ~Reserved(mig[q])
    BY <1>2 DEF Init, StoreInit, LegacyMigration, NewMigration, NewRef, Reserved
  <1>3. FeedExact /\ CurrentCopies /\ SeenBeforeWritten
    BY <1>1 DEF FeedExact, CurrentCopies, SeenBeforeWritten
  <1>4. ReservationsShow /\ PeersOfPass /\ PlannedBehindGate /\ ReservedPlanned
    BY <1>1, <1>2 DEF ReservationsShow, PeersOfPass, PlannedBehindGate, ReservedPlanned, ReservedNow
  <1>5. QED
    BY <1>2, <1>3, <1>4 DEF ResInv, ReservationExclusive

\* They hold forever.
LEMMA ReservationHolds == Spec => [](ResInv /\ ReservationExclusive)
  <1>1. TypeOK /\ SafetyInv /\ DeletionInv /\ ResInv /\ ReservationExclusive /\ [Next]_vars =>
          (ResInv /\ ReservationExclusive)'
    BY ReservationKept, ExclusiveKept DEF SafetyInv, PlanInv, DeletionInv, ResInv
  <1>2. QED
    BY <1>1, ReservationInit, TypeCorrect, SafetyHolds, DeletionHolds, PTL DEF Spec

\* Two requests for the same target claim never both rely on their Works, however late
\* the cache shows each the other (the peers of validateBinding).
THEOREM OneReserves == Spec => []ReservationExclusive
  BY ReservationHolds, PTL

-----------------------------------------------------------------------------
(* No request relies on a Work of another.                                 *)

\* A Work that is a request's stays so: it is created only by a pass, and by that of
\* a rival only while the request does not rely on it.
LEMMA OwnerKept ==
  ASSUME TypeOK, [Next]_vars, PeersOfPass, NEW q \in Request, NEW k \in Works(q),
         works[k] # None => works[k].owner = q,
         works'[k] # None,
         rpass # None /\ rpass.pc = "work" => rpass.req = q \/ ReservedNow(q)
  PROVE  works'[k].owner = q
  <1>1. k \in Work /\ WorkMove(k)
    BY PlannedAt, WorkMoves
  <1>2. CASE works'[k] = works[k] \/ Touched(k) \/ Edited(k) \/ Repaired(k)
    BY <1>2 DEF Touched, Edited, Repaired, SameWork
  <1>3. CASE Made(k)
    <2>1. /\ works'[k].owner = rpass.req /\ rpass # None /\ rpass.pc = "work"
          /\ rpass.req \in Request /\ k \in Works(rpass.req)
      <3>1. rpass # None /\ rpass.pc = "work" /\ rpass.i <= Len(Plan[rpass.req]) /\ k = RName
        BY <1>3 DEF Made, AtWork
      <3>2. rpass.req \in Request /\ rpass.i \in Nat \ {0}
        BY <3>1, AtWorkTyped, BaseTyped DEF TypeOK, MigrationTypeOK, MigrationPass
      <3>3. Len(Plan[rpass.req]) \in Nat
        BY <3>2, PlanTyped
      <3>4. rpass.i \in 1..Len(Plan[rpass.req])
        BY <3>1, <3>2, <3>3
      <3>5. QED
        BY <1>3, <3>1, <3>2, <3>4, PlannedAt DEF Made, NewWork, RName
    <2>2. ASSUME rpass.req # q PROVE FALSE
      <3>1. Rivals(q, rpass.req)
        BY <2>1, <2>2 DEF Rivals, Overlap
      <3>2. ~ReservedNow(q)
        BY <2>1, <3>1 DEF PeersOfPass
      <3>3. QED
        BY <2>1, <2>2, <3>2
    <2>3. QED
      BY <2>1, <2>2
  <1>4. QED
    BY <1>1, <1>2, <1>3 DEF WorkMove

\* What a pass holds of a Work it takes from before, or from the Work as it is, when
\* that is its own (validateWork and ensureWorkRouting).
LEMMA TurnOwns ==
  ASSUME TypeOK, Skipped \/ Created \/ Observed \/ Intended \/ Prepared, NEW k \in Work
  PROVE  \/ works[k] # None /\ works[k].owner = rpass.req
         \/ /\ rpass'.refs[k].applied => rpass.refs[k].applied
            /\ rpass'.read[k] # None => rpass.read[k] # None
  <1>1. CASE Skipped \/ Created
    BY <1>1 DEF Skipped, Created, Turn, IsPass
  <1>2. CASE Observed
    <2>1. works[RName] # None /\ works[RName].owner = rpass.req
      BY <1>2 DEF Observed, Acceptable, ValidateWork, SpecMatches, RWork
    <2>2. QED
      BY <1>2, <2>1, ObservedFields
  <1>3. CASE Intended
    <2>1. /\ rpass'.refs[RName].applied = RRef.applied /\ rpass'.read = rpass.read
          /\ \A j \in Work \ {RName} : rpass'.refs[j] = rpass.refs[j]
      BY <1>3, IntendedFields
    <2>2. QED
      BY <2>1 DEF RRef
  <1>4. CASE Prepared
    <2>1. works[RName] # None /\ works[RName].owner = rpass.req
      BY <1>4 DEF Prepared, NeedsRepair, Repairable, LegacySpecMatches, RWork
    <2>2. QED
      BY <1>4, <2>1, PreparedFields
  <1>5. QED
    BY <1>1, <1>2, <1>3, <1>4

\* A pass that can still patch its request relies on no Work of another.
LEMMA PassReliesKept ==
  ASSUME TypeOK, [Next]_vars, NothingBeforeFiling, PassesApart, NothingDetachedEarly,
         PeersOfPass, ReliesOnOwn, PassRelies
  PROVE  PassRelies'
  <1>1. ASSUME NEW q \in Request, Begun(q) PROVE PassRelies'
    <2>1. /\ rpass'.pc = "gate" /\ rpass'.req = q /\ rpass'.base = seen[q]
          /\ rpass'.refs = seen[q].refs /\ rpass'.read = [j \in Work |-> None]
      BY <1>1 DEF Begun, IsPass
    <2>2. \A k \in Works(q) : rpass'.read[k] = None
      BY <2>1, PlannedAt
    <2>3. QED
      BY <2>1, <2>2 DEF PassRelies
  <1>2. CASE Proceeded
    <2>1. /\ rpass # None /\ rpass.pc = "gate" /\ rpass'.pc # "gate"
          /\ rpass'.req = rpass.req /\ rpass'.base = rpass.base
          /\ rpass'.refs = rpass.refs /\ rpass'.read = rpass.read
          /\ works' = works /\ mig' = mig
      BY <1>2 DEF Proceeded, AtGate, IsPass, storeVars, recordVars, workVars
    <2>2. rpass.req \in Request /\ rpass.base # None /\ rpass.refs = rpass.base.refs
      BY <2>1, BaseTyped DEF PassRelies
    <2>3. ASSUME NEW k \in Works(rpass.req), works[k] # None, mig[rpass.req] = rpass.base,
                 rpass.refs[k].applied
          PROVE  works[k].owner = rpass.req
      <3>1. k \in Work
        BY <2>2, PlannedAt
      <3>2. ~mig[rpass.req].refs[k].detached
        BY <2>1, <2>2, <2>3, <3>1 DEF NothingDetachedEarly
      <3>3. QED
        BY <2>2, <2>3, <3>2 DEF ReliesOnOwn
    <2>4. QED
      BY <2>1, <2>2, <2>3 DEF PassRelies
  <1>3. CASE /\ rpass' # None
             /\ UNCHANGED rpass \/ Skipped \/ Created \/ Observed \/ Intended \/ Prepared
    <2>1. /\ GoesOn /\ (rpass'.pc = "gate" <=> rpass.pc = "gate")
          /\ rpass'.pc = "gate" => UNCHANGED rpass
      BY <1>3 DEF Skipped, Created, Observed, Intended, Prepared, Turn, AtWork, IsPass, GoesOn
    <2>2. rpass # None /\ rpass'.req = rpass.req /\ rpass'.base = rpass.base
      BY <2>1 DEF GoesOn
    <2>3. rpass.req \in Request
      BY <2>2, BaseTyped
    <2>4. ASSUME NEW k \in Works(rpass.req), works'[k] # None, rpass'.pc # "gate",
                 mig'[rpass.req] = rpass.base, rpass'.refs[k].applied
          PROVE  works'[k].owner = rpass.req
      <3>1. mig[rpass.req] = rpass.base
        BY <1>3, <2>1, <2>4, BaseNotRestored
      <3>2. k \in Work
        BY <2>3, PlannedAt
      <3>3. works[k] # None => works[k].owner = rpass.req
        BY <1>3, <2>1, <2>2, <2>4, <3>1, <3>2, TurnOwns DEF PassRelies
      <3>4. QED
        BY <2>3, <2>4, <3>3, OwnerKept
    <2>5. ASSUME NEW k \in Works(rpass.req), works'[k] # None, rpass'.read[k] # None
          PROVE  works'[k].owner = rpass.req
      <3>1. k \in Work
        BY <2>3, PlannedAt
      <3>2. works[k] # None => works[k].owner = rpass.req
        BY <1>3, <2>2, <2>5, <3>1, TurnOwns DEF PassRelies
      <3>3. QED
        BY <2>3, <2>5, <3>2, OwnerKept
    <2>6. rpass'.pc = "gate" => rpass'.refs = rpass'.base.refs
      BY <2>1, <2>2 DEF PassRelies
    <2>7. QED
      BY <2>2, <2>4, <2>5, <2>6 DEF PassRelies
  <1>4. CASE rpass' = None
    BY <1>4 DEF PassRelies
  <1>5. QED
    BY <1>1, <1>2, <1>3, <1>4, PassMoves DEF PassMove

\* A receipt is taken of copies that the pass has read (splitPairApplied).
LEMMA ConcludedOwn ==
  ASSUME TypeOK, rpass # None, NEW k \in Work, ConcludedRefs[k].applied
  PROVE  rpass.refs[k].applied \/ rpass.read[k] # None
  <1>1. rpass \in MigrationPass
    BY DEF TypeOK, MigrationTypeOK
  <1>2. CASE k \notin PairWorks
    BY <1>1, <1>2, ConcludedFields
  <1>3. CASE k \in PairWorks
    <2>1. PICK pv : pv = PairPV(k)
      OBVIOUS
    <2>2. PairApplied(k) /\ Standalone(k)
      BY <1>1, <1>3, ConcludedFields DEF PairWorks
    <2>3. rpass.read[pv] # None /\ rpass.read[PvcOf[pv]] # None
      BY <2>1, <2>2 DEF PairApplied, SplitPairApplied
    <2>4. k = pv \/ k = PvcOf[pv]
      BY <2>1, <2>2, PairTyped DEF Standalone, PairPV
    <2>5. QED
      BY <2>3, <2>4
  <1>4. QED
    BY <1>2, <1>3

\* No request comes to rely on a Work of another, and none that is relied on changes
\* hands.
LEMMA ReliesKept ==
  ASSUME TypeOK, [Next]_vars, PassesApart, PeersOfPass, ReliesOnOwn, PassRelies
  PROVE  ReliesOnOwn'
  <1>1. SUFFICES ASSUME NEW q \in Request, mig'[q] # None, NEW k \in Works(q),
                        mig'[q].refs[k].applied, ~mig'[q].refs[k].detached, works'[k] # None
                 PROVE  works'[k].owner = q
    BY DEF ReliesOnOwn
  <1>2. k \in Work
    BY PlannedAt
  <1>3. ASSUME mig[q] # None, mig[q].refs[k].applied, ~mig[q].refs[k].detached
        PROVE  works'[k].owner = q
    <2>1. works[k] # None => works[k].owner = q
      BY <1>3 DEF ReliesOnOwn
    <2>2. ReservedNow(q)
      BY <1>2, <1>3 DEF ReservedNow, Reserved
    <2>3. QED
      BY <1>1, <2>1, <2>2, OwnerKept
  <1>4. ASSUME rpass # None, rpass.req = q, works[k] # None => works[k].owner = q
        PROVE  works'[k].owner = q
    BY <1>1, <1>4, OwnerKept
  <1>5. CASE mig'[q] = mig[q]
    BY <1>1, <1>3, <1>5
  <1>6. CASE mig'[q] = NewMigration
    BY <1>1, <1>2, <1>6 DEF NewMigration, NewRef
  <1>7. CASE GateWrite(q)
    BY <1>1, <1>3, <1>7, BaseTyped DEF GateWrite
  <1>8. CASE IntentWrite(q)
    BY <1>1, <1>4, <1>8 DEF IntentWrite, PassRelies
  <1>9. CASE ConcludeWrite(q)
    <2>1. /\ rpass # None /\ rpass.req = q /\ rpass.pc # "gate" /\ mig[q] = rpass.base
          /\ ConcludedRefs[k].applied
      BY <1>1, <1>9 DEF ConcludeWrite
    <2>2. rpass.refs[k].applied \/ rpass.read[k] # None
      BY <1>2, <2>1, ConcludedOwn
    <2>3. works[k] # None => works[k].owner = q
      BY <2>1, <2>2 DEF PassRelies
    <2>4. QED
      BY <1>4, <2>1, <2>3
  <1>10. CASE CleanupWrite(q)
    <2>1. /\ cpass # None /\ mig[q] = cpass.base /\ mig[q] # None /\ mig'[q].refs = cpass.refs
      BY <1>10, BaseTyped DEF CleanupWrite
    <2>2. RefKept(mig[q].refs[k], mig'[q].refs[k])
      BY <1>2, <2>1 DEF PassesApart
    <2>3. mig[q].refs[k].applied /\ ~mig[q].refs[k].detached
      BY <1>1, <2>2 DEF RefKept
    <2>4. QED
      BY <1>3, <2>1, <2>3
  <1>11. QED
    BY <1>1, <1>2, <1>5, <1>6, <1>7, <1>8, <1>9, <1>10, RecordMoves DEF RecordMove, Written

\* In the beginning nothing is relied on.
LEMMA ReliesInit == Init => ReliesOnOwn /\ PassRelies
  <1> SUFFICES ASSUME Init PROVE ReliesOnOwn /\ PassRelies
    OBVIOUS
  <1>1. ASSUME NEW q \in Request, mig[q] # None, NEW k \in Works(q)
        PROVE  ~mig[q].refs[k].applied
    <2>1. k \in Work
      BY PlannedAt
    <2>2. QED
      BY <1>1, <2>1 DEF Init, StoreInit, LegacyMigration, NewMigration, NewRef
  <1>2. rpass = None
    BY DEF Init, MigrationInit
  <1>3. QED
    BY <1>1, <1>2 DEF ReliesOnOwn, PassRelies

\* It holds forever.
LEMMA ReliesHolds == Spec => [](ReliesOnOwn /\ PassRelies)
  <1>1. /\ TypeOK /\ SafetyInv /\ ReceiptInv /\ ResInv /\ ReliesOnOwn /\ PassRelies /\ [Next]_vars
        => (ReliesOnOwn /\ PassRelies)'
    BY ReliesKept, PassReliesKept DEF SafetyInv, PlanInv, ReceiptInv, ResInv
  <1>2. QED
    BY <1>1, ReliesInit, TypeCorrect, SafetyHolds, ReceiptHolds, ReservationHolds, PTL DEF Spec

\* A request relies on no Work of another, however it came by its name: the record of
\* the other can have been deleted and its Works left behind, or be deleted while a pass
\* still creates them (validateWork, and the peers of validateBinding).
THEOREM OwnWorks == Spec => []ReliesOnOwn
  BY ReliesHolds, PTL
=============================================================================
