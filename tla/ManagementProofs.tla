-------------------------- MODULE ManagementProofs --------------------------
(***************************************************************************)
(* Theorems about Management, for every set of requests, Works, snapshots  *)
(* and plans, every order of UIDs and every bound.                         *)
(***************************************************************************)
EXTENDS Management, TLAPS

-----------------------------------------------------------------------------
(* Lemmas about the records and the calls.                                 *)

\* A new request is well typed (its status is empty).
LEMMA NewMigrationTyped == NewMigration \in Migration
  BY DEF NewMigration, Migration, Phase, NewRef, Ref

\* BuildWorks yields a Work as the API server stores a new one.
LEMMA NewWorkTyped ==
  ASSUME NEW q \in Request, NEW p \in Snapshot, NEW u \in Nat, NEW r \in BOOLEAN
  PROVE  NewWork(q, p, u, r) \in WorkObject
  BY DEF NewWork, WorkObject

\* A status patch writes the typed record it was given, or nothing.
LEMMA PatchTyped ==
  ASSUME NEW q \in Request, NEW base, NEW new \in Migration,
         mig \in [Request -> Migration \cup {None}],
         feed \in Seq(Request),
         PatchStatus(q, base, new)
  PROVE  /\ mig' \in [Request -> Migration \cup {None}]
         /\ feed' \in Seq(Request)
  BY DEF PatchStatus

\* The plan of a request is a non-empty sequence of Works.
LEMMA PlanTyped ==
  ASSUME NEW q \in Request
  PROVE  /\ Plan[q] \in Seq(Work)
         /\ Len(Plan[q]) \in Nat
         /\ \A i \in 1..Len(Plan[q]) : Plan[q][i] \in Work
  BY PlanAssumption

\* Every change a controller or an operator makes to a Work yields a Work.
LEMMA WorkChanges ==
  ASSUME NEW w \in WorkObject
  PROVE  /\ [w EXCEPT !.dying = TRUE] \in WorkObject
         /\ [w EXCEPT !.label = None] \in WorkObject
         /\ [w EXCEPT !.preserve = FALSE, !.gen = w.gen + 1] \in WorkObject
         /\ [w EXCEPT !.routed = TRUE, !.gen = w.gen + 1] \in WorkObject
         /\ \A g \in {0, w.gen} : [w EXCEPT !.cond = g] \in WorkObject
         /\ \A s \in Reflection : [w EXCEPT !.status = s] \in WorkObject
  <1>1. w.gen + 1 \in Nat
    BY DEF WorkObject
  <1>2. \A g \in {0, w.gen} : g \in Nat
    BY DEF WorkObject
  <1>3. [w EXCEPT !.dying = TRUE] \in WorkObject
    BY DEF WorkObject
  <1>4. [w EXCEPT !.label = None] \in WorkObject
    BY DEF WorkObject
  <1>5. [w EXCEPT !.preserve = FALSE, !.gen = w.gen + 1] \in WorkObject
    BY <1>1, Zenon DEF WorkObject
  <1>6. [w EXCEPT !.routed = TRUE, !.gen = w.gen + 1] \in WorkObject
    BY <1>1, Zenon DEF WorkObject
  <1>7. \A g \in {0, w.gen} : [w EXCEPT !.cond = g] \in WorkObject
    BY <1>2 DEF WorkObject
  <1>8. \A s \in Reflection : [w EXCEPT !.status = s] \in WorkObject
    BY DEF WorkObject
  <1>9. QED
    BY <1>3, <1>4, <1>5, <1>6, <1>7, <1>8

\* Putting a Work, or nothing, in the place of another keeps the type of the store.
LEMMA WorkReplaced ==
  ASSUME works \in [Work -> WorkObject \cup {None}],
         NEW k \in Work, NEW w \in WorkObject \cup {None},
         works' = [works EXCEPT ![k] = w]
  PROVE  works' \in [Work -> WorkObject \cup {None}]
  OBVIOUS

\* Every change of a member object yields a member object.
LEMMA MemberChanges ==
  ASSUME NEW o \in MemberObject
  PROVE  /\ \A b \in BOOLEAN : [o EXCEPT !.good = b] \in MemberObject
         /\ \A u \in Nat : [o EXCEPT !.good = TRUE, !.peer = u] \in MemberObject
         /\ \A u \in Nat : [o EXCEPT !.good = FALSE, !.uid = u] \in MemberObject
         /\ \A q \in Request : \A r \in BOOLEAN :
              [o EXCEPT !.owner = q, !.routed = r] \in MemberObject
  <1>1. \A b \in BOOLEAN : [o EXCEPT !.good = b] \in MemberObject
    BY DEF MemberObject
  <1>2. \A u \in Nat : [o EXCEPT !.good = TRUE, !.peer = u] \in MemberObject
    BY Zenon DEF MemberObject
  <1>3. \A u \in Nat : [o EXCEPT !.good = FALSE, !.uid = u] \in MemberObject
    BY Zenon DEF MemberObject
  <1>4. \A q \in Request : \A r \in BOOLEAN :
              [o EXCEPT !.owner = q, !.routed = r] \in MemberObject
    BY Zenon DEF MemberObject
  <1>5. QED
    BY <1>1, <1>2, <1>3, <1>4


\* The two budgets are respected.
LEMMA BoundsTyped ==
  ASSUME faults \in 0..MaxFaults, interrupts \in 0..MaxInterrupts,
         Disturb \/ Interrupt \/ UNCHANGED boundVars
  PROVE  faults' \in 0..MaxFaults /\ interrupts' \in 0..MaxInterrupts
  BY BoundsAssumption DEF Disturb, Interrupt, boundVars

\* The initial states are well typed.
LEMMA InitTyped == Init => TypeOK
  <1> SUFFICES ASSUME Init PROVE TypeOK
    OBVIOUS
  <1> USE DEF Init, StoreInit, MigrationInit, CleanupInit
  <1>1. mig \in [Request -> Migration \cup {None}] /\ seen = mig
    <2>1. ASSUME NEW q \in Legacy PROVE LegacyMigration(snapshot) \in Migration
      BY OrderAssumption, NewMigrationTyped DEF LegacyMigration, Migration, Phase
    <2>2. QED
      BY <2>1
  <1>2. works \in [Work -> WorkObject \cup {None}]
    <2>1. ASSUME NEW k \in Work, \E q \in Legacy : k \in Works(q)
          PROVE  NewWork(CHOOSE q \in Legacy : k \in Works(q), snapshot, 1, FALSE) \in WorkObject
      <3>1. (CHOOSE q \in Legacy : k \in Works(q)) \in Request
        BY <2>1, OrderAssumption
      <3>2. snapshot \in Snapshot
        BY <2>1
      <3>3. QED
        BY <3>1, <3>2, NewWorkTyped
    <2>2. QED
      BY <2>1
  <1>3. born \in [Request -> 0..MaxTime]
    BY BoundsAssumption
  <1>4. /\ births \in [Work -> Nat]
        /\ member \in [Work -> MemberObject \cup {None}]
        /\ minted \in [Work -> Nat]
        /\ feed \in Seq(Request)
        /\ bonds \in SUBSET (Work \X Nat \X Nat)
    OBVIOUS
  <1>5. faults \in 0..MaxFaults /\ interrupts \in 0..MaxInterrupts
    BY BoundsAssumption
  <1>6. QED
    BY <1>1, <1>2, <1>3, <1>4, <1>5 DEF TypeOK, StoreTypeOK, MigrationTypeOK, CleanupTypeOK

\* Deliveries, users, operators, Karmada and the member cluster preserve the
\* types of the store.
LEMMA SurroundingsTyped ==
  ASSUME StoreTypeOK, Surroundings
  PROVE  StoreTypeOK'
  <1> USE BoundsTyped DEF StoreTypeOK, recordVars, workVars, memberVars, gateVars
  <1>1. CASE Deliver
    <2>1. Head(feed) \in Request /\ Tail(feed) \in Seq(Request)
      BY <1>1 DEF Deliver
    <2>2. QED
      BY <1>1, <2>1 DEF Deliver
  <1>2. CASE SnapshotArrives
    BY <1>2 DEF SnapshotArrives
  <1>3. CASE SnapshotChanges
    BY <1>3 DEF SnapshotChanges
  <1>4. CASE BindingChanges
    BY <1>4 DEF BindingChanges
  <1>5. ASSUME NEW q \in Request, FileRequest(q) PROVE StoreTypeOK'
    <2>1. born' \in [Request -> 0..MaxTime]
      BY <1>5, BoundsAssumption DEF FileRequest
    <2>2. QED
      BY <1>5, <2>1, NewMigrationTyped DEF FileRequest
  <1>6. ASSUME NEW q \in Request, DeleteRequest(q) PROVE StoreTypeOK'
    BY <1>6 DEF DeleteRequest
  <1>7. ASSUME NEW k \in Work, KarmadaApply(k) PROVE StoreTypeOK'
    <2>1. works[k] \in WorkObject
      BY <1>7 DEF KarmadaApply
    <2>2. works' \in [Work -> WorkObject \cup {None}]
      <3>1. PICK g \in {0, works[k].gen} :
              works' = [works EXCEPT ![k] = [works[k] EXCEPT !.cond = g]]
        BY <1>7, Zenon DEF KarmadaApply
      <3>2. [works[k] EXCEPT !.cond = g] \in WorkObject
        BY <2>1, WorkChanges
      <3>3. QED
        BY <3>1, <3>2
    <2>3. minted' \in [Work -> Nat]
      <3>1. CASE member[k] = None
        <4>1. minted' = [minted EXCEPT ![k] = minted[k] + 1]
          BY <1>7, <3>1, Zenon DEF KarmadaApply
        <4>2. QED
          BY <4>1
      <3>2. CASE member[k] # None
        BY <1>7, <3>2, Zenon DEF KarmadaApply
      <3>3. QED
        BY <3>1, <3>2
    <2>4. member' \in [Work -> MemberObject \cup {None}]
      <3>1. CASE member[k] = None
        <4>1. NewMemberObject(k, works[k]) \in MemberObject
          BY <2>1 DEF NewMemberObject, MemberObject, WorkObject
        <4>2. QED
          BY <1>7, <3>1, <4>1 DEF KarmadaApply
      <3>2. CASE member[k] # None
        <4>1. member' = [member EXCEPT ![k] = [member[k] EXCEPT !.owner = works[k].owner,
                                                                !.routed = works[k].routed]]
          BY <1>7, <3>2, Zenon DEF KarmadaApply
        <4>2. works[k].owner \in Request /\ works[k].routed \in BOOLEAN
          BY <2>1 DEF WorkObject
        <4>3. member[k] \in MemberObject
          BY <3>2
        <4>4. [member[k] EXCEPT !.owner = works[k].owner, !.routed = works[k].routed]
                \in MemberObject
          BY <4>2, <4>3, MemberChanges, Zenon
        <4>5. QED
          BY <4>1, <4>4
      <3>3. QED
        BY <3>1, <3>2
    <2>5. QED
      BY <1>7, <2>2, <2>3, <2>4 DEF KarmadaApply
  <1>8. ASSUME NEW k \in Work, KarmadaReflect(k) PROVE StoreTypeOK'
    <2>1. works[k] \in WorkObject /\ member[k] \in MemberObject
      BY <1>8 DEF KarmadaReflect, InSync
    <2>2. ReflectionOf(member[k]) \in Reflection
      BY <2>1 DEF ReflectionOf, MemberObject, Reflection
    <2>3. [works[k] EXCEPT !.status = ReflectionOf(member[k])] \in WorkObject
      BY <2>1, <2>2, WorkChanges
    <2>4. QED
      BY <1>8, <2>3 DEF KarmadaReflect
  <1>9. ASSUME NEW k \in Work, KarmadaFinalize(k) PROVE StoreTypeOK'
    BY <1>9 DEF KarmadaFinalize
  <1>10. ASSUME NEW k \in Work, SettleTemplate(k) PROVE StoreTypeOK'
    <2>1. [member[k] EXCEPT !.good = TRUE] \in MemberObject
      BY <1>10, MemberChanges DEF SettleTemplate
    <2>2. QED
      BY <1>10, <2>1 DEF SettleTemplate
  <1>11. ASSUME NEW k \in Work, BindPair(k) PROVE StoreTypeOK'
    <2>1. PvcOf[k] \in Work
      BY <1>11, PlanAssumption DEF BindPair
    <2>2. member[k] \in MemberObject /\ member[PvcOf[k]] \in MemberObject
      BY <1>11, <2>1 DEF BindPair
    <2>3. member[k].uid \in Nat /\ member[PvcOf[k]].uid \in Nat
      BY <2>2 DEF MemberObject
    <2>4. /\ [member[k] EXCEPT !.good = TRUE, !.peer = member[PvcOf[k]].uid] \in MemberObject
          /\ [member[PvcOf[k]] EXCEPT !.good = TRUE] \in MemberObject
      BY <2>2, <2>3, MemberChanges, Zenon
    <2>5. k # PvcOf[k]
      BY <1>11, PlanAssumption DEF BindPair
    <2>6. member' = [member EXCEPT
             ![k] = [member[k] EXCEPT !.good = TRUE, !.peer = member[PvcOf[k]].uid],
             ![PvcOf[k]] = [member[PvcOf[k]] EXCEPT !.good = TRUE]]
      BY <1>11, <2>1, <2>5 DEF BindPair
    <2>7. member' \in [Work -> MemberObject \cup {None}]
      BY <2>1, <2>4, <2>6, Zenon
    <2>8. bonds' \in SUBSET (Work \X Nat \X Nat)
      BY <1>11, <2>3 DEF BindPair
    <2>9. QED
      BY <1>11, <2>7, <2>8 DEF BindPair
  <1>12. ASSUME NEW k \in Work, TemplateFault(k) PROVE StoreTypeOK'
    <2>1. [member[k] EXCEPT !.good = FALSE] \in MemberObject
      BY <1>12, MemberChanges DEF TemplateFault
    <2>2. QED
      BY <1>12, <2>1 DEF TemplateFault
  <1>13. ASSUME NEW pv \in Work, PairFault(pv) PROVE StoreTypeOK'
    <2> DEFINE pair == {pv, PvcOf[pv]}
    <2>1. pair \subseteq Work
      <3>1. pv \in DOMAIN PvcOf
        BY <1>13, Zenon DEF PairFault
      <3>2. QED
        BY <3>1, PlanAssumption
    <2>2. \A k \in pair : member[k] \in MemberObject
      BY <1>13, <2>1 DEF PairFault
    <2>3. PICK remade \in SUBSET pair \ {{}} :
            /\ member' = [k \in Work |->
                 IF k \in pair
                 THEN [member[k] EXCEPT !.good = FALSE,
                                        !.uid = IF k \in remade THEN minted[k] + 1 ELSE @]
                 ELSE member[k]]
            /\ minted' = [k \in Work |-> IF k \in remade THEN minted[k] + 1 ELSE minted[k]]
      BY <1>13, Zenon DEF PairFault
    <2>4. minted' \in [Work -> Nat]
      <3>1. minted' = [k \in Work |-> IF k \in remade THEN minted[k] + 1 ELSE minted[k]]
        BY <2>3, Zenon
      <3>2. QED
        BY <3>1
    <2>5. \A k \in pair : (IF k \in remade THEN minted[k] + 1 ELSE member[k].uid) \in Nat
      BY <2>1, <2>2 DEF MemberObject
    <2>6. \A k \in pair : [member[k] EXCEPT !.good = FALSE,
             !.uid = IF k \in remade THEN minted[k] + 1 ELSE @] \in MemberObject
      BY <2>2, <2>5, MemberChanges, Zenon
    <2>7. member' \in [Work -> MemberObject \cup {None}]
      BY <2>3, <2>6, Zenon
    <2>8. Disturb /\ UNCHANGED <<recordVars, workVars, bonds, gateVars>>
      BY <1>13 DEF PairFault
    <2>9. QED
      BY <2>4, <2>7, <2>8
  <1>14. ASSUME NEW k \in Work, EditWork(k) PROVE StoreTypeOK'
    <2>1. [works[k] EXCEPT !.preserve = FALSE, !.gen = works[k].gen + 1] \in WorkObject
      BY <1>14, WorkChanges DEF EditWork
    <2>2. works' = [works EXCEPT ![k] = [works[k] EXCEPT !.preserve = FALSE,
                                                         !.gen = works[k].gen + 1]]
      BY <1>14, Zenon DEF EditWork
    <2>3. works' \in [Work -> WorkObject \cup {None}]
      BY <2>1, <2>2
    <2>4. Disturb /\ UNCHANGED <<recordVars, births, memberVars, gateVars>>
      BY <1>14 DEF EditWork
    <2>5. QED
      BY <2>3, <2>4
  <1>15. ASSUME NEW k \in Work, RelabelWork(k) PROVE StoreTypeOK'
    <2>1. [works[k] EXCEPT !.label = None] \in WorkObject
      BY <1>15, WorkChanges DEF RelabelWork
    <2>2. QED
      BY <1>15, <2>1 DEF RelabelWork
  <1>16. ASSUME NEW k \in Work, ForeignDelete(k) PROVE StoreTypeOK'
    <2>1. [works[k] EXCEPT !.dying = TRUE] \in WorkObject
      BY <1>16, WorkChanges DEF ForeignDelete
    <2>2. QED
      BY <1>16, <2>1 DEF ForeignDelete
  <1>17. QED
    BY <1>1, <1>2, <1>3, <1>4, <1>5, <1>6, <1>7, <1>8, <1>9, <1>10, <1>11,
       <1>12, <1>13, <1>14, <1>15, <1>16 DEF Surroundings

\* While a migration pass is at a Work, that is a Work of its plan.
LEMMA AtWorkTyped ==
  ASSUME MigrationTypeOK, AtWork
  PROVE  /\ rpass \in MigrationPass
         /\ RName \in Work
         /\ RRef \in Ref
  <1>1. rpass \in MigrationPass
    BY DEF MigrationTypeOK, AtWork
  <1>2. /\ rpass.req \in Request
        /\ rpass.i \in Nat \ {0}
        /\ rpass.refs \in [Work -> Ref]
    BY <1>1 DEF MigrationPass
  <1>3. rpass.i <= Len(Plan[rpass.req])
    BY DEF AtWork
  <1>4. RName \in Work
    BY <1>2, <1>3, PlanTyped DEF RName
  <1>5. QED
    BY <1>1, <1>2, <1>4 DEF RRef

\* The same of a cleanup pass.
LEMMA AtCleanupTyped ==
  ASSUME CleanupTypeOK, AtCleanup
  PROVE  /\ cpass \in CleanupPass
         /\ CName \in Work
         /\ CRef \in Ref
  <1>1. cpass \in CleanupPass
    BY DEF CleanupTypeOK, AtCleanup
  <1>2. /\ cpass.req \in Request
        /\ cpass.i \in Nat \ {0}
        /\ cpass.refs \in [Work -> Ref]
    BY <1>1 DEF CleanupPass
  <1>3. cpass.i <= Len(Plan[cpass.req])
    BY DEF AtCleanup
  <1>4. CName \in Work
    BY <1>2, <1>3, PlanTyped DEF CName
  <1>5. QED
    BY <1>1, <1>2, <1>4 DEF CRef

\* Evidence is a truth value.
LEMMA AppliedBoolean ==
  ASSUME NEW k, NEW w
  PROVE  WorkApplied(k, w) \in BOOLEAN
  BY DEF WorkApplied, StandaloneStatus

\* Changes of a reference and of a request keep their types.
LEMMA RecordChanges ==
  /\ \A r \in Ref : \A b \in BOOLEAN : [r EXCEPT !.applied = b] \in Ref
  /\ \A r \in Ref : [r EXCEPT !.detached = TRUE] \in Ref
  /\ \A r \in Ref : \A u \in Nat : [r EXCEPT !.repairUID = u] \in Ref
  /\ \A r \in Ref : \A b \in BOOLEAN : \A u, v \in Nat :
       [r EXCEPT !.applied = b, !.pvUID = u, !.pvcUID = v] \in Ref
  /\ \A m \in Migration : \A p \in Phase : [m EXCEPT !.phase = p] \in Migration
  /\ \A m \in Migration : \A p \in Phase : \A h \in Snapshot :
       [m EXCEPT !.hash = h, !.phase = p] \in Migration
  /\ \A m \in Migration : \A f \in [Work -> Ref] : [m EXCEPT !.refs = f] \in Migration
  /\ \A m \in Migration : \A f \in [Work -> Ref] : \A p \in Phase :
       [m EXCEPT !.refs = f, !.phase = p] \in Migration
  <1>1. \A r \in Ref : \A b \in BOOLEAN : [r EXCEPT !.applied = b] \in Ref
    BY Zenon DEF Ref
  <1>2. \A r \in Ref : [r EXCEPT !.detached = TRUE] \in Ref
    BY Zenon DEF Ref
  <1>3. \A r \in Ref : \A u \in Nat : [r EXCEPT !.repairUID = u] \in Ref
    BY Zenon DEF Ref
  <1>4. \A r \in Ref : \A b \in BOOLEAN : \A u, v \in Nat :
          [r EXCEPT !.applied = b, !.pvUID = u, !.pvcUID = v] \in Ref
    BY Zenon DEF Ref
  <1>5. \A m \in Migration : \A p \in Phase : [m EXCEPT !.phase = p] \in Migration
    BY Zenon DEF Migration
  <1>6. \A m \in Migration : \A p \in Phase : \A h \in Snapshot :
          [m EXCEPT !.hash = h, !.phase = p] \in Migration
    BY Zenon DEF Migration
  <1>7. \A m \in Migration : \A f \in [Work -> Ref] : [m EXCEPT !.refs = f] \in Migration
    BY Zenon DEF Migration
  <1>8. \A m \in Migration : \A f \in [Work -> Ref] : \A p \in Phase :
          [m EXCEPT !.refs = f, !.phase = p] \in Migration
    BY Zenon DEF Migration
  <1>9. QED
    BY <1>1, <1>2, <1>3, <1>4, <1>5, <1>6, <1>7, <1>8

\* A standalone Work belongs to the pair of a PV Work.
LEMMA PairTyped ==
  ASSUME NEW k, Standalone(k)
  PROVE  /\ PairPV(k) \in DOMAIN PvcOf
         /\ PairPV(k) \in Work
         /\ PvcOf[PairPV(k)] \in Work
  <1>1. CASE k \in DOMAIN PvcOf
    BY <1>1, PlanAssumption DEF PairPV
  <1>2. CASE k \notin DOMAIN PvcOf
    <2>1. \E pv \in DOMAIN PvcOf : PvcOf[pv] = k
      BY <1>2 DEF Standalone, Range
    <2>2. PairPV(k) \in DOMAIN PvcOf
      BY <1>2, <2>1 DEF PairPV
    <2>3. QED
      BY <2>2, PlanAssumption
  <1>3. QED
    BY <1>1, <1>2

\* The receipt of a standalone Work, taken or not, is a reference.
LEMMA ReceiptTyped ==
  ASSUME rpass \in MigrationPass, NEW k \in Work, Standalone(k)
  PROVE  Receipted(k) \in Ref
  <1> DEFINE pv == PairPV(k)
             ok == PairApplied(k)
             a  == IF ok THEN rpass.read[pv].status.uid ELSE 0
             c  == IF ok THEN rpass.read[PvcOf[pv]].status.uid ELSE 0
  <1>1. rpass.refs[k] \in Ref /\ rpass.read \in [Work -> WorkObject \cup {None}]
    BY DEF MigrationPass
  <1>2. ok \in BOOLEAN
    BY DEF PairApplied, SplitPairApplied
  <1>3. ok => /\ rpass.read[pv].status \in Reflection
              /\ rpass.read[PvcOf[pv]].status \in Reflection
    <2>1. SUFFICES ASSUME ok
                   PROVE  /\ rpass.read[pv].status \in Reflection
                          /\ rpass.read[PvcOf[pv]].status \in Reflection
      OBVIOUS
    <2>2. /\ rpass.read[pv] \in WorkObject /\ rpass.read[PvcOf[pv]] \in WorkObject
          /\ WorkApplied(pv, rpass.read[pv])
          /\ WorkApplied(PvcOf[pv], rpass.read[PvcOf[pv]])
      BY <1>1, <2>1, PairTyped DEF PairApplied, SplitPairApplied
    <2>3. rpass.read[pv].status # None /\ rpass.read[PvcOf[pv]].status # None
      BY <2>2 DEF WorkApplied, StandaloneStatus
    <2>4. QED
      BY <2>2, <2>3 DEF WorkObject
  <1>4. a \in Nat /\ c \in Nat
    BY <1>2, <1>3 DEF Reflection
  <1>5. [rpass.refs[k] EXCEPT !.applied = ok, !.pvUID = a, !.pvcUID = c] \in Ref
    BY <1>1, <1>2, <1>4, RecordChanges, Zenon
  <1>6. QED
    BY <1>5, Zenon DEF Receipted

\* A step of a migration pass, its start and its failure keep the types.
LEMMA MigrationTyped ==
  ASSUME StoreTypeOK, MigrationTypeOK,
         (\E q \in Request : RStart(q)) \/ MigrationStep \/ RFail
  PROVE  StoreTypeOK' /\ MigrationTypeOK'
  <1> DEFINE Same == UNCHANGED storeVars
  <1>a. ASSUME Same PROVE StoreTypeOK'
    BY <1>a DEF StoreTypeOK, storeVars, recordVars, workVars, memberVars, gateVars, boundVars
  <1>b. ASSUME UNCHANGED <<externalToR, workVars>>,
               mig' \in [Request -> Migration \cup {None}], feed' \in Seq(Request)
        PROVE  StoreTypeOK'
    BY <1>b DEF StoreTypeOK, externalToR, workVars, memberVars, gateVars, boundVars
  <1>c. ASSUME UNCHANGED <<mig, feed, externalToR>>,
               works' \in [Work -> WorkObject \cup {None}], births' \in [Work -> Nat]
        PROVE  StoreTypeOK'
    BY <1>c DEF StoreTypeOK, externalToR, memberVars, gateVars, boundVars
  <1>d. ASSUME NEW base, NEW new \in Migration, rpass # None,
               PatchStatus(rpass.req, base, new),
               UNCHANGED <<externalToR, workVars>>, rpass' = None
        PROVE  StoreTypeOK' /\ MigrationTypeOK'
    <2>1. rpass.req \in Request
      BY <1>d DEF MigrationTypeOK, MigrationPass
    <2>2. mig' \in [Request -> Migration \cup {None}] /\ feed' \in Seq(Request)
      BY <1>d, <2>1, PatchTyped DEF StoreTypeOK
    <2>3. QED
      BY <1>b, <1>d, <2>2 DEF MigrationTypeOK
  <1>e. rpass # None => rpass \in MigrationPass /\ rpass.base \in Migration
    BY DEF MigrationTypeOK, MigrationPass
  <1>1. ASSUME NEW q \in Request, RStart(q) PROVE StoreTypeOK' /\ MigrationTypeOK'
    <2>1. seen[q] \in Migration
      BY <1>1 DEF RStart, StoreTypeOK
    <2>2. rpass' \in MigrationPass
      BY <1>1, <2>1 DEF RStart, MigrationPass, Migration
    <2>3. QED
      BY <1>1, <1>a, <2>2 DEF RStart, MigrationTypeOK
  <1>2. CASE RPend
    <2>1. [rpass.base EXCEPT !.phase = "Pending"] \in Migration
      BY <1>2, <1>e, RecordChanges DEF RPend, AtGate, Phase
    <2>2. rpass.req \in Request
      BY <1>2 DEF RPend, AtGate, MigrationTypeOK, MigrationPass
    <2>3. mig' \in [Request -> Migration \cup {None}] /\ feed' \in Seq(Request)
      BY <1>2, <2>1, <2>2, PatchTyped DEF RPend, StoreTypeOK
    <2>4. faults' \in 0..MaxFaults /\ interrupts' \in 0..MaxInterrupts
      BY <1>2, BoundsTyped DEF RPend, GateCloses, boundVars, StoreTypeOK
    <2>5. QED
      BY <1>2, <2>3, <2>4 DEF RPend, MigrationTypeOK, StoreTypeOK, memberVars, gateVars, workVars
  <1>3. CASE RRecordPlan
    <2>1. snapshot \in Snapshot
      BY <1>3 DEF RRecordPlan, PlanBuilt, StoreTypeOK
    <2>2. "Preparing" \in Phase
      BY DEF Phase
    <2>3. rpass # None
      BY <1>3, Zenon DEF RRecordPlan, AtGate
    <2>4. [rpass.base EXCEPT !.hash = snapshot, !.phase = "Preparing"] \in Migration
      BY <1>e, <2>1, <2>2, <2>3, RecordChanges, Zenon
    <2>5. /\ PatchStatus(rpass.req, rpass.base,
                         [rpass.base EXCEPT !.hash = snapshot, !.phase = "Preparing"])
          /\ UNCHANGED <<externalToR, workVars>> /\ rpass' = None
      BY <1>3, Zenon DEF RRecordPlan
    <2>6. QED
      BY <1>d, <2>3, <2>4, <2>5, Zenon
  <1>4. CASE RProceed
    <2>1. snapshot \in Snapshot /\ rpass \in MigrationPass
      BY <1>4, <1>e, Zenon DEF RProceed, PlanBuilt, StoreTypeOK, AtGate
    <2>2. rpass' = [rpass EXCEPT !.pc = "work", !.plan = snapshot] /\ Same
      BY <1>4, Zenon DEF RProceed
    <2>3. rpass' \in MigrationPass /\ rpass'.plan = snapshot
      BY <2>1, <2>2, Zenon DEF MigrationPass
    <2>4. QED
      BY <1>a, <2>1, <2>2, <2>3, Zenon DEF MigrationTypeOK
  <1>f. ASSUME AtWork
        PROVE  /\ rpass \in MigrationPass /\ RName \in Work /\ RRef \in Ref
               /\ rpass.i + 1 \in Nat \ {0} /\ rpass.plan \in Snapshot
               /\ rpass.req \in Request /\ rpass.all \in BOOLEAN
               /\ rpass.refs \in [Work -> Ref]
               /\ rpass.read \in [Work -> WorkObject \cup {None}]
    BY <1>f, AtWorkTyped DEF AtWork, MigrationTypeOK, MigrationPass
  <1>5. CASE RSkip
    <2>1. AtWork /\ rpass' = [rpass EXCEPT !.i = rpass.i + 1] /\ Same
      BY <1>5, Zenon DEF RSkip
    <2>2. rpass' \in MigrationPass /\ rpass'.plan = rpass.plan
      BY <1>f, <2>1, Zenon DEF MigrationPass
    <2>3. QED
      BY <1>a, <1>f, <2>1, <2>2, Zenon DEF MigrationTypeOK
  <1>6. CASE RCreate
    <2>1. /\ AtWork
          /\ rpass' = [rpass EXCEPT !.i = rpass.i + 1, !.all = FALSE]
          /\ UNCHANGED <<mig, feed, externalToR>>
      BY <1>6, Zenon DEF RCreate
    <2>2. rpass' \in MigrationPass /\ rpass'.plan = rpass.plan
      BY <1>f, <2>1, Zenon DEF MigrationPass
    <2>3. /\ works' = [works EXCEPT ![RName] =
                         NewWork(rpass.req, rpass.plan, births[RName] + 1, TRUE)]
          /\ births' = [births EXCEPT ![RName] = births[RName] + 1]
      BY <1>6, Zenon DEF RCreate
    <2>4. births' \in [Work -> Nat] /\ births[RName] + 1 \in Nat
      BY <1>f, <2>1, <2>3 DEF StoreTypeOK
    <2>5. works' \in [Work -> WorkObject \cup {None}]
      BY <1>f, <2>1, <2>3, <2>4, NewWorkTyped DEF StoreTypeOK
    <2>6. QED
      BY <1>c, <1>f, <2>1, <2>2, <2>4, <2>5, Zenon DEF MigrationTypeOK
  <1>7. CASE RObserve
    <2> DEFINE refs == [rpass.refs EXCEPT ![RName] = [RRef EXCEPT !.applied = WorkApplied(RName, RWork)]]
               all  == rpass.all /\ WorkApplied(RName, RWork)
               read == IF Standalone(RName) THEN [rpass.read EXCEPT ![RName] = RWork] ELSE rpass.read
    <2>1. /\ AtWork /\ Acceptable /\ Same
          /\ rpass' = [rpass EXCEPT !.i = rpass.i + 1, !.refs = refs, !.all = all, !.read = read]
      BY <1>7, Zenon DEF RObserve, RRef
    <2>2. refs \in [Work -> Ref]
      BY <1>f, <2>1, AppliedBoolean, RecordChanges
    <2>3. all \in BOOLEAN
      BY AppliedBoolean
    <2>4. read \in [Work -> WorkObject \cup {None}]
      BY <1>f, <2>1 DEF StoreTypeOK, RWork
    <2>5. rpass' \in MigrationPass /\ rpass'.plan = rpass.plan
      <3> HIDE DEF refs, all, read
      <3> QED
        BY <1>f, <2>1, <2>2, <2>3, <2>4, Zenon DEF MigrationPass
    <2>6. QED
      BY <1>a, <1>f, <2>1, <2>5, Zenon DEF MigrationTypeOK
  <1>8. CASE RRefuse
    BY <1>8, <1>a, Zenon DEF RRefuse, MigrationTypeOK
  <1>9. CASE RIntend
    <2> DEFINE refs == [rpass.refs EXCEPT ![RName] = [RRef EXCEPT !.repairUID = RWork.uid]]
    <2>1. /\ AtWork /\ NeedsRepair /\ Same
          /\ rpass' = [rpass EXCEPT !.pc = "intent", !.refs = refs]
      BY <1>9, Zenon DEF RIntend, RRef
    <2>2. RWork.uid \in Nat
      BY <1>f, <2>1 DEF NeedsRepair, RWork, StoreTypeOK, WorkObject
    <2>3. refs \in [Work -> Ref]
      BY <1>f, <2>1, <2>2, RecordChanges
    <2>4. rpass' \in MigrationPass /\ rpass'.plan = rpass.plan
      <3> HIDE DEF refs
      <3> QED
        BY <1>f, <2>1, <2>3, Zenon DEF MigrationPass
    <2>5. QED
      BY <1>a, <1>f, <2>1, <2>4, Zenon DEF MigrationTypeOK
  <1>10. CASE RRecordIntent
    <2>1. rpass # None /\ rpass.refs \in [Work -> Ref]
      BY <1>10, <1>e DEF RRecordIntent, MigrationPass
    <2>2. [rpass.base EXCEPT !.refs = rpass.refs] \in Migration
      BY <1>e, <2>1, RecordChanges
    <2>3. QED
      BY <1>10, <1>d, <2>1, <2>2, Zenon DEF RRecordIntent
  <1>11. CASE RPrepareRepair
    <2> DEFINE read == [rpass.read EXCEPT ![RName] = RWork]
    <2>1. /\ AtWork /\ Same
          /\ rpass' = [rpass EXCEPT !.pc = "repair", !.read = read]
      BY <1>11, Zenon DEF RPrepareRepair
    <2>2. read \in [Work -> WorkObject \cup {None}]
      BY <1>f, <2>1 DEF StoreTypeOK, RWork
    <2>3. rpass' \in MigrationPass /\ rpass'.plan = rpass.plan
      <3> HIDE DEF read
      <3> QED
        BY <1>f, <2>1, <2>2, Zenon DEF MigrationPass
    <2>4. QED
      BY <1>a, <1>f, <2>1, <2>3, Zenon DEF MigrationTypeOK
  <1>12. CASE RRepair
    <2>1. UNCHANGED <<mig, feed, births, externalToR>> /\ rpass' = None
      BY <1>12, Zenon DEF RRepair
    <2>2. works' \in [Work -> WorkObject \cup {None}]
      <3>1. CASE RWork = None \/ RWork # rpass.read[RName]
        <4>1. works' = works
          BY <1>12, <3>1, Zenon DEF RRepair
        <4>2. QED
          BY <4>1 DEF StoreTypeOK
      <3>2. CASE RWork # None /\ RWork = rpass.read[RName]
        <4> DEFINE repaired == [RWork EXCEPT !.routed = TRUE, !.gen = RWork.gen + 1]
        <4>1. works' = [works EXCEPT ![RName] = repaired]
          BY <1>12, <3>2, Zenon DEF RRepair
        <4>2. RName \in Work => repaired \in WorkObject
          BY <3>2, WorkChanges DEF RWork, StoreTypeOK
        <4>3. QED
          BY <4>1, <4>2 DEF StoreTypeOK
      <3>3. QED
        BY <3>1, <3>2
    <2>3. births' \in [Work -> Nat]
      BY <2>1 DEF StoreTypeOK
    <2>4. QED
      BY <1>c, <2>1, <2>2, <2>3, Zenon DEF MigrationTypeOK
  <1>13. CASE RConclude
    <2> DEFINE refs  == [k \in Work |-> IF k \in PairWorks THEN Receipted(k) ELSE rpass.refs[k]]
               ready == rpass.all /\ \A k \in PairWorks : PairApplied(k)
               phase == IF ready THEN "Ready" ELSE "Preparing"
    <2>1. /\ PatchStatus(rpass.req, rpass.base, [rpass.base EXCEPT !.refs = refs, !.phase = phase])
          /\ UNCHANGED <<externalToR, workVars>> /\ rpass' = None /\ rpass # None
      BY <1>13, Zenon DEF RConclude
    <2>2. refs \in [Work -> Ref]
      BY <1>e, <2>1, ReceiptTyped DEF PairWorks, MigrationPass
    <2>3. phase \in Phase
      BY DEF Phase
    <2>4. [rpass.base EXCEPT !.refs = refs, !.phase = phase] \in Migration
      <3> HIDE DEF refs, phase
      <3> QED
        BY <1>e, <2>1, <2>2, <2>3, RecordChanges, Zenon
    <2>5. QED
      <3> HIDE DEF refs, phase
      <3> QED
        BY <1>d, <2>1, <2>4, Zenon
  <1>14. CASE RFail
    BY <1>14, BoundsTyped DEF RFail, MigrationTypeOK, StoreTypeOK,
       recordVars, workVars, memberVars, gateVars
  <1>15. QED
    BY <1>1, <1>2, <1>3, <1>4, <1>5, <1>6, <1>7, <1>8, <1>9, <1>10, <1>11, <1>12, <1>13,
       <1>14 DEF MigrationStep

\* A step of a cleanup pass, its start and its failure keep the types.
LEMMA CleanupTyped ==
  ASSUME StoreTypeOK, CleanupTypeOK,
         (\E q \in Request : CStart(q)) \/ CleanupStep \/ CFail
  PROVE  StoreTypeOK' /\ CleanupTypeOK'
  <1> DEFINE Same == UNCHANGED storeVars
  <1>a. ASSUME Same PROVE StoreTypeOK'
    BY <1>a DEF StoreTypeOK, storeVars, recordVars, workVars, memberVars, gateVars, boundVars
  <1>b. ASSUME AtCleanup
        PROVE  /\ cpass \in CleanupPass /\ CName \in Work /\ CRef \in Ref
               /\ cpass.i + 1 \in Nat \ {0} /\ cpass.refs \in [Work -> Ref]
    BY <1>b, AtCleanupTyped DEF CleanupPass
  <1>c. cpass # None => /\ cpass \in CleanupPass /\ cpass.i + 1 \in Nat \ {0}
                        /\ cpass.base \in Migration /\ cpass.req \in Request
                        /\ cpass.refs \in [Work -> Ref]
    BY DEF CleanupTypeOK, CleanupPass
  <1>1. ASSUME NEW q \in Request, CStart(q) PROVE StoreTypeOK' /\ CleanupTypeOK'
    <2>1. seen[q] \in Migration
      BY <1>1 DEF CStart, StoreTypeOK
    <2>2. cpass' \in CleanupPass
      BY <1>1, <2>1 DEF CStart, CleanupPass, Migration
    <2>3. QED
      BY <1>1, <1>a, <2>2 DEF CStart, CleanupTypeOK
  <1>2. CASE CSkip
    <2>1. AtCleanup /\ cpass' = [cpass EXCEPT !.i = cpass.i + 1] /\ Same
      BY <1>2, Zenon DEF CSkip
    <2>2. cpass' \in CleanupPass
      BY <1>b, <2>1, Zenon DEF CleanupPass
    <2>3. QED
      BY <1>a, <2>1, <2>2, Zenon DEF CleanupTypeOK
  <1>3. CASE CDetach
    <2> DEFINE refs == [cpass.refs EXCEPT ![CName] = [CRef EXCEPT !.detached = TRUE]]
    <2>1. AtCleanup /\ cpass' = [cpass EXCEPT !.i = cpass.i + 1, !.refs = refs] /\ Same
      BY <1>3, Zenon DEF CDetach
    <2>2. refs \in [Work -> Ref]
      BY <1>b, <2>1, RecordChanges
    <2>3. cpass' \in CleanupPass
      <3> HIDE DEF refs
      <3> QED
        BY <1>b, <2>1, <2>2, Zenon DEF CleanupPass
    <2>4. QED
      BY <1>a, <2>1, <2>3, Zenon DEF CleanupTypeOK
  <1>4. CASE CAwait
    <2>1. AtCleanup /\ cpass' = [cpass EXCEPT !.i = cpass.i + 1, !.all = FALSE] /\ Same
      BY <1>4, Zenon DEF CAwait
    <2>2. cpass' \in CleanupPass
      BY <1>b, <2>1, Zenon DEF CleanupPass
    <2>3. QED
      BY <1>a, <2>1, <2>2, Zenon DEF CleanupTypeOK
  <1>5. CASE CApprove
    <2>1. /\ AtCleanup /\ CWork # None /\ Same
          /\ cpass' = [cpass EXCEPT !.pc = "delete", !.read = CWork, !.all = FALSE]
      BY <1>5, Zenon DEF CApprove
    <2>2. CWork \in WorkObject
      BY <1>b, <2>1 DEF CWork, StoreTypeOK
    <2>3. cpass' \in CleanupPass
      BY <1>b, <2>1, <2>2, Zenon DEF CleanupPass
    <2>4. QED
      BY <1>a, <2>1, <2>3, Zenon DEF CleanupTypeOK
  <1>6. CASE CRefuse
    BY <1>6, <1>a, Zenon DEF CRefuse, CleanupTypeOK
  <1>7. CASE CDelete
    <2>1. cpass # None /\ UNCHANGED <<mig, feed, externalToC>>
      BY <1>7, Zenon DEF CDelete
    <2>2. cpass' \in CleanupPass \cup {None}
      <3>1. \/ cpass' = None
            \/ cpass' = [cpass EXCEPT !.pc = "work", !.i = cpass.i + 1, !.read = None]
        BY <1>7, Zenon DEF CDelete
      <3>2. QED
        BY <1>c, <2>1, <3>1, Zenon DEF CleanupPass
    <2>3. works' \in [Work -> WorkObject \cup {None}]
      <3>1. CASE works' = works
        BY <3>1 DEF StoreTypeOK
      <3>2. CASE works' # works
        <4> DEFINE deleted == [CWork EXCEPT !.dying = TRUE]
        <4>1. CWork # None /\ works' = [works EXCEPT ![CName] = deleted]
          BY <1>7, <3>2, Zenon DEF CDelete
        <4>2. CName \in Work => deleted \in WorkObject
          BY <4>1, WorkChanges DEF CWork, StoreTypeOK
        <4>3. QED
          BY <4>1, <4>2 DEF StoreTypeOK
      <3>3. QED
        BY <3>1, <3>2
    <2>4. StoreTypeOK'
      BY <2>1, <2>3 DEF StoreTypeOK, externalToC, memberVars, gateVars, boundVars
    <2>5. QED
      BY <2>2, <2>4 DEF CleanupTypeOK
  <1>8. CASE CConclude
    <2> DEFINE phase == IF cpass.all THEN "Completed" ELSE cpass.base.phase
    <2>1. /\ cpass # None /\ cpass' = None /\ UNCHANGED <<works, externalToC>>
          /\ PatchStatus(cpass.req, cpass.base,
                         [cpass.base EXCEPT !.refs = cpass.refs, !.phase = phase])
      BY <1>8, Zenon DEF CConclude
    <2>2. phase \in Phase
      BY <1>c, <2>1 DEF Phase, Migration
    <2>3. [cpass.base EXCEPT !.refs = cpass.refs, !.phase = phase] \in Migration
      <3> HIDE DEF phase
      <3> QED
        BY <1>c, <2>1, <2>2, RecordChanges, Zenon
    <2>4. mig' \in [Request -> Migration \cup {None}] /\ feed' \in Seq(Request)
      <3> HIDE DEF phase
      <3> QED
        BY <1>c, <2>1, <2>3, PatchTyped DEF StoreTypeOK
    <2>5. StoreTypeOK'
      BY <2>1, <2>4 DEF StoreTypeOK, externalToC, memberVars, gateVars, boundVars
    <2>6. QED
      BY <2>1, <2>5 DEF CleanupTypeOK
  <1>9. CASE CFail
    BY <1>9, BoundsTyped DEF CFail, CleanupTypeOK, StoreTypeOK,
       recordVars, workVars, memberVars, gateVars
  <1>10. QED
    BY <1>1, <1>2, <1>3, <1>4, <1>5, <1>6, <1>7, <1>8, <1>9 DEF CleanupStep

\* Every step keeps the types.
LEMMA NextTyped == TypeOK /\ [Next]_vars => TypeOK'
  <1> SUFFICES ASSUME TypeOK, [Next]_vars PROVE TypeOK'
    OBVIOUS
  <1> USE DEF TypeOK
  <1>1. CASE Migrate
    BY <1>1, MigrationTyped DEF Migrate, CleanupTypeOK
  <1>2. CASE Cleanup
    BY <1>2, CleanupTyped DEF Cleanup, MigrationTypeOK
  <1>3. CASE Surroundings
    <2>1. StoreTypeOK'
      BY <1>3, SurroundingsTyped
    <2>2. UNCHANGED <<rpass, cpass>>
      BY <1>3, Zenon DEF Surroundings
    <2>3. QED
      BY <2>1, <2>2 DEF MigrationTypeOK, CleanupTypeOK
  <1>4. CASE Crash
    BY <1>4, BoundsTyped DEF Crash, StoreTypeOK, MigrationTypeOK, CleanupTypeOK,
       workVars, memberVars, gateVars
  <1>5. CASE UNCHANGED vars
    BY <1>5 DEF vars, storeVars, recordVars, workVars, memberVars, gateVars, boundVars,
       StoreTypeOK, MigrationTypeOK, CleanupTypeOK
  <1>6. QED
    BY <1>1, <1>2, <1>3, <1>4, <1>5 DEF Next

\* Type correctness: the records, the cache, the Works and both passes keep
\* their shape; in particular a pass that works through a plan has built one,
\* and stays within it.
THEOREM TypeCorrect == Spec => []TypeOK
  BY InitTyped, NextTyped, PTL DEF Spec
=============================================================================
