-------------------------- MODULE SnapshotProofs --------------------------
(***************************************************************************)
(* Theorems about SnapshotPipeline, for all templates, claims, volumes,    *)
(* scales and widths, and any number of changes of the source, losses and  *)
(* failures.                                                               *)
(***************************************************************************)
EXTENDS SnapshotPipeline, WellFoundedInduction, TLAPS

-----------------------------------------------------------------------------
(* The inductive invariant.                                                *)

\* A collection is numbered by its place, and says of which StatefulSet it is.
CollectedInv ==
    \A i \in DOMAIN collected :
        collected[i].obs.at = i /\ collected[i].obs.workload = collected[i].of.uid

\* It was published as it stands.
Published(obs) == \E i \in DOMAIN collected : collected[i].obs = obs

\* A status is ready only with a collection.
Filled(status) == status.ready => status.obs # None

\* The member's copy has the last collection or none; what is further down the
\* pipeline is one that was published, and never ahead of what is up.
CarryInv ==
    /\ copy # None =>
         /\ Filled(copy.status)
         /\ copy.status.obs # None =>
              Published(copy.status.obs) /\ copy.status.obs.at = Len(collected)
    /\ item # None => Filled(item) /\ (item.obs # None => Published(item.obs))
    /\ record # None => Filled(record) /\ (record.obs # None => Published(record.obs))
    /\ item # None /\ item.obs # None /\ Usable => record.obs.at <= item.obs.at

\* Who is bound now was bound once.
BondInv == \A v \in Volume : pv[v].claim # None => <<pv[v].claim, pv[v].uid, v, pv[v].inc>> \in bonds

\* Claims and volumes that were bound to each other.
Bonded(volumes) ==
    \A c \in Claims :
        volumes[c] # None =>
            <<c, volumes[c].uid, volumes[c].volume, volumes[c].inc>> \in bonds

\* What a collection under way has in hand.
PassInv ==
    kpass # None =>
        /\ Bonded(kpass.got)
        /\ kpass.pc \in {"claim", "volume"} => kpass.of \in StatefulSet
        /\ kpass.pc = "volume" =>
             kpass.todo # {} /\ kpass.claim \in [uid : Nat, volume : Volume]

SInv == TypeOK /\ CollectedInv /\ CarryInv /\ BondInv /\ PassInv /\ VolumesWereBound

-----------------------------------------------------------------------------
(* Claims and collections.                                                 *)

\* A set of numbers has a least one.
LEMMA LeastNumber ==
  ASSUME NEW T \in SUBSET Nat, T # {}
  PROVE  \E i \in T : \A j \in T : i <= j
  <1> DEFINE R == OpToRel(<, Nat)
  <1>1. PICK i \in T : \A j \in T : <<j, i>> \notin R
    BY NatLessThanWellFounded, WFMin, Zenon
  <1>2. \A j \in T : ~(j < i)
    BY <1>1 DEF OpToRel
  <1>3. QED
    BY <1>2

\* The claim read next is one of those that are left.
LEMMA NameLeft ==
  ASSUME kpass.todo \in SUBSET Claims, kpass.todo # {}
  PROVE  CName \in kpass.todo
  <1> DEFINE Left(i) == i \in DOMAIN Order /\ Order[i] \in kpass.todo
             S == {i \in Nat : Left(i)}
  <1>1. Order \in Seq(Claim)
    BY PipelineAssumption
  <1>2. DOMAIN Order = 1..Len(Order) /\ Len(Order) \in Nat
    BY <1>1
  <1>3. S # {}
    <2>1. PICK c : c \in kpass.todo
      OBVIOUS
    <2>2. PICK i \in DOMAIN Order : Order[i] = c
      BY <2>1, Zenon DEF Claims, Range
    <2>3. QED
      BY <1>2, <2>1, <2>2
  <1>4. PICK i \in S : \A j \in S : i <= j
    BY <1>3, LeastNumber
  <1>5. \A j \in 1..(i - 1) : Order[j] \notin kpass.todo
    BY <1>2, <1>4
  <1>6. i \in DOMAIN Order /\ Order[i] \in kpass.todo
    BY <1>4
  <1>7. QED
    BY <1>5, <1>6, Zenon DEF CName

\* The last collection, and its number.
LEMMA CollectionNumbers ==
  ASSUME TypeOK
  PROVE  /\ Len(collected) \in Nat
         /\ DOMAIN collected = 1..Len(collected)
         /\ \A i \in DOMAIN collected :
              collected[i].of \in StatefulSet /\ collected[i].obs \in Observation
         /\ collected # <<>> =>
              Len(collected) \in DOMAIN collected /\ Last(collected) = collected[Len(collected)]
  <1>1. collected \in Seq(Collection)
    BY DEF TypeOK
  <1>2. Len(collected) \in Nat /\ DOMAIN collected = 1..Len(collected)
    BY <1>1
  <1>3. ASSUME NEW i \in DOMAIN collected
        PROVE  collected[i].of \in StatefulSet /\ collected[i].obs \in Observation
    <2>1. collected[i] \in Collection
      BY <1>1, <1>2
    <2>2. QED
      BY <2>1 DEF Collection
  <1>4. collected # <<>> => Len(collected) # 0
    BY <1>1
  <1>5. Last(collected) = collected[Len(collected)]
    BY Zenon DEF Last
  <1>6. QED
    BY <1>2, <1>3, <1>4, <1>5

\* What was published has a number among those of the collections.
LEMMA PublishedNumber ==
  ASSUME TypeOK, CollectedInv, NEW obs, Published(obs)
  PROVE  obs \in Observation /\ obs.at \in 1..Len(collected) /\ obs # None
  <1>1. PICK i \in DOMAIN collected : collected[i].obs = obs
    BY DEF Published
  <1>2. obs \in Observation /\ obs.at = i /\ i \in 1..Len(collected)
    BY <1>1, CollectionNumbers DEF CollectedInv
  <1>3. QED
    BY <1>2, NoneIsNoRecord

-----------------------------------------------------------------------------
(* The steps.                                                              *)

\* The invariant holds at the start.
LEMMA SnapshotInit == Init => SInv
  <1> SUFFICES ASSUME Init
               PROVE  SInv
    OBVIOUS
  <1>1. PICK f \in [Claims -> Volume] :
          /\ IsInjective(f)
          /\ pvc = [c \in Claims |-> IF c \in Generated(sts) \cup Explicit
                                     THEN [uid |-> 1, volume |-> f[c]] ELSE None]
          /\ pv = [v \in Volume |->
                     IF \E c \in Claims : f[c] = v /\ pvc[c] # None
                     THEN [inc |-> 1, claim |-> CHOOSE c \in Claims : f[c] = v, uid |-> 1]
                     ELSE [inc |-> 1, claim |-> None, uid |-> 0]]
          /\ bonds = {<<c, 1, f[c], 1>> : c \in {x \in Claims : pvc[x] # None}}
    BY DEF Init
  <1>2. sts \in StatefulSet
    BY PipelineAssumption DEF Init, StatefulSet
  <1>3. pvc \in [Claims -> BoundClaim \cup {None}]
    BY <1>1 DEF BoundClaim
  <1>4. ASSUME NEW v \in Volume, NEW c \in Claims, f[c] = v
        PROVE  (CHOOSE x \in Claims : f[x] = v) = c
    BY <1>1, <1>4 DEF IsInjective
  <1>5. ASSUME NEW v \in Volume
        PROVE  /\ pv[v] \in BoundVolume
               /\ pv[v].claim # None => <<pv[v].claim, pv[v].uid, v, pv[v].inc>> \in bonds
    <2>1. CASE \E c \in Claims : f[c] = v /\ pvc[c] # None
      <3>1. PICK c \in Claims : f[c] = v /\ pvc[c] # None
        BY <2>1
      <3>2. pv[v] = [inc |-> 1, claim |-> c, uid |-> 1]
        BY <1>1, <1>4, <2>1, <3>1
      <3>3. <<c, 1, v, 1>> \in bonds
        BY <1>1, <3>1
      <3>4. QED
        BY <3>2, <3>3 DEF BoundVolume
    <2>2. CASE ~\E c \in Claims : f[c] = v /\ pvc[c] # None
      <3>1. pv[v] = [inc |-> 1, claim |-> None, uid |-> 0]
        BY <1>1, <2>2
      <3>2. QED
        BY <3>1 DEF BoundVolume
    <2>3. QED
      BY <2>1, <2>2
  <1>6. pv \in [Volume -> BoundVolume]
    <2>1. pv = [v \in Volume |-> pv[v]]
      BY <1>1, Zenon
    <2>2. QED
      BY <1>5, <2>1
  <1>7. BondInv
    BY <1>5 DEF BondInv
  <1>8. copy \in Copy /\ copy.status = EmptyStatus
    BY DEF Init, Copy, Status, EmptyStatus
  <1>9. TypeOK
    <2>1. collected = <<>> /\ collected \in Seq(Collection)
      BY DEF Init
    <2>2. faults \in 0..MaxFaults /\ interrupts \in 0..MaxInterrupts
      BY PipelineAssumption DEF Init
    <2>3. item = None /\ record = None /\ kpass = None
      BY DEF Init
    <2>4. QED
      BY <1>2, <1>3, <1>6, <1>8, <2>1, <2>2, <2>3 DEF TypeOK
  <1>10. CollectedInv /\ VolumesWereBound /\ PassInv
    BY DEF Init, CollectedInv, VolumesWereBound, PassInv
  <1>11. CarryInv
    BY <1>8 DEF Init, CarryInv, EmptyStatus, Filled, Usable
  <1>12. QED
    BY <1>7, <1>9, <1>10, <1>11 DEF SInv

\* A step that leaves the collections and the statuses, and only adds bonds.
LEMMA PlainStep ==
  ASSUME SInv, TypeOK', UNCHANGED <<copy, item, record, collected>>,
         bonds \subseteq bonds', BondInv', PassInv'
  PROVE  SInv'
  <1>1. CollectedInv' /\ CarryInv'
    BY DEF SInv, CollectedInv, CarryInv, Published, Usable
  <1>2. VolumesWereBound'
    BY Zenon DEF SInv, VolumesWereBound
  <1>3. QED
    BY <1>1, <1>2 DEF SInv

\* What was read stays read when bonds are only added.
LEMMA PassStays ==
  ASSUME PassInv, kpass' \in {kpass, None}, bonds \subseteq bonds'
  PROVE  PassInv'
  BY DEF PassInv, Bonded

\* The bounds are kept.
LEMMA Bounds ==
  ASSUME TypeOK
  PROVE  /\ faults \in Nat /\ interrupts \in Nat
         /\ faults < MaxFaults => faults + 1 \in 0..MaxFaults
         /\ interrupts < MaxInterrupts => interrupts + 1 \in 0..MaxInterrupts
  <1>1. faults \in 0..MaxFaults /\ interrupts \in 0..MaxInterrupts
    BY DEF TypeOK
  <1>2. QED
    BY <1>1, PipelineAssumption

\* A change of the source keeps its types, and binds nobody unrecorded.
LEMMA SourceChange ==
  ASSUME SInv,
         \/ Scale \/ RemakeSet
         \/ \E c \in Claims : RemakeClaim(c) \/ CreateClaim(c) \/ \E v \in Volume : BindClaim(c, v)
         \/ \E v \in Volume : RemakeVolume(v)
  PROVE  /\ sts' \in StatefulSet
         /\ pvc' \in [Claims -> BoundClaim \cup {None}]
         /\ pv' \in [Volume -> BoundVolume]
         /\ bonds \subseteq bonds' /\ BondInv'
         /\ UNCHANGED <<copy, item, record>>
  <1>1. sts \in StatefulSet /\ pvc \in [Claims -> BoundClaim \cup {None}]
        /\ pv \in [Volume -> BoundVolume] /\ BondInv
    BY DEF SInv, TypeOK
  <1>2. CASE Scale
    <2>1. sts' \in StatefulSet
      BY <1>1, <1>2, PipelineAssumption DEF Scale, StatefulSet
    <2>2. UNCHANGED <<pvc, pv, bonds, item, record, copy>>
      BY <1>2 DEF Scale, carryVars
    <2>3. QED
      BY <1>1, <2>1, <2>2 DEF BondInv
  <1>3. CASE RemakeSet
    <2>1. UNCHANGED <<pvc, pv, bonds, item, record, copy>>
      BY <1>3 DEF RemakeSet, carryVars
    <2>2. sts' = [uid |-> sts.uid + 1, start |-> sts.start, replicas |-> sts.replicas]
      BY <1>1, <1>3, Zenon DEF RemakeSet, StatefulSet
    <2>3. sts.uid + 1 \in Nat
      BY <1>1 DEF StatefulSet
    <2>4. sts' \in StatefulSet
      BY <1>1, <2>2, <2>3 DEF StatefulSet
    <2>5. QED
      BY <1>1, <2>1, <2>4 DEF BondInv
  <1>4. ASSUME NEW c \in Claims, CreateClaim(c)
        PROVE  pvc' \in [Claims -> BoundClaim \cup {None}]
               /\ UNCHANGED <<sts, pv, bonds, item, record, copy>>
    <2>1. [uid |-> 1, volume |-> None] \in BoundClaim
      BY DEF BoundClaim
    <2>2. QED
      BY <1>1, <1>4, <2>1 DEF CreateClaim, carryVars
  <1>5. ASSUME NEW c \in Claims, RemakeClaim(c)
        PROVE  /\ pvc' \in [Claims -> BoundClaim \cup {None}] /\ pv' \in [Volume -> BoundVolume]
               /\ BondInv' /\ UNCHANGED <<sts, bonds, item, record, copy>>
    <2>1. UNCHANGED <<sts, bonds, item, record, copy>>
      BY <1>5 DEF RemakeClaim, carryVars
    <2>2. pvc[c] \in BoundClaim
      BY <1>1, <1>5 DEF RemakeClaim
    <2>3. [uid |-> pvc[c].uid + 1, volume |-> None] \in BoundClaim
      BY <2>2 DEF BoundClaim
    <2>4. pvc' = [pvc EXCEPT ![c] = [uid |-> pvc[c].uid + 1, volume |-> None]]
      BY <1>5, Zenon DEF RemakeClaim
    <2>5. pvc' \in [Claims -> BoundClaim \cup {None}]
      BY <1>1, <2>3, <2>4
    <2>6. pv' = [v \in Volume |-> IF pv[v].claim = c
                                 THEN [inc |-> pv[v].inc, claim |-> None, uid |-> 0] ELSE pv[v]]
      BY <1>5 DEF RemakeClaim
    <2>7. \A v \in Volume : [inc |-> pv[v].inc, claim |-> None, uid |-> 0] \in BoundVolume
      BY <1>1 DEF BoundVolume
    <2>8. pv' \in [Volume -> BoundVolume]
      BY <1>1, <2>6, <2>7
    <2>9. BondInv'
      BY <1>1, <2>1, <2>6 DEF BondInv
    <2>10. QED
      BY <2>1, <2>5, <2>8, <2>9
  <1>6. ASSUME NEW v \in Volume, RemakeVolume(v)
        PROVE  /\ pv' \in [Volume -> BoundVolume] /\ BondInv'
               /\ UNCHANGED <<sts, pvc, bonds, item, record, copy>>
    <2>1. UNCHANGED <<sts, pvc, bonds, item, record, copy>>
      BY <1>6 DEF RemakeVolume, carryVars
    <2>2. pv' = [pv EXCEPT ![v] = [inc |-> pv[v].inc + 1, claim |-> None, uid |-> 0]]
      BY <1>6, Zenon DEF RemakeVolume
    <2>3. [inc |-> pv[v].inc + 1, claim |-> None, uid |-> 0] \in BoundVolume
      BY <1>1 DEF BoundVolume
    <2>4. QED
      BY <1>1, <2>1, <2>2, <2>3 DEF BondInv
  <1>7. ASSUME NEW c \in Claims, NEW v \in Volume, BindClaim(c, v)
        PROVE  /\ pvc' \in [Claims -> BoundClaim \cup {None}] /\ pv' \in [Volume -> BoundVolume]
               /\ bonds \subseteq bonds' /\ BondInv' /\ UNCHANGED <<sts, item, record, copy>>
    <2>1. UNCHANGED <<sts, item, record, copy>>
      BY <1>7 DEF BindClaim, carryVars
    <2>2. pvc[c] \in BoundClaim
      BY <1>1, <1>7 DEF BindClaim
    <2>3. pvc' = [pvc EXCEPT ![c] = [uid |-> pvc[c].uid, volume |-> v]]
      BY <1>7, Zenon DEF BindClaim
    <2>4. [uid |-> pvc[c].uid, volume |-> v] \in BoundClaim
      BY <2>2 DEF BoundClaim
    <2>5. pvc' \in [Claims -> BoundClaim \cup {None}]
      BY <1>1, <2>3, <2>4
    <2>6. pv' = [pv EXCEPT ![v] = [inc |-> pv[v].inc, claim |-> c, uid |-> pvc[c].uid]]
      BY <1>7, Zenon DEF BindClaim
    <2>7. [inc |-> pv[v].inc, claim |-> c, uid |-> pvc[c].uid] \in BoundVolume
      BY <1>1, <2>2 DEF BoundVolume, BoundClaim
    <2>8. pv' \in [Volume -> BoundVolume]
      BY <1>1, <2>6, <2>7
    <2>9. bonds' = bonds \cup {<<c, pvc[c].uid, v, pv[v].inc>>}
      BY <1>7 DEF BindClaim
    <2>10. BondInv'
      BY <1>1, <2>6, <2>9 DEF BondInv
    <2>11. QED
      BY <2>1, <2>5, <2>8, <2>9, <2>10
  <1>8. QED
    BY <1>1, <1>2, <1>3, <1>4, <1>5, <1>6, <1>7 DEF BondInv

\* A change of the source keeps the invariant.
LEMMA SourceKeeps ==
  ASSUME SInv, faults' \in 0..MaxFaults, UNCHANGED <<kpass, collected, interrupts>>,
         \/ Scale \/ RemakeSet
         \/ \E c \in Claims : RemakeClaim(c) \/ CreateClaim(c) \/ \E v \in Volume : BindClaim(c, v)
         \/ \E v \in Volume : RemakeVolume(v)
  PROVE  SInv'
  <1>1. /\ sts' \in StatefulSet /\ pvc' \in [Claims -> BoundClaim \cup {None}]
        /\ pv' \in [Volume -> BoundVolume] /\ bonds \subseteq bonds' /\ BondInv'
        /\ UNCHANGED <<copy, item, record>>
    BY SourceChange
  <1>2. TypeOK'
    BY <1>1 DEF SInv, TypeOK
  <1>3. PassInv'
    BY <1>1, PassStays DEF SInv
  <1>4. QED
    BY <1>1, <1>2, <1>3, PlainStep

\* The reads of the collector.
LEMMA ReadsKeep ==
  ASSUME SInv, KStart \/ KReadSet \/ KReadClaim \/ KReadVolume,
         UNCHANGED <<copy, collected, sourceVars, carryVars, boundVars>>
  PROVE  SInv'
  <1>1. UNCHANGED <<copy, collected, sts, pvc, pv, bonds, item, record, faults, interrupts>>
    BY DEF sourceVars, carryVars, boundVars
  <1>2. kpass # None => kpass \in CollectorPass
    BY DEF SInv, TypeOK
  <1>3. SUFFICES kpass' \in CollectorPass /\ PassInv'
    <2>1. TypeOK'
      BY <1>1, <1>3 DEF SInv, TypeOK
    <2>2. BondInv' /\ bonds \subseteq bonds'
      BY <1>1 DEF SInv, BondInv
    <2>3. QED
      BY <1>1, <1>3, <2>1, <2>2, PlainStep
  <1>4. CASE KStart
    <2>1. kpass' = [pc |-> "set", base |-> copy, of |-> None, todo |-> {},
                    claim |-> None, got |-> NoVolumes] /\ copy \in Copy
      BY <1>4 DEF KStart, SInv, TypeOK
    <2>2. NoVolumes \in Volumes /\ \A c \in Claims : NoVolumes[c] = None
      BY DEF NoVolumes, Volumes
    <2>3. kpass' \in CollectorPass
      BY <2>1, <2>2 DEF CollectorPass
    <2>4. QED
      BY <2>1, <2>2, <2>3 DEF PassInv, Bonded
  <1>5. CASE KReadSet
    <2>1. kpass # None /\ kpass.pc = "set" /\ kpass \in CollectorPass /\ Bonded(kpass.got)
      BY <1>2, <1>5 DEF KReadSet, At, SInv, PassInv
    <2>2. \/ kpass' = [pc |-> "report", base |-> kpass.base, of |-> kpass.of, todo |-> kpass.todo,
                       claim |-> kpass.claim, got |-> kpass.got]
          \/ kpass' = [pc |-> "claim", base |-> kpass.base, of |-> sts,
                       todo |-> Claims \cap CollectedClaims(sts),
                       claim |-> kpass.claim, got |-> kpass.got]
      BY <1>5, <2>1, Zenon DEF KReadSet, CollectorPass
    <2>3. sts \in StatefulSet
      BY DEF SInv, TypeOK
    <2>4. kpass' \in CollectorPass
      BY <2>1, <2>2, <2>3 DEF CollectorPass
    <2>5. QED
      BY <1>1, <2>1, <2>2, <2>3, <2>4 DEF PassInv, Bonded
  <1>6. CASE KReadClaim
    <2>1. kpass # None /\ kpass.pc = "claim" /\ kpass.todo # {} /\ kpass \in CollectorPass
          /\ Bonded(kpass.got) /\ kpass.of \in StatefulSet
      BY <1>2, <1>6 DEF KReadClaim, At, SInv, PassInv
    <2>2. CName \in Claims
      BY <2>1, NameLeft DEF CollectorPass
    <2>3. CASE pvc[CName] = None \/ pvc[CName].volume = None
      <3>1. kpass' = [pc |-> "report", base |-> kpass.base, of |-> kpass.of, todo |-> kpass.todo,
                      claim |-> kpass.claim, got |-> kpass.got]
        BY <1>6, <2>1, <2>3, Zenon DEF KReadClaim, CollectorPass
      <3>2. kpass' \in CollectorPass
        BY <2>1, <3>1 DEF CollectorPass
      <3>3. QED
        BY <1>1, <2>1, <3>1, <3>2 DEF PassInv, Bonded
    <2>4. CASE ~(pvc[CName] = None \/ pvc[CName].volume = None)
      <3>1. kpass' = [pc |-> "volume", base |-> kpass.base, of |-> kpass.of, todo |-> kpass.todo,
                      claim |-> pvc[CName], got |-> kpass.got]
        BY <1>6, <2>1, <2>4, Zenon DEF KReadClaim, CollectorPass
      <3>2. pvc[CName] \in BoundClaim
        BY <2>2, <2>4 DEF SInv, TypeOK
      <3>3. pvc[CName] \in [uid : Nat, volume : Volume]
        BY <2>4, <3>2 DEF BoundClaim
      <3>4. kpass' \in CollectorPass
        BY <2>1, <3>1, <3>3 DEF CollectorPass
      <3>5. QED
        BY <1>1, <2>1, <3>1, <3>3, <3>4 DEF PassInv, Bonded
    <2>5. QED
      BY <2>3, <2>4
  <1>7. CASE KReadVolume
    <2> DEFINE n == CName
               v == kpass.claim.volume
               e == [uid |-> kpass.claim.uid, volume |-> v, inc |-> pv[v].inc,
                     standalone |-> CName \in StandaloneClaims(kpass.of)]
               got == [kpass.got EXCEPT ![n] = e]
    <2>1. kpass # None /\ kpass.pc = "volume" /\ kpass.todo # {} /\ kpass \in CollectorPass
          /\ Bonded(kpass.got) /\ kpass.of \in StatefulSet
          /\ kpass.claim \in [uid : Nat, volume : Volume]
      BY <1>2, <1>7 DEF KReadVolume, At, SInv, PassInv
    <2>2. n \in Claims
      BY <2>1, NameLeft DEF CollectorPass
    <2>3. v \in Volume /\ kpass.claim.uid \in Nat
      BY <2>1
    <2>4. pv[v] \in BoundVolume
      BY <2>3 DEF SInv, TypeOK
    <2>5. CASE ~RefersTo(v, CName, kpass.claim.uid)
      <3>1. kpass' = [pc |-> "report", base |-> kpass.base, of |-> kpass.of, todo |-> kpass.todo,
                      claim |-> kpass.claim, got |-> kpass.got]
        BY <1>7, <2>1, <2>5, Zenon DEF KReadVolume, CollectorPass
      <3>2. kpass' \in CollectorPass
        BY <2>1, <3>1 DEF CollectorPass
      <3>3. QED
        BY <1>1, <2>1, <3>1, <3>2 DEF PassInv, Bonded
    <2>6. CASE RefersTo(v, CName, kpass.claim.uid)
      <3>1. kpass' = [pc |-> "claim", base |-> kpass.base, of |-> kpass.of,
                      todo |-> kpass.todo \ {CName}, claim |-> None, got |-> got]
        BY <1>7, <2>1, <2>6, Zenon DEF KReadVolume, CollectorPass
      <3>2. pv[v].claim = n /\ pv[v].uid = kpass.claim.uid
        BY <2>6 DEF RefersTo
      <3>3. n # None
        BY <2>2, PipelineAssumption DEF Claims, Range
      <3>4. <<n, kpass.claim.uid, v, pv[v].inc>> \in bonds
        BY <2>3, <3>2, <3>3, Zenon DEF SInv, BondInv
      <3>5. e \in Entry /\ e.uid = kpass.claim.uid /\ e.volume = v /\ e.inc = pv[v].inc
        BY <2>3, <2>4 DEF Entry, BoundVolume
      <3>6. kpass.got \in [Claims -> Entry \cup {None}]
        BY <2>1 DEF CollectorPass, Volumes
      <3> HIDE DEF n, v, e
      <3>7. got \in Volumes
        BY <3>5, <3>6 DEF Volumes
      <3>8. Bonded(got)
        BY <2>1, <2>2, <3>4, <3>5, <3>6 DEF Bonded
      <3> HIDE DEF got
      <3>9. kpass' \in CollectorPass
        BY <2>1, <3>1, <3>7 DEF CollectorPass
      <3>10. QED
        BY <1>1, <2>1, <3>1, <3>8, <3>9 DEF PassInv, Bonded
    <2>7. QED
      BY <2>5, <2>6
  <1>8. QED
    BY <1>4, <1>5, <1>6, <1>7

\* What a step publishes and collects, and that nothing published before is lost.
CollectsOne(obs) ==
    /\ collected' \in Seq(Collection)
    /\ obs.at = Len(collected')
    /\ \E i \in DOMAIN collected' : collected'[i].obs = obs
    /\ \A i \in DOMAIN collected : i \in DOMAIN collected' /\ collected'[i] = collected[i]
    /\ \A i \in DOMAIN collected' :
         \/ i \in DOMAIN collected
         \/ /\ collected'[i].obs = obs /\ obs.at = i
            /\ collected'[i].of = kpass.of /\ obs.workload = kpass.of.uid

\* The collection of a pass is the last one again, or one more.
LEMMA PublishCollects ==
  ASSUME SInv, KPublish, copy = kpass.base
  PROVE  \E obs \in Observation :
           /\ obs.volumes = kpass.got
           /\ copy' = [id |-> copy.id, status |-> [ready |-> TRUE, obs |-> obs]]
           /\ CollectsOne(obs)
  <1> DEFINE n    == Len(collected)
             same == /\ collected # <<>>
                     /\ Last(collected).of = kpass.of
                     /\ Last(collected).obs.volumes = kpass.got
  <1>1. PICK obs : obs = [at |-> IF same THEN n ELSE n + 1,
                          workload |-> kpass.of.uid, volumes |-> kpass.got]
    OBVIOUS
  <1>2. kpass \in CollectorPass /\ kpass.of \in StatefulSet
    BY DEF KPublish, At, SInv, TypeOK, PassInv
  <1>3. kpass.got \in Volumes /\ kpass.of.uid \in Nat
    BY <1>2 DEF CollectorPass, StatefulSet
  <1>4. n \in Nat /\ DOMAIN collected = 1..n /\ collected \in Seq(Collection)
        /\ (same => n \in DOMAIN collected /\ Last(collected) = collected[n])
    BY CollectionNumbers DEF SInv, TypeOK
  <1>5. obs.at \in Nat \ {0}
    BY <1>1, <1>4
  <1>6. obs \in Observation
    BY <1>1, <1>3, <1>5 DEF Observation
  <1>7. /\ copy' = [id |-> copy.id, status |-> [ready |-> TRUE, obs |-> obs]]
        /\ collected' = IF same THEN collected
                        ELSE Append(collected, [of |-> kpass.of, obs |-> obs])
    BY <1>1, Zenon DEF KPublish, Patch
  <1>8. CASE same
    <2>1. collected' = collected /\ obs.at = n
      BY <1>1, <1>7, <1>8
    <2>2. n \in DOMAIN collected /\ collected[n].of = kpass.of
          /\ collected[n].obs.volumes = kpass.got /\ collected[n].obs \in Observation
      BY <1>4, <1>8, CollectionNumbers DEF SInv
    <2>3. collected[n].obs.at = n /\ collected[n].obs.workload = kpass.of.uid
      BY <2>2 DEF SInv, CollectedInv
    <2>4. collected[n].obs = obs
      BY <1>1, <1>8, <2>2, <2>3 DEF Observation
    <2>5. CollectsOne(obs)
      BY <1>4, <2>1, <2>2, <2>4, Zenon DEF CollectsOne
    <2>6. QED
      BY <1>1, <1>6, <1>7, <2>5
  <1>9. CASE ~same
    <2>1. PICK new : new = [of |-> kpass.of, obs |-> obs]
      OBVIOUS
    <2>2. new \in Collection /\ new.of = kpass.of /\ new.obs = obs
      BY <1>2, <1>6, <2>1 DEF Collection
    <2>3. collected' = Append(collected, new) /\ obs.at = n + 1 /\ obs.workload = new.of.uid
      BY <1>1, <1>7, <1>9, <2>1, <2>2
    <2> HIDE DEF same
    <2>4. /\ collected' \in Seq(Collection) /\ Len(collected') = n + 1
          /\ DOMAIN collected' = 1..(n + 1)
          /\ \A i \in 1..n : collected'[i] = collected[i]
          /\ collected'[n + 1] = new
      BY <1>4, <2>2, <2>3
    <2>5. n + 1 \in DOMAIN collected' /\ \A i \in 1..(n + 1) : i \in 1..n \/ i = n + 1
      BY <1>4, <2>4
    <2> HIDE DEF n
    <2>6. \A i \in DOMAIN collected : i \in DOMAIN collected' /\ collected'[i] = collected[i]
      BY <1>4, <2>4
    <2>7. CollectsOne(obs)
      BY <1>4, <2>2, <2>3, <2>4, <2>5, <2>6 DEF CollectsOne
    <2>8. QED
      BY <1>1, <1>6, <1>7, <2>7
  <1>10. QED
    BY <1>8, <1>9

\* A status that is published is one collection, and the others stay published.
LEMMA PublishKeeps ==
  ASSUME SInv, KPublish, UNCHANGED <<sourceVars, carryVars, boundVars>>
  PROVE  SInv'
  <1>1. UNCHANGED <<sts, pvc, pv, bonds, item, record, faults, interrupts>>
    BY DEF sourceVars, carryVars, boundVars
  <1>2. kpass # None /\ kpass' = None
    BY DEF KPublish, At
  <1>3. kpass \in CollectorPass /\ Bonded(kpass.got)
    BY <1>2 DEF SInv, TypeOK, PassInv
  <1>4. BondInv' /\ bonds \subseteq bonds' /\ PassInv'
    BY <1>1, <1>2 DEF SInv, BondInv, PassInv
  <1>5. CASE copy # kpass.base
    <2>1. UNCHANGED <<copy, collected>>
      BY <1>5 DEF KPublish, Patch
    <2>2. TypeOK'
      BY <1>1, <1>2, <2>1 DEF SInv, TypeOK
    <2>3. QED
      BY <1>1, <1>4, <2>1, <2>2, PlainStep
  <1>6. CASE copy = kpass.base
    <2>1. PICK obs \in Observation :
            /\ obs.volumes = kpass.got
            /\ copy' = [id |-> copy.id, status |-> [ready |-> TRUE, obs |-> obs]]
            /\ CollectsOne(obs)
      BY <1>6, PublishCollects
    <2>2. copy \in Copy
      BY <1>3, <1>6 DEF CollectorPass
    <2>3. copy' \in Copy /\ copy'.status.obs = obs /\ obs # None
      BY <2>1, <2>2, NoneIsNoRecord DEF Copy, Status
    <2>4. TypeOK'
      BY <1>1, <1>2, <2>1, <2>3 DEF SInv, TypeOK, CollectsOne
    <2>5. CollectedInv'
      BY <2>1 DEF SInv, CollectedInv, CollectsOne
    <2>6. VolumesWereBound'
      <3>1. \A i \in DOMAIN collected' : i \in DOMAIN collected \/ collected'[i].obs.volumes = kpass.got
        BY <2>1 DEF CollectsOne
      <3>2. \A i \in DOMAIN collected' :
              Bonded(collected'[i].obs.volumes)
        BY <1>3, <2>1, <3>1 DEF SInv, VolumesWereBound, Bonded, CollectsOne
      <3>3. QED
        BY <1>1, <3>2, Zenon DEF VolumesWereBound, Bonded
    <2>7. \A o : Published(o) => \E i \in DOMAIN collected' : collected'[i].obs = o
      BY <2>1, Zenon DEF Published, CollectsOne
    <2>8. CarryInv'
      <3>1. /\ item # None => Filled(item) /\ (item.obs # None => Published(item.obs))
            /\ record # None => Filled(record) /\ (record.obs # None => Published(record.obs))
            /\ item # None /\ item.obs # None /\ Usable => record.obs.at <= item.obs.at
        BY DEF SInv, CarryInv
      <3>2. /\ item' # None => Filled(item)' /\ (item'.obs # None => Published(item.obs)')
            /\ record' # None => Filled(record)' /\ (record'.obs # None => Published(record.obs)')
        BY <1>1, <2>7, <3>1, Zenon DEF Filled, Published
      <3>3. item' # None /\ item'.obs # None /\ Usable' => record'.obs.at <= item'.obs.at
        BY <1>1, <3>1 DEF Usable
      <3>4. Filled(copy.status)' /\ Published(copy.status.obs)' /\ copy'.status.obs.at = Len(collected')
        BY <2>1, <2>3 DEF Filled, Published, CollectsOne
      <3>5. QED
        BY <3>2, <3>3, <3>4 DEF CarryInv
    <2>9. QED
      BY <1>4, <2>4, <2>5, <2>6, <2>8 DEF SInv
  <1>7. QED
    BY <1>5, <1>6

\* A step that leaves the source, the pass or none of it, and the collections.
LEMMA CarryStep ==
  ASSUME SInv, UNCHANGED <<sts, pvc, pv, bonds, collected>>, kpass' \in {kpass, None},
         faults' \in 0..MaxFaults, interrupts' \in 0..MaxInterrupts,
         copy' \in Copy \cup {None}, item' \in Status \cup {None},
         record' \in Status \cup {None}, CarryInv'
  PROVE  SInv'
  <1>1. TypeOK'
    BY DEF SInv, TypeOK
  <1>2. CollectedInv' /\ BondInv' /\ VolumesWereBound'
    BY DEF SInv, CollectedInv, BondInv, VolumesWereBound
  <1>3. PassInv'
    BY PassStays DEF SInv
  <1>4. QED
    BY <1>1, <1>2, <1>3 DEF SInv

\* A report of failure keeps the last good collection.
LEMMA ReportKeeps ==
  ASSUME SInv, KReport, UNCHANGED <<sourceVars, carryVars, boundVars>>
  PROVE  SInv'
  <1>1. UNCHANGED <<sts, pvc, pv, bonds, item, record, faults, interrupts, collected>>
        /\ kpass' = None
    BY DEF KReport, sourceVars, carryVars, boundVars
  <1>2. CASE copy # kpass.base
    <2>1. copy' = copy
      BY <1>2 DEF KReport, Patch
    <2>2. CarryInv'
      BY <1>1, <2>1 DEF SInv, CarryInv, Published, Usable
    <2>3. QED
      BY <1>1, <2>1, <2>2, CarryStep DEF SInv, TypeOK
  <1>3. CASE copy = kpass.base
    <2>1. kpass # None /\ kpass \in CollectorPass
      BY DEF KReport, At, SInv, TypeOK
    <2>2. copy \in Copy /\ copy.status \in Status
      BY <1>3, <2>1 DEF CollectorPass, Copy
    <2>3. copy' = [id |-> copy.id, status |-> [ready |-> FALSE, obs |-> copy.status.obs]]
      BY <1>3 DEF KReport, Patch, NotReady
    <2>4. copy' \in Copy
      BY <2>2, <2>3 DEF Copy, Status
    <2>5. copy'.status.obs = copy.status.obs /\ ~copy'.status.ready
      BY <2>3
    <2>6. copy # None =>
            (copy.status.obs # None =>
               Published(copy.status.obs) /\ copy.status.obs.at = Len(collected))
      BY DEF SInv, CarryInv
    <2>7. copy # None
      BY <2>2, NoneIsNoRecord
    <2>8. CarryInv'
      BY <1>1, <2>5, <2>6, <2>7 DEF SInv, CarryInv, Filled, Published, Usable
    <2>9. QED
      BY <1>1, <2>4, <2>8, CarryStep DEF SInv, TypeOK
  <1>4. QED
    BY <1>2, <1>3

\* A reflected status is the last collection, or comes without one.
LEMMA ReflectKeeps ==
  ASSUME SInv, Reflect
  PROVE  SInv'
  <1>1. UNCHANGED <<sts, pvc, pv, bonds, record, copy, kpass, collected, faults, interrupts>>
        /\ copy # None /\ item' = copy.status
    BY DEF Reflect, sourceVars, boundVars
  <1>2. item' \in Status
    BY <1>1 DEF SInv, TypeOK, Copy
  <1>3. copy.status.obs # None /\ Usable => record.obs.at <= copy.status.obs.at
    <2> SUFFICES ASSUME copy.status.obs # None, Usable
                 PROVE  record.obs.at <= copy.status.obs.at
      OBVIOUS
    <2>1. copy.status.obs.at = Len(collected)
      BY <1>1 DEF SInv, CarryInv
    <2>2. Published(record.obs)
      BY DEF SInv, CarryInv, Usable
    <2>3. record.obs.at \in 1..Len(collected)
      BY <2>2, PublishedNumber DEF SInv
    <2>4. QED
      BY <2>1, <2>3, CollectionNumbers DEF SInv
  <1>4. CarryInv'
    BY <1>1, <1>3 DEF SInv, CarryInv, Filled, Published, Usable
  <1>5. QED
    BY <1>1, <1>2, <1>4, CarryStep DEF SInv, TypeOK

\* The record takes what was reflected as a whole, or keeps its collection.
LEMMA AggregateShape ==
  ASSUME SInv, Aggregate
  PROVE  /\ UNCHANGED <<sts, pvc, pv, bonds, item, copy, kpass, collected, faults, interrupts>>
         /\ record' \in Status \cup {None}
         /\ \/ /\ record' = item /\ item # None
               /\ item.ready \/ record = None
            \/ record' # None /\ record # None /\ record'.obs = record.obs /\ ~record'.ready
            \/ record' = None /\ record = None
  <1>1. item \in Status \cup {None} /\ record \in Status \cup {None}
    BY DEF SInv, TypeOK
  <1>2. record # None =>
          NotReady(record) \in Status /\ NotReady(record).obs = record.obs
          /\ ~NotReady(record).ready /\ NotReady(record) # None
    <2> SUFFICES ASSUME record # None
                 PROVE  NotReady(record) \in Status /\ NotReady(record).obs = record.obs
                        /\ ~NotReady(record).ready /\ NotReady(record) # None
      OBVIOUS
    <2>1. NotReady(record) \in Status
      BY <1>1 DEF NotReady, Status
    <2>2. NotReady(record).obs = record.obs /\ ~NotReady(record).ready
      BY DEF NotReady
    <2>3. QED
      BY <2>1, <2>2, NoneIsNoRecord
  <1>3. record' = AggregateStatus(record, item)
    BY DEF Aggregate
  <1>4. UNCHANGED <<sts, pvc, pv, bonds, item, copy, kpass, collected, faults, interrupts>>
    BY DEF Aggregate, sourceVars, boundVars
  <1>5. CASE item # None /\ (item.ready \/ record = None)
    BY <1>1, <1>3, <1>4, <1>5 DEF AggregateStatus
  <1>6. CASE ~(item # None /\ (item.ready \/ record = None)) /\ record = None
    BY <1>3, <1>4, <1>6 DEF AggregateStatus
  <1>7. CASE ~(item # None /\ (item.ready \/ record = None)) /\ record # None
    <2>1. record' = NotReady(record)
      BY <1>3, <1>7 DEF AggregateStatus
    <2>2. QED
      BY <1>2, <1>4, <1>7, <2>1
  <1>8. QED
    BY <1>5, <1>6, <1>7

\* So it never loses a collection, nor goes back to an earlier one.
LEMMA AggregateAdvances ==
  ASSUME SInv, Aggregate, Usable
  PROVE  Usable' /\ record'.obs.at >= record.obs.at
  <1>1. record # None /\ record.obs # None /\ Published(record.obs)
    BY DEF Usable, SInv, CarryInv
  <1>2. record.obs.at \in Nat
    BY <1>1, PublishedNumber DEF SInv, Observation
  <1>3. CASE record' # None /\ record'.obs = record.obs
    BY <1>1, <1>2, <1>3 DEF Usable
  <1>4. CASE record' = item /\ item # None /\ item.ready
    <2>1. item.obs # None /\ Published(item.obs) /\ record.obs.at <= item.obs.at
      BY <1>4 DEF SInv, CarryInv, Filled
    <2>2. item.obs.at \in Nat
      BY <2>1, PublishedNumber DEF SInv, Observation
    <2>3. QED
      BY <1>2, <1>4, <2>1, <2>2 DEF Usable
  <1>5. QED
    BY <1>1, <1>3, <1>4, AggregateShape

LEMMA AggregateKeeps ==
  ASSUME SInv, Aggregate
  PROVE  SInv'
  <1>1. UNCHANGED <<sts, pvc, pv, bonds, item, copy, kpass, collected, faults, interrupts>>
        /\ record' \in Status \cup {None}
    BY AggregateShape
  <1>2. ASSUME record' # None
        PROVE  Filled(record)' /\ (record'.obs # None => Published(record.obs)')
    BY <1>1, <1>2, AggregateShape DEF SInv, CarryInv, Filled, Published
  <1>3. ASSUME item # None, item.obs # None, Usable'
        PROVE  record'.obs.at <= item.obs.at
    <2>1. item.obs.at \in Nat
      BY <1>3, PublishedNumber DEF SInv, CarryInv, Observation
    <2>2. CASE record' = item
      BY <2>1, <2>2
    <2>3. CASE record # None /\ record'.obs = record.obs
      BY <1>3, <2>3 DEF Usable, SInv, CarryInv
    <2>4. QED
      BY <1>3, <2>2, <2>3, AggregateShape DEF Usable
  <1>4. CarryInv'
    <2>1. copy' # None =>
            /\ Filled(copy.status)'
            /\ copy'.status.obs # None =>
                 Published(copy.status.obs)' /\ copy'.status.obs.at = Len(collected')
      BY <1>1 DEF SInv, CarryInv, Filled, Published
    <2>2. item' # None => Filled(item)' /\ (item'.obs # None => Published(item.obs)')
      BY <1>1 DEF SInv, CarryInv, Filled, Published
    <2>3. item' # None /\ item'.obs # None /\ Usable' => record'.obs.at <= item'.obs.at
      BY <1>1, <1>3
    <2>4. QED
      BY <1>2, <2>1, <2>2, <2>3 DEF CarryInv
  <1>5. QED
    BY <1>1, <1>4, CarryStep DEF SInv, TypeOK

\* A copy made anew is empty; a copy or an item that is lost says nothing; a
\* pass that fails leaves no trace.
LEMMA LossKeeps ==
  ASSUME SInv,
         \/ RestoreCopy \/ KFail
         \/ /\ LoseCopy \/ LoseItem
            /\ faults' \in 0..MaxFaults
            /\ UNCHANGED <<kpass, collected, interrupts>>
  PROVE  SInv'
  <1>1. UNCHANGED <<sts, pvc, pv, bonds, collected, record>> /\ kpass' \in {kpass, None}
        /\ item' \in {item, None}
    BY DEF RestoreCopy, KFail, LoseCopy, LoseItem, sourceVars, carryVars
  <1>2. copy' \in {copy, None} \/ copy' = [id |-> faults, status |-> EmptyStatus]
    BY DEF RestoreCopy, KFail, LoseCopy, LoseItem
  <1>3. faults' \in 0..MaxFaults /\ interrupts' \in 0..MaxInterrupts
    BY Bounds DEF RestoreCopy, KFail, LoseCopy, LoseItem, boundVars, SInv, TypeOK
  <1>4. copy' \in Copy \cup {None}
    <2>1. faults \in Nat /\ copy \in Copy \cup {None}
      BY Bounds DEF SInv, TypeOK
    <2>2. [id |-> faults, status |-> EmptyStatus] \in Copy
      BY <2>1 DEF Copy, Status, EmptyStatus
    <2>3. QED
      BY <1>2, <2>1, <2>2
  <1>5. copy' # None =>
          /\ Filled(copy.status)'
          /\ copy'.status.obs # None =>
               Published(copy.status.obs)' /\ copy'.status.obs.at = Len(collected')
    BY <1>1, <1>2 DEF SInv, CarryInv, Filled, Published, EmptyStatus
  <1>6. CarryInv'
    BY <1>1, <1>5 DEF SInv, CarryInv, Filled, Published, Usable
  <1>7. QED
    BY <1>1, <1>3, <1>4, <1>6, CarryStep DEF SInv, TypeOK

-----------------------------------------------------------------------------
(* The theorems.                                                           *)

\* Every step keeps the invariant.
LEMMA SnapshotKeeps == SInv /\ [Next]_vars => SInv'
  <1> SUFFICES ASSUME SInv, [Next]_vars
               PROVE  SInv'
    OBVIOUS
  <1>1. CASE CollectorStep
    BY <1>1, ReadsKeep, PublishKeeps, ReportKeeps DEF CollectorStep
  <1>2. CASE KFail \/ RestoreCopy
    BY <1>2, LossKeeps
  <1>3. CASE Reflect \/ Aggregate
    BY <1>3, ReflectKeeps, AggregateKeeps
  <1>4. CASE Disturb
    <2>1. faults' \in 0..MaxFaults /\ UNCHANGED <<kpass, collected, interrupts>>
      BY <1>4, Bounds DEF Disturb, SInv
    <2>2. QED
      BY <1>4, <2>1, SourceKeeps, LossKeeps DEF Disturb
  <1>5. CASE Mend
    <2>1. faults' \in 0..MaxFaults /\ UNCHANGED <<kpass, collected, interrupts>>
      BY <1>5 DEF Mend, boundVars, SInv, TypeOK
    <2>2. PICK c \in Claims : CreateClaim(c) \/ \E v \in Volume : BindClaim(c, v)
      BY <1>5 DEF Mend
    <2>3. QED
      BY <2>1, <2>2, SourceKeeps
  <1>6. CASE UNCHANGED vars
    <2>1. UNCHANGED <<sts, pvc, pv, bonds, collected, record, item, copy, kpass, faults, interrupts>>
      BY <1>6 DEF vars, sourceVars, carryVars, boundVars
    <2>2. CarryInv'
      BY <2>1 DEF SInv, CarryInv, Filled, Published, Usable
    <2>3. QED
      BY <2>1, <2>2, CarryStep DEF SInv, TypeOK
  <1>7. QED
    BY <1>1, <1>2, <1>3, <1>4, <1>5, <1>6 DEF Next, Carry

\* It holds forever.
LEMMA SnapshotHolds == Spec => []SInv
  BY SnapshotInit, SnapshotKeeps, PTL DEF Spec

\* What the source, the pass, and the statuses are made of; the claim read next
\* is always one that is left.
THEOREM SnapshotTypeCorrect == Spec => []TypeOK
  <1>1. SInv => TypeOK
    BY DEF SInv
  <1>2. QED
    BY <1>1, SnapshotHolds, PTL

\* No snapshot that BuildWorks reads mixes two collections, whatever was lost,
\* failed or was made anew, any number of times.
THEOREM SnapshotWhole == Spec => []SnapshotIsOneCollection
  <1>1. SInv => SnapshotIsOneCollection
    BY DEF SInv, CarryInv, Published, SnapshotIsOneCollection, Usable
  <1>2. QED
    BY <1>1, SnapshotHolds, PTL

\* Each volume of a collection was bound to its claim, however often both are
\* remade between the two reads.
THEOREM CollectedBound == Spec => []VolumesWereBound
  <1>1. SInv => VolumesWereBound
    BY DEF SInv
  <1>2. QED
    BY <1>1, SnapshotHolds, PTL

\* The snapshot on the control plane never goes back, whatever is lost below.
THEOREM SnapshotForward == Spec => SnapshotAdvances
  <1>1. SInv /\ [Next]_vars =>
          [Usable => Usable' /\ record'.obs.at >= record.obs.at]_vars
    <2> SUFFICES ASSUME SInv, Next, Usable
                 PROVE  Usable' /\ record'.obs.at >= record.obs.at
      BY DEF Usable, vars
    <2>1. CASE Aggregate
      BY <2>1, AggregateAdvances
    <2>2. CASE record' = record
      <3>1. record.obs # None /\ Published(record.obs)
        BY DEF Usable, SInv, CarryInv
      <3>2. record.obs.at \in Nat
        BY <3>1, PublishedNumber DEF SInv, Observation
      <3>3. QED
        BY <2>2, <3>2 DEF Usable
    <2>3. Aggregate \/ record' = record
      BY DEF Next, CollectorStep, KFail, Carry, Disturb, Mend, Reflect, RestoreCopy, Scale,
             RemakeSet, LoseCopy, LoseItem, RemakeClaim, RemakeVolume, CreateClaim, BindClaim,
             carryVars
    <2>4. QED
      BY <2>1, <2>2, <2>3
  <1>2. QED
    BY <1>1, SnapshotHolds, PTL DEF Spec, SnapshotAdvances

-----------------------------------------------------------------------------
(* Complete collections, where no ordinal overflows.                       *)

\* The ordinals of a StatefulSet stay within int32.
OrdinalsFit == \A sc \in Scales : sc[1] + sc[2] <= MaxInt

\* The claims considered are all that it may use.
OrderCovers ==
    /\ \A sc \in Scales : Template \X (sc[1]..(sc[1] + sc[2] - 1)) \subseteq Claims
    /\ Explicit \subseteq Claims

Scaled(s) == s \in StatefulSet /\ <<s.start, s.replicas>> \in Scales

\* The claims of s that are not left to be read, and no others, are in hand.
InHand(volumes, s, left) ==
    \A c \in Claims : volumes[c] # None <=> c \in CollectedClaims(s) /\ c \notin left

CompleteInv ==
    /\ Scaled(sts)
    /\ kpass # None /\ kpass.pc = "set" => kpass.got = NoVolumes
    /\ kpass # None /\ kpass.pc \in {"claim", "volume"} =>
         /\ Scaled(kpass.of) /\ InHand(kpass.got, kpass.of, kpass.todo)
         /\ kpass.todo \subseteq CollectedClaims(kpass.of)
    /\ \A i \in DOMAIN collected :
         Scaled(collected[i].of) /\ InHand(collected[i].obs.volumes, collected[i].of, {})

\* Counting in int32 and in int64 agree on ordinals that fit.
LEMMA OrdinalsAgree ==
  ASSUME OrdinalsFit, NEW s, Scaled(s)
  PROVE  TemplateClaims(s) = Generated(s)
  <1>1. PICK sc \in Scales : sc = <<s.start, s.replicas>>
    BY DEF Scaled
  <1>2. s.start \in 0..MaxInt /\ s.replicas \in 0..MaxInt /\ s.start + s.replicas <= MaxInt
    BY <1>1 DEF Scaled, StatefulSet, OrdinalsFit
  <1>3. MaxInt \in Nat
    BY LanesAssumption
  <1> DEFINE n == s.start + s.replicas
  <1>4. n \in 0..MaxInt
    BY <1>2, <1>3
  <1>5. Int32(n) = n
    <2> HIDE DEF n
    <2> DEFINE a == n + MaxInt + 1
               b == 2 * (MaxInt + 1)
    <2>1. a \in Nat /\ b \in Nat /\ a < b
      BY <1>3, <1>4
    <2> HIDE DEF a, b
    <2>2. a % b = a
      BY <2>1
    <2>3. a - (MaxInt + 1) = n
      BY <1>3, <1>4 DEF a
    <2>4. QED
      BY <2>2, <2>3 DEF Int32, a, b
  <1>6. {o \in 0..MaxInt : s.start <= o /\ o < n} = s.start..(n - 1)
    BY <1>2, <1>3, <1>4
  <1>7. {o \in 0..MaxInt : s.start <= o /\ o < Int32(n)} = s.start..(n - 1)
    BY <1>5, <1>6
  <1>8. TemplateClaims(s) = Template \X {o \in 0..MaxInt : s.start <= o /\ o < Int32(n)}
    BY Zenon DEF TemplateClaims
  <1>9. Generated(s) = Template \X (s.start..(n - 1))
    BY <1>2 DEF Generated, Scaled
  <1>10. QED
    BY <1>7, <1>8, <1>9, Zenon

\* A collection in which nothing is left has just what the StatefulSet uses.
LEMMA InHandComplete ==
  ASSUME OrdinalsFit, OrderCovers, NEW s, Scaled(s), NEW volumes, InHand(volumes, s, {})
  PROVE  {x \in Claims : volumes[x] # None} = Generated(s) \cup Explicit
  <1>1. CollectedClaims(s) = Generated(s) \cup Explicit
    BY OrdinalsAgree DEF CollectedClaims, StandaloneClaims
  <1>2. Generated(s) \subseteq Claims
    <2>1. PICK sc \in Scales : sc = <<s.start, s.replicas>>
      BY DEF Scaled
    <2>2. QED
      BY <2>1 DEF OrderCovers, Generated
  <1>3. QED
    BY <1>1, <1>2 DEF InHand, OrderCovers

LEMMA CompleteInit == Init => CompleteInv
  <1> SUFFICES ASSUME Init
               PROVE  CompleteInv
    OBVIOUS
  <1>1. PICK sc \in Scales : sts = [uid |-> 1, start |-> sc[1], replicas |-> sc[2]]
    BY DEF Init
  <1>2. sc \in (0..MaxInt) \X (0..MaxInt) /\ sc = <<sc[1], sc[2]>>
    BY PipelineAssumption
  <1>3. Scaled(sts)
    BY <1>1, <1>2 DEF Scaled, StatefulSet
  <1>4. QED
    BY <1>3 DEF Init, CompleteInv

LEMMA CompleteKeeps == SInv /\ CompleteInv /\ [Next]_vars => CompleteInv'
  <1> SUFFICES ASSUME SInv, CompleteInv, [Next]_vars
               PROVE  CompleteInv'
    OBVIOUS
  <1>1. Scaled(sts')
    <2>1. CASE sts' = sts
      BY <2>1 DEF CompleteInv
    <2>2. CASE Scale
      <3>1. PICK sc \in Scales : sts' = [uid |-> sts.uid, start |-> sc[1], replicas |-> sc[2]]
        BY <2>2 DEF Scale
      <3>2. sc \in (0..MaxInt) \X (0..MaxInt) /\ sc = <<sc[1], sc[2]>>
        BY PipelineAssumption
      <3>3. QED
        BY <3>1, <3>2 DEF Scaled, StatefulSet, SInv, TypeOK
    <2>3. CASE RemakeSet
      <3>1. sts' = [uid |-> sts.uid + 1, start |-> sts.start, replicas |-> sts.replicas]
        BY <2>3, Zenon DEF RemakeSet, StatefulSet, SInv, TypeOK
      <3>2. sts.uid + 1 \in Nat
        BY DEF SInv, TypeOK, StatefulSet
      <3>3. QED
        BY <3>1, <3>2 DEF Scaled, StatefulSet, SInv, TypeOK, CompleteInv
    <2>4. sts' = sts \/ Scale \/ RemakeSet
      BY DEF Next, CollectorStep, KFail, Carry, Disturb, Mend, Reflect, Aggregate, RestoreCopy,
             LoseCopy, LoseItem, RemakeClaim, RemakeVolume, CreateClaim, BindClaim, sourceVars, vars
    <2>5. QED
      BY <2>1, <2>2, <2>3, <2>4
  <1>2. SUFFICES
          /\ kpass' # None /\ kpass'.pc = "set" => kpass'.got = NoVolumes
          /\ kpass' # None /\ kpass'.pc \in {"claim", "volume"} =>
               /\ Scaled(kpass'.of) /\ InHand(kpass'.got, kpass'.of, kpass'.todo)
               /\ kpass'.todo \subseteq CollectedClaims(kpass'.of)
          /\ \A i \in DOMAIN collected' :
               Scaled(collected'[i].of) /\ InHand(collected'[i].obs.volumes, collected'[i].of, {})
    BY <1>1, <1>2 DEF CompleteInv, Scaled, InHand, CollectedClaims, TemplateClaims,
                      StandaloneClaims, Explicit, Generated
  <1>3. CASE UNCHANGED collected /\ kpass' \in {kpass, None}
    BY <1>3 DEF CompleteInv
  <1>4. CASE KStart /\ UNCHANGED collected
    BY <1>4 DEF KStart, CompleteInv
  <1>5. CASE KReadSet /\ UNCHANGED collected
    <2>1. kpass # None /\ kpass.pc = "set" /\ kpass \in CollectorPass /\ kpass.got = NoVolumes
      BY <1>5 DEF KReadSet, At, SInv, TypeOK, CompleteInv
    <2>2. \/ kpass'.pc = "report"
          \/ kpass'.pc = "claim" /\ kpass'.of = sts /\ kpass'.got = NoVolumes
             /\ kpass'.todo = Claims \cap CollectedClaims(sts)
      BY <1>5, <2>1, Zenon DEF KReadSet, CollectorPass
    <2>3. QED
      BY <1>5, <2>2 DEF CompleteInv, InHand, NoVolumes
  <1>6. CASE KReadClaim /\ UNCHANGED collected
    <2>1. kpass # None /\ kpass.pc = "claim" /\ kpass \in CollectorPass
          /\ Scaled(kpass.of) /\ InHand(kpass.got, kpass.of, kpass.todo)
          /\ kpass.todo \subseteq CollectedClaims(kpass.of)
      BY <1>6 DEF KReadClaim, At, SInv, TypeOK, CompleteInv
    <2>2. \/ kpass'.pc = "report"
          \/ kpass'.pc = "volume" /\ kpass'.of = kpass.of /\ kpass'.got = kpass.got
             /\ kpass'.todo = kpass.todo
      BY <1>6, <2>1, Zenon DEF KReadClaim, CollectorPass
    <2>3. QED
      BY <1>6, <2>1, <2>2 DEF CompleteInv
  <1>7. CASE KReadVolume /\ UNCHANGED collected
    <2>1. kpass # None /\ kpass.pc = "volume" /\ kpass \in CollectorPass /\ kpass.todo # {}
          /\ kpass.claim \in [uid : Nat, volume : Volume]
          /\ Scaled(kpass.of) /\ InHand(kpass.got, kpass.of, kpass.todo)
          /\ kpass.todo \subseteq CollectedClaims(kpass.of)
      BY <1>7 DEF KReadVolume, At, SInv, TypeOK, PassInv, CompleteInv
    <2>2. CName \in kpass.todo /\ CName \in Claims /\ kpass.got \in [Claims -> Entry \cup {None}]
      BY <2>1, NameLeft DEF CollectorPass, Volumes
    <2>3. kpass.claim.volume \in Volume /\ kpass.claim.uid \in Nat
      BY <2>1
    <2>4. pv[kpass.claim.volume].inc \in Nat
      BY <2>3 DEF SInv, TypeOK, BoundVolume
    <2>5. PICK e : e = [uid |-> kpass.claim.uid, volume |-> kpass.claim.volume,
                        inc |-> pv[kpass.claim.volume].inc,
                        standalone |-> CName \in StandaloneClaims(kpass.of)]
      OBVIOUS
    <2>6. e # None
      <3>1. e \in Entry
        BY <2>3, <2>4, <2>5 DEF Entry
      <3>2. QED
        BY <3>1, NoneIsNoRecord
    <2>7. \/ kpass'.pc = "report"
          \/ kpass'.pc = "claim" /\ kpass'.of = kpass.of
             /\ kpass'.got = [kpass.got EXCEPT ![CName] = e]
             /\ kpass'.todo = kpass.todo \ {CName}
      BY <1>7, <2>1, <2>5, Zenon DEF KReadVolume, CollectorPass
    <2>8. CASE kpass'.pc = "claim" /\ kpass'.of = kpass.of
               /\ kpass'.got = [kpass.got EXCEPT ![CName] = e]
               /\ kpass'.todo = kpass.todo \ {CName}
      <3>1. CName \in CollectedClaims(kpass.of)
        BY <2>1, <2>2
      <3>2. InHand(kpass'.got, kpass'.of, kpass'.todo)
        BY <2>1, <2>2, <2>6, <2>8, <3>1 DEF InHand
      <3>3. QED
        BY <1>7, <2>1, <2>8, <3>2 DEF CompleteInv
    <2>9. CASE kpass'.pc = "report"
      BY <1>7, <2>9 DEF CompleteInv
    <2>10. QED
      BY <2>7, <2>8, <2>9
  <1>8. CASE KPublish
    <2>1. kpass # None /\ kpass.pc = "claim" /\ kpass.todo = {} /\ kpass' = None
      BY <1>8 DEF KPublish, At
    <2>2. Scaled(kpass.of) /\ InHand(kpass.got, kpass.of, {})
      BY <2>1 DEF CompleteInv
    <2>3. CASE copy # kpass.base
      BY <1>8, <2>1, <2>3 DEF KPublish, CompleteInv
    <2>4. CASE copy = kpass.base
      <3>1. PICK obs \in Observation : obs.volumes = kpass.got /\ CollectsOne(obs)
        BY <1>8, <2>4, PublishCollects
      <3>2. QED
        BY <2>1, <2>2, <3>1 DEF CollectsOne, CompleteInv
    <2>5. QED
      BY <2>3, <2>4
  <1>9. QED
    BY <1>3, <1>4, <1>5, <1>6, <1>7, <1>8 DEF Next, CollectorStep, KReport, KFail, Carry,
       Disturb, Mend, Reflect, Aggregate, RestoreCopy, vars

\* A collection covers what the StatefulSet used when the collection began,
\* whatever is scaled or remade under it, as long as no ordinal overflows: the
\* premise is needed, since the collector counts in int32.
THEOREM CollectionsComplete ==
  ASSUME OrdinalsFit, OrderCovers
  PROVE  Spec => []CollectionComplete
  <1>1. SInv /\ CompleteInv /\ [Next]_vars => (SInv /\ CompleteInv)'
    BY SnapshotKeeps, CompleteKeeps
  <1>2. Init => SInv /\ CompleteInv
    BY SnapshotInit, CompleteInit
  <1>3. CompleteInv => CollectionComplete
    BY InHandComplete DEF CompleteInv, CollectionComplete
  <1>4. QED
    BY <1>1, <1>2, <1>3, PTL DEF Spec
=============================================================================
