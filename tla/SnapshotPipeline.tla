--------------------------- MODULE SnapshotPipeline ---------------------------
(***************************************************************************)
(* How the source snapshot comes about.  The collector on the member goes  *)
(* through the claims of a StatefulSet and writes what it found into the   *)
(* member's copy of the PVMetadata; Karmada reflects that status; the      *)
(* interpreter aggregates it into status.clusters, where BuildWorks reads  *)
(* it.  The spec of a PVMetadata is immutable, so that the generation of   *)
(* both its copies is 1: a status is current once something was collected. *)
(***************************************************************************)
EXTENDS ClaimLanes, SequencesExt

CONSTANTS
    Order,          \* the claims, as collect orders them
    Volume,         \* names of PersistentVolumes of the member
    Scales,         \* the <<start, replicas>> that the StatefulSet can have
    None,           \* an absent object, collection or claim
    MaxFaults,      \* bound: changes of the source or losses in a behaviour
    MaxInterrupts   \* bound: failed calls and restarts of the collector

ASSUME PipelineAssumption ==
    /\ Order \in Seq(Claim)
    /\ Scales \subseteq (0..MaxInt) \X (0..MaxInt)
    /\ None \notin Volume \cup Claim
    /\ MaxFaults \in Nat /\ MaxInterrupts \in Nat

VARIABLES
    sts,        \* the StatefulSet on the member
    pvc,        \* its PersistentVolumeClaims
    pv,         \* the PersistentVolumes
    copy,       \* the PVMetadata on the member
    item,       \* its status as Karmada reflected it last, None when missing
    record,     \* status.clusters of the PVMetadata on the control plane
    kpass,      \* the collection under way, None between two of them
    bonds,      \* history: every claim and volume that were ever bound
    collected,  \* history: the collections published, each unlike the last
    faults, interrupts

sourceVars == <<sts, pvc, pv, bonds>>
carryVars  == <<item, record>>
boundVars  == <<faults, interrupts>>
vars       == <<sourceVars, carryVars, copy, kpass, collected, boundVars>>

Claims == Range(Order)

\* What a snapshot keeps of a claim: its UID, its volume (inc tells apart the
\* objects that had its name) and whether no template generates it.
Entry == [uid : Nat, volume : Volume, inc : Nat, standalone : BOOLEAN]

\* The volumes of a snapshot, by claim; None for a claim that is not in it.
Volumes == [Claims -> Entry \cup {None}]

NoVolumes == [c \in Claims |-> None]

\* at stands for collectedAt: the number of the collection, where one equal to
\* the one before has the same number.
Observation ==
    [at : Nat \ {0}, workload : Nat, volumes : Volumes]

\* The status of a PVMetadata as the collector writes it, and an item of
\* status.clusters.
Status == [ready : BOOLEAN, obs : Observation \cup {None}]

EmptyStatus == [ready |-> FALSE, obs |-> None]

NotReady(status) == [ready |-> FALSE, obs |-> status.obs]

BoundClaim  == [uid : Nat, volume : Volume \cup {None}]
BoundVolume == [inc : Nat, claim : Claims \cup {None}, uid : Nat]
Copy        == [id : Nat, status : Status]   \* id: which object of that name

Collection  == [of : StatefulSet, obs : Observation]

ASSUME NoneIsNoRecord == None \notin Entry \cup Observation \cup Status \cup Copy

CollectorPass ==
    [pc : {"set", "claim", "volume", "report"}, base : Copy, of : StatefulSet \cup {None},
     todo : SUBSET Claims, claim : [uid : Nat, volume : Volume] \cup {None},
     got : Volumes]

TypeOK ==
    /\ sts \in StatefulSet
    /\ pvc \in [Claims -> BoundClaim \cup {None}]
    /\ pv \in [Volume -> BoundVolume]
    /\ copy \in Copy \cup {None}
    /\ item \in Status \cup {None}
    /\ record \in Status \cup {None}
    /\ kpass \in CollectorPass \cup {None}
    /\ collected \in Seq(Collection)
    /\ faults \in 0..MaxFaults
    /\ interrupts \in 0..MaxInterrupts

\* The source runs with every claim bound; the PVMetadata has just arrived.
Init ==
    /\ \E sc \in Scales : sts = [uid |-> 1, start |-> sc[1], replicas |-> sc[2]]
    /\ \E f \in [Claims -> Volume] :
        /\ IsInjective(f)
        /\ pvc = [c \in Claims |-> IF c \in Generated(sts) \cup Explicit
                                   THEN [uid |-> 1, volume |-> f[c]] ELSE None]
        /\ pv = [v \in Volume |->
                   IF \E c \in Claims : f[c] = v /\ pvc[c] # None
                   THEN [inc |-> 1, claim |-> CHOOSE c \in Claims : f[c] = v, uid |-> 1]
                   ELSE [inc |-> 1, claim |-> None, uid |-> 0]]
        /\ bonds = {<<c, 1, f[c], 1>> : c \in {x \in Claims : pvc[x] # None}}
    /\ copy = [id |-> 0, status |-> EmptyStatus]
    /\ item = None
    /\ record = None
    /\ kpass = None
    /\ collected = <<>>
    /\ faults = 0
    /\ interrupts = 0

-----------------------------------------------------------------------------
(* The collector: PVSyncReconciler.Reconcile, one read per action.         *)

\* The PVMetadata is read; a poll interval after the last pass, or at once
\* after an error.
KStart ==
    /\ kpass = None
    /\ copy # None
    /\ kpass' = [pc |-> "set", base |-> copy, of |-> None, todo |-> {},
                 claim |-> None, got |-> NoVolumes]

At(pc) == kpass # None /\ kpass.pc = pc

\* collect reads the StatefulSet and lays down the claims to read.
KReadSet ==
    /\ At("set")
    /\ kpass' = IF sts.replicas = 0 \/ (Template = {} /\ StandaloneClaims(sts) = {})
                THEN [kpass EXCEPT !.pc = "report"]
                ELSE [kpass EXCEPT !.pc = "claim", !.of = sts,
                                   !.todo = Claims \cap CollectedClaims(sts)]

\* The first of the claims that are still to be read.
CName ==
    Order[CHOOSE i \in DOMAIN Order :
             Order[i] \in kpass.todo /\ \A j \in 1..(i - 1) : Order[j] \notin kpass.todo]

\* Mutant: a claim need not be bound.
KReadClaimUnbound ==
    /\ At("claim")
    /\ kpass.todo # {}
    /\ kpass' = IF pvc[CName] = None THEN [kpass EXCEPT !.pc = "report"]
                ELSE [kpass EXCEPT !.pc = "volume", !.claim = pvc[CName]]

\* A claim that is missing or not bound fails the collection.
KReadClaim ==
    /\ At("claim")
    /\ kpass.todo # {}
    /\ kpass' = IF pvc[CName] = None \/ pvc[CName].volume = None
                THEN [kpass EXCEPT !.pc = "report"]
                ELSE [kpass EXCEPT !.pc = "volume", !.claim = pvc[CName]]

\* Mutant: the claimRef is not compared.
RefersToAny(v, c, uid) == pv[v].claim # None

\* The volume is bound to that very claim.
RefersTo(v, c, uid) == pv[v].claim = c /\ pv[v].uid = uid

KReadVolume ==
    /\ At("volume")
    /\ LET v == kpass.claim.volume
           entry == [uid |-> kpass.claim.uid, volume |-> v, inc |-> pv[v].inc,
                     standalone |-> CName \in StandaloneClaims(kpass.of)]
       IN kpass' = IF RefersTo(v, CName, kpass.claim.uid)
                   THEN [kpass EXCEPT !.pc = "claim", !.claim = None, !.todo = @ \ {CName},
                                      !.got[CName] = entry]
                   ELSE [kpass EXCEPT !.pc = "report"]

\* Mutant: only a change of readiness is worth a patch.
PatchReadiness(status) ==
    copy' = IF copy = kpass.base /\ copy.status.ready # status.ready
            THEN [copy EXCEPT !.status = status] ELSE copy

\* The patch is for the object that was read, or it is a conflict.
Patch(status) ==
    copy' = IF copy = kpass.base THEN [id |-> copy.id, status |-> status] ELSE copy

\* successfulStatus: workload, volumes and time are replaced together.
KPublish ==
    /\ At("claim")
    /\ kpass.todo = {}
    /\ LET same == /\ collected # <<>>
                   /\ Last(collected).of = kpass.of
                   /\ Last(collected).obs.volumes = kpass.got
           obs == [at |-> IF same THEN Len(collected) ELSE Len(collected) + 1,
                   workload |-> kpass.of.uid, volumes |-> kpass.got]
       IN /\ Patch([ready |-> TRUE, obs |-> obs])
          /\ collected' = IF same \/ copy # kpass.base THEN collected
                          ELSE Append(collected, [of |-> kpass.of, obs |-> obs])
    /\ kpass' = None

\* failedStatus: the last good collection stays.
KReport ==
    /\ At("report")
    /\ Patch(NotReady(kpass.base.status))
    /\ kpass' = None
    /\ UNCHANGED collected

CollectorStep ==
    /\ \/ /\ KStart \/ KReadSet \/ KReadClaim \/ KReadVolume
          /\ UNCHANGED <<copy, collected>>
       \/ KPublish \/ KReport
    /\ UNCHANGED <<sourceVars, carryVars, boundVars>>

\* A call fails, or the collector restarts.
KFail ==
    /\ kpass # None
    /\ kpass' = None
    /\ interrupts < MaxInterrupts
    /\ interrupts' = interrupts + 1
    /\ UNCHANGED <<sourceVars, carryVars, copy, collected, faults>>

-----------------------------------------------------------------------------
(* From the member to the control plane.                                   *)

\* ReflectStatus leaves status.clusters out and takes the rest.
Reflect ==
    /\ copy # None
    /\ item # copy.status
    /\ item' = copy.status
    /\ UNCHANGED <<sourceVars, record, copy, kpass, collected, boundVars>>

\* Mutant: the last good volumes are kept, the other fields are not.
AggregateMixed(old, new) ==
    IF new # None /\ (new.ready \/ old = None) THEN new
    ELSE IF old = None THEN None
    ELSE IF new = None \/ new.obs = None \/ old.obs = None THEN NotReady(old)
    ELSE [ready |-> FALSE, obs |-> [new.obs EXCEPT !.volumes = old.obs.volumes]]

\* Mutant: a status that is not ready is taken as it comes.
AggregateAsReported(old, new) ==
    IF new # None \/ old = None THEN new ELSE NotReady(old)

\* AggregateStatus: a cluster that is missing or not ready keeps its record,
\* an empty one too, and is marked not ready.
AggregateStatus(old, new) ==
    IF new # None /\ (new.ready \/ old = None) THEN new
    ELSE IF old = None THEN None ELSE NotReady(old)

Aggregate ==
    /\ record # AggregateStatus(record, item)
    /\ record' = AggregateStatus(record, item)
    /\ UNCHANGED <<sourceVars, item, copy, kpass, collected, boundVars>>

\* Karmada makes the member's copy again, without a status.
RestoreCopy ==
    /\ copy = None
    /\ copy' = [id |-> faults, status |-> EmptyStatus]
    /\ UNCHANGED <<sourceVars, carryVars, kpass, collected, boundVars>>

-----------------------------------------------------------------------------
(* The source, and losses on the way.                                      *)

\* The StatefulSet is scaled, or its first ordinal moved.
Scale ==
    /\ \E sc \in Scales :
        /\ sc # <<sts.start, sts.replicas>>
        /\ sts' = [uid |-> sts.uid, start |-> sc[1], replicas |-> sc[2]]
    /\ UNCHANGED <<pvc, pv, bonds, carryVars, copy>>

\* The StatefulSet is deleted and made again; its claims stay.
RemakeSet ==
    /\ sts' = [sts EXCEPT !.uid = @ + 1]
    /\ UNCHANGED <<pvc, pv, bonds, carryVars, copy>>

\* The StatefulSet controller makes a claim that an ordinal needs.
CreateClaim(c) ==
    /\ pvc[c] = None
    /\ c \in Generated(sts)
    /\ pvc' = [pvc EXCEPT ![c] = [uid |-> 1, volume |-> None]]
    /\ UNCHANGED <<sts, pv, bonds, carryVars, copy>>

\* A claim is deleted and made again; its volume is retained and freed.
RemakeClaim(c) ==
    /\ pvc[c] # None
    /\ pvc' = [pvc EXCEPT ![c] = [uid |-> @.uid + 1, volume |-> None]]
    /\ pv' = [v \in Volume |-> IF pv[v].claim = c THEN [inc |-> pv[v].inc, claim |-> None, uid |-> 0] ELSE pv[v]]
    /\ UNCHANGED <<sts, bonds, carryVars, copy>>

\* A volume is deleted and another one made of that name.
RemakeVolume(v) ==
    /\ pv' = [pv EXCEPT ![v] = [inc |-> @.inc + 1, claim |-> None, uid |-> 0]]
    /\ UNCHANGED <<sts, pvc, bonds, carryVars, copy>>

\* The volume controller binds a claim and a volume to each other.
BindClaim(c, v) ==
    /\ pvc[c] # None
    /\ pvc[c].volume = None
    /\ pv[v].claim = None
    /\ pvc' = [pvc EXCEPT ![c] = [uid |-> @.uid, volume |-> v]]
    /\ pv' = [pv EXCEPT ![v] = [inc |-> @.inc, claim |-> c, uid |-> pvc[c].uid]]
    /\ bonds' = bonds \cup {<<c, pvc[c].uid, v, pv[v].inc>>}
    /\ UNCHANGED <<sts, carryVars, copy>>

\* The member's copy of the PVMetadata is lost.
LoseCopy ==
    /\ copy # None
    /\ copy' = None
    /\ UNCHANGED <<sourceVars, carryVars>>

\* The member is away, and Karmada drops its status.
LoseItem ==
    /\ item # None
    /\ item' = None
    /\ UNCHANGED <<sourceVars, record, copy>>

Disturb ==
    /\ faults < MaxFaults
    /\ faults' = faults + 1
    /\ \/ Scale \/ RemakeSet \/ LoseCopy \/ LoseItem
       \/ \E c \in Claims : RemakeClaim(c)
       \/ \E v \in Volume : RemakeVolume(v)
    /\ UNCHANGED <<kpass, collected, interrupts>>

Mend ==
    /\ \E c \in Claims : CreateClaim(c) \/ \E v \in Volume : BindClaim(c, v)
    /\ UNCHANGED <<kpass, collected, boundVars>>

Carry == Reflect \/ Aggregate \/ RestoreCopy

Next == CollectorStep \/ KFail \/ Carry \/ Disturb \/ Mend

Spec == Init /\ [][Next]_vars

\* The collector polls and its handler runs to the end; Karmada carries on.
\* Nothing is asked of the source.
Fairness ==
    /\ WF_vars(CollectorStep)
    /\ WF_vars(Reflect) /\ WF_vars(Aggregate) /\ WF_vars(RestoreCopy)

FairSpec == Spec /\ Fairness

-----------------------------------------------------------------------------
\* The snapshot that BuildWorks accepts: it was collected once, ready or not.
Usable == record # None /\ record.obs # None

\* What BuildWorks reads is one collection as the collector published it,
\* workload, time and volumes, whatever was lost or failed on the way: no
\* field of an old record is combined with one of a new status (the retention
\* of AggregateStatus and the retention of failedStatus).
SnapshotIsOneCollection ==
    Usable => \E i \in DOMAIN collected : collected[i].obs = record.obs

\* A collection covers the claims of the StatefulSet that it read at its
\* beginning, every ordinal of every template and every standalone claim, though the
\* StatefulSet may have been scaled while it went through them.
CollectionComplete ==
    \A i \in DOMAIN collected :
        LET c == collected[i]
        IN {x \in Claims : c.obs.volumes[x] # None} = Generated(c.of) \cup Explicit

\* Each volume of a collection and its claim were bound to each other, though
\* they are read one after the other while claims and volumes are remade under
\* the same names (the claimRef check of collectVolume).
VolumesWereBound ==
    \A i \in DOMAIN collected :
        \A c \in Claims :
            LET e == collected[i].obs.volumes[c]
            IN e # None => <<c, e.uid, e.volume, e.inc>> \in bonds

\* The snapshot on the control plane only goes forward: a failed collection, a
\* member that is away, or a copy made anew without its status neither empties
\* it nor brings an earlier one back.
SnapshotAdvances ==
    [][Usable => Usable' /\ record'.obs.at >= record.obs.at]_vars

\* Every claim the StatefulSet uses is bound.
Healthy ==
    /\ sts.replicas > 0
    /\ \A c \in Generated(sts) \cup Explicit :
        /\ pvc[c] # None
        /\ pvc[c].volume # None
        /\ RefersTo(pvc[c].volume, c, pvc[c].uid)

\* The snapshot shows the source as it is.
Exact ==
    /\ Healthy
    /\ Usable /\ record.ready
    /\ record.obs.workload = sts.uid
    /\ record.obs.volumes =
         [c \in Claims |->
            IF c \in Generated(sts) \cup Explicit
            THEN [uid |-> pvc[c].uid, volume |-> pvc[c].volume, inc |-> pv[pvc[c].volume].inc,
                  standalone |-> c \in StandaloneClaims(sts)]
            ELSE None]

\* Once the source stays up and is left alone, the snapshot shows it as it is
\* for good: a collection that mixed two moments does not last.
QuietSourceReflected == <>[]Healthy => <>[]Exact

\* What volumeclaims.Standalone says of the collector (standalone.go:26): an
\* explicit alias of a generated claim is collected with the templates.
AliasesCollected ==
    \A i \in DOMAIN collected :
        \A c \in Explicit \cap Generated(collected[i].of) : collected[i].obs.volumes[c] # None
=============================================================================
