------------------------------ MODULE Discovery ------------------------------
(***************************************************************************)
(* MetadataDiscovery.Reconcile for one ResourceBinding: a PVMetadata for   *)
(* each cluster of the placement, with a PropagationPolicy that keeps it   *)
(* there.  StatefulSets and PVMetadata are read from the informer cache,   *)
(* which is late; the ResourceBinding and the policies, unstructured, are  *)
(* read from the API server.  One worker, one call per action.             *)
(***************************************************************************)
EXTENDS Naturals, SequencesExt

CONSTANTS
    Cluster,       \* member clusters
    Placements,    \* the spec.clusters that the ResourceBinding can have
    None,          \* an absent object or reconciliation
    MaxFaults,     \* bound: moves and deletions in a behaviour
    MaxIntrusions, \* bound: objects of others under a name of ours
    MaxInterrupts  \* bound: failed calls and restarts of the manager

ASSUME DiscoveryAssumption ==
    /\ Placements \subseteq Seq(Cluster)
    /\ None \notin Nat
    /\ MaxFaults \in Nat /\ MaxIntrusions \in Nat /\ MaxInterrupts \in Nat

VARIABLES
    placement,  \* spec.clusters of the ResourceBinding
    sts,        \* UID of the StatefulSet
    opted,      \* it is there and opted in
    seenSts, seenOpted, \* the same in the informer cache
    md,         \* the PVMetadata, by name
    seenMd,     \* the same in the informer cache
    pp,         \* the PropagationPolicies, by name
    minted,     \* UIDs given out to the PVMetadata of each name
    foreign,    \* history: the PVMetadata that somebody else made
    dpass,      \* the reconciliation under way, None between two of them
    faults, intrusions, interrupts

clusterVars == <<placement, sts, opted>>
cacheVars   == <<seenSts, seenOpted, seenMd>>
metaVars    == <<md, minted, foreign>>
boundVars   == <<faults, intrusions, interrupts>>
vars        == <<clusterVars, cacheVars, metaVars, pp, dpass, boundVars>>

UID == Nat \ {0}

\* stableName of the StatefulSet's UID and the cluster.
Name == (1..(MaxFaults + 1)) \X Cluster

\* own: its label and its spec are those that discovery writes.
Metadata == [uid : UID, own : BOOLEAN]

\* owner: UID of the PVMetadata that controls it; cluster: its one affinity.
Policy == [owner : UID, cluster : Cluster]

DiscoveryPass ==
    [pc : {"set", "metadata", "create", "reread", "policy", "create policy"},
     todo : Seq(Cluster), of : UID \cup {None}, owner : UID \cup {None}]

TypeOK ==
    /\ placement \in Placements
    /\ sts \in UID /\ seenSts \in UID
    /\ opted \in BOOLEAN /\ seenOpted \in BOOLEAN
    /\ md \in [Name -> Metadata \cup {None}]
    /\ seenMd \in [Name -> Metadata \cup {None}]
    /\ pp \in [Name -> Policy \cup {None}]
    /\ minted \in [Name -> Nat]
    /\ foreign \subseteq Name \X UID
    /\ dpass \in DiscoveryPass \cup {None}
    /\ dpass # None => (dpass.pc \in {"policy", "create policy"}) = (dpass.owner # None)
    /\ faults \in 0..MaxFaults
    /\ intrusions \in 0..MaxIntrusions
    /\ interrupts \in 0..MaxInterrupts

Init ==
    /\ placement \in Placements
    /\ sts = 1 /\ seenSts = 1
    /\ opted \in BOOLEAN /\ seenOpted = opted
    /\ md = [n \in Name |-> None]
    /\ seenMd = md
    /\ pp = [n \in Name |-> None]
    /\ minted = [n \in Name |-> 0]
    /\ foreign = {}
    /\ dpass = None
    /\ faults = 0 /\ intrusions = 0 /\ interrupts = 0

-----------------------------------------------------------------------------
(* MetadataDiscovery.Reconcile                                             *)

\* The ResourceBinding is read; after the poll interval, or at once on an
\* error or a change.
DStart ==
    /\ dpass = None
    /\ dpass' = [pc |-> "set", todo |-> placement, of |-> None, owner |-> None]

At(pc) == dpass # None /\ dpass.pc = pc

DReadSet ==
    /\ At("set")
    /\ seenOpted
    /\ dpass' = [dpass EXCEPT !.pc = "metadata", !.of = seenSts]

\* There is no StatefulSet, or it is not opted in.
DNoSet ==
    /\ At("set")
    /\ ~seenOpted
    /\ dpass' = None

DName == <<dpass.of, Head(dpass.todo)>>

\* On to the next cluster.
Proceed == dpass' = [dpass EXCEPT !.pc = "metadata", !.todo = Tail(@), !.owner = None]

Abort == dpass' = None

DMissMetadata ==
    /\ At("metadata")
    /\ dpass.todo # <<>>
    /\ seenMd[DName] = None
    /\ dpass' = [dpass EXCEPT !.pc = "create"]

\* One that exists already is no error.
DCreateMetadata ==
    /\ At("create")
    /\ IF md[DName] = None
       THEN /\ md' = [md EXCEPT ![DName] = [uid |-> minted[DName] + 1, own |-> TRUE]]
            /\ minted' = [minted EXCEPT ![DName] = @ + 1]
       ELSE UNCHANGED <<md, minted>>
    /\ dpass' = [dpass EXCEPT !.pc = "reread"]
    /\ UNCHANGED pp

\* Mutant: the error of the second read is dropped.
DMissAgainLoose ==
    /\ At("reread")
    /\ seenMd[DName] = None
    /\ dpass' = [dpass EXCEPT !.pc = "policy"]

\* The cache does not have it yet.
DMissAgain ==
    /\ At("reread")
    /\ seenMd[DName] = None
    /\ Abort

\* Mutant: whoever made it.
OurMetadataAny(m) == TRUE

OurMetadata(m) == m.own

\* Mutant: a PVMetadata that exists has its policy.
DCheckMetadataAlone ==
    /\ \/ At("metadata") /\ dpass.todo # <<>>
       \/ At("reread")
    /\ seenMd[DName] # None
    /\ IF ~OurMetadata(seenMd[DName]) THEN Abort
       ELSE IF dpass.pc = "metadata" THEN Proceed
       ELSE dpass' = [dpass EXCEPT !.pc = "policy", !.owner = seenMd[DName].uid]

DCheckMetadata ==
    /\ \/ At("metadata") /\ dpass.todo # <<>>
       \/ At("reread")
    /\ seenMd[DName] # None
    /\ IF OurMetadata(seenMd[DName])
       THEN dpass' = [dpass EXCEPT !.pc = "policy", !.owner = seenMd[DName].uid]
       ELSE Abort

\* A policy of another owner, or for another cluster, is left alone and ends
\* the pass.
DCheckPolicy ==
    /\ At("policy")
    /\ IF pp[DName] = None THEN dpass' = [dpass EXCEPT !.pc = "create policy"]
       ELSE IF pp[DName] = [owner |-> dpass.owner, cluster |-> Head(dpass.todo)] THEN Proceed
       ELSE Abort

\* One that exists already is no error, and is not looked at.
DCreatePolicy ==
    /\ At("create policy")
    /\ pp' = IF pp[DName] = None
             THEN [pp EXCEPT ![DName] = [owner |-> dpass.owner, cluster |-> Head(dpass.todo)]]
             ELSE pp
    /\ Proceed
    /\ UNCHANGED <<md, minted>>

DFinish ==
    /\ At("metadata")
    /\ dpass.todo = <<>>
    /\ dpass' = None

DRead ==
    /\ \/ DStart \/ DReadSet \/ DNoSet \/ DMissMetadata \/ DMissAgain
       \/ DCheckMetadata \/ DCheckPolicy \/ DFinish
    /\ UNCHANGED <<md, minted, pp>>

DiscoveryStep ==
    /\ DRead \/ DCreateMetadata \/ DCreatePolicy
    /\ UNCHANGED <<clusterVars, cacheVars, foreign, boundVars>>

\* A call fails, or the manager restarts and lists its cache anew.
Interrupt ==
    /\ interrupts < MaxInterrupts
    /\ interrupts' = interrupts + 1
    /\ dpass' = None
    /\ \/ UNCHANGED cacheVars
       \/ seenSts' = sts /\ seenOpted' = opted /\ seenMd' = md
    /\ UNCHANGED <<clusterVars, metaVars, pp, faults, intrusions>>

-----------------------------------------------------------------------------
(* The watch, the garbage collector, users and the scheduler.              *)

DeliverSet ==
    /\ <<seenSts, seenOpted>> # <<sts, opted>>
    /\ seenSts' = sts /\ seenOpted' = opted
    /\ UNCHANGED <<clusterVars, seenMd, metaVars, pp, dpass, boundVars>>

Deliver(n) ==
    /\ seenMd[n] # md[n]
    /\ seenMd' = [seenMd EXCEPT ![n] = md[n]]
    /\ UNCHANGED <<clusterVars, seenSts, seenOpted, metaVars, pp, dpass, boundVars>>

\* Karmada takes the PVMetadata that has the policy's name to the policy's
\* cluster: the selector has no UID.
Dispatched(n) == pp[n] # None /\ md[n] # None

\* The policy's owner is gone, though another object may have its name.
Orphaned(n) == pp[n] # None /\ ~(md[n] # None /\ md[n].uid = pp[n].owner)

Collect(n) ==
    /\ Orphaned(n)
    /\ pp' = [pp EXCEPT ![n] = None]
    /\ UNCHANGED <<clusterVars, cacheVars, metaVars, dpass, boundVars>>

\* The workload moves, by failover or by the scheduler.
Move ==
    /\ placement' \in Placements \ {placement}
    /\ UNCHANGED <<sts, opted, metaVars, pp>>

\* The StatefulSet is deleted and made again.
RemakeSet == sts' = sts + 1 /\ UNCHANGED <<placement, opted, metaVars, pp>>

\* Its label is taken off or put on.
OptInOrOut == opted' = ~opted /\ UNCHANGED <<placement, sts, metaVars, pp>>

DeleteMetadata(n) ==
    /\ md[n] # None
    /\ md' = [md EXCEPT ![n] = None]
    /\ UNCHANGED <<clusterVars, minted, foreign, pp>>

DeletePolicy(n) ==
    /\ pp[n] # None
    /\ pp' = [pp EXCEPT ![n] = None]
    /\ UNCHANGED <<clusterVars, metaVars>>

\* Somebody makes a PVMetadata of a name of ours, for something else.
UsurpName(n) ==
    /\ md[n] = None
    /\ md' = [md EXCEPT ![n] = [uid |-> minted[n] + 1, own |-> FALSE]]
    /\ minted' = [minted EXCEPT ![n] = @ + 1]
    /\ foreign' = foreign \cup {<<n, minted[n] + 1>>}
    /\ UNCHANGED <<clusterVars, pp>>

\* Somebody points a policy to another cluster.
Retarget(n) ==
    /\ pp[n] # None
    /\ \E c \in Cluster \ {pp[n].cluster} :
        pp' = [pp EXCEPT ![n] = [owner |-> @.owner, cluster |-> c]]
    /\ UNCHANGED <<clusterVars, metaVars>>

Disturb ==
    /\ faults < MaxFaults
    /\ faults' = faults + 1
    /\ Move \/ RemakeSet \/ OptInOrOut \/ \E n \in Name : DeleteMetadata(n) \/ DeletePolicy(n)
    /\ UNCHANGED <<cacheVars, dpass, intrusions, interrupts>>

Intrude ==
    /\ intrusions < MaxIntrusions
    /\ intrusions' = intrusions + 1
    /\ \E n \in Name : UsurpName(n) \/ Retarget(n)
    /\ UNCHANGED <<cacheVars, dpass, faults, interrupts>>

Surroundings ==
    \/ DeliverSet \/ \E n \in Name : Deliver(n) \/ Collect(n)
    \/ Disturb \/ Intrude

Next == DiscoveryStep \/ Interrupt \/ Surroundings

Spec == Init /\ [][Next]_vars

\* The queue brings the reconciler back and lets it run to the end; the watch
\* and the garbage collector get to every object.
Fairness ==
    /\ WF_vars(DiscoveryStep)
    /\ WF_vars(DeliverSet)
    /\ \A n \in Name : WF_vars(Deliver(n)) /\ WF_vars(Collect(n))

FairSpec == Spec /\ Fairness

-----------------------------------------------------------------------------
\* What somebody else put under a name of ours is on its way to a member.
StrangerDispatched(n) == Dispatched(n) /\ ~md[n].own

\* No policy has a stranger for its owner, whatever the cache shows when the name
\* changes hands (the ownership check before the policy).  A policy made for an
\* object of ours, from a late copy perhaps, does dispatch the stranger that has
\* the name by now; but only as an orphan, which the garbage collector takes.
StrangersByOrphansOnly ==
    \A n \in Name : StrangerDispatched(n) => Orphaned(n)

\* Once nobody puts strangers under names of ours any more, none is dispatched in
\* the end: the policies that did so are collected, and no pass makes another one
\* under the name from a cache that shows the former object.
StrangersLeftAlone == <>[](\A n \in Name : ~StrangerDispatched(n))

\* The cluster is observed: the PVMetadata for the StatefulSet of now is
\* there, and its policy belongs to this very object.
Served(c) ==
    LET n == <<sts, c>>
    IN /\ md[n] # None /\ md[n].own
       /\ pp[n] = [owner |-> md[n].uid, cluster |-> c]

\* Under the name for the cluster stands something that discovery leaves alone.
Disputed(c) ==
    LET n == <<sts, c>>
    IN \/ md[n] # None /\ ~md[n].own
       \/ pp[n] # None /\ pp[n].cluster # c

\* Neither at the cluster nor at one before it in the placement is a conflict.
Reached(c) ==
    \E i \in DOMAIN placement :
        placement[i] = c /\ \A j \in 1..i : ~Disputed(placement[j])

\* A cluster that stays in the placement of a StatefulSet that stays opted in is
\* observed for good, though the cache misses what was just made and still shows
\* what was deleted, and policies made for an owner of the past are collected.
\* A conflict ends the pass (discovery.go:78): it costs its own cluster and those
\* after it, of which nothing is said, but none before it.
EveryClusterServed ==
    \A c \in Cluster : <>[](opted /\ Reached(c)) => <>[]Served(c)
=============================================================================
