----------------------------- MODULE PlanBuilder -----------------------------
(***************************************************************************)
(* From a snapshot to a plan: the checks of a request's mappings by        *)
(* validateBinding and BuildWorks, the Works that BuildWorks returns, and  *)
(* the planHash that a request records before its first Work is created.   *)
(* Every pass builds the plan anew, from what late caches show of the      *)
(* snapshot and of the StatefulSet when it reads them; both may change     *)
(* before it creates the Works.                                            *)
(***************************************************************************)
EXTENDS ClaimLanes, Functions

CONSTANTS
    Names,      \* the claims that appear in snapshots and requests
    Requests,   \* the spec.volumes to consider, as sets of mappings
    Scales,     \* the <<start, replicas>> that the StatefulSet can have
    Workload,   \* UIDs of the StatefulSet on the source
    Identity,   \* a claim's UID and the name of its volume
    Content,    \* a volume's spec, with that of its claim when standalone
    Sources,    \* what there is to collect: the workload and the claims' volumes
    Portable,   \* NFS, without node affinity, bound to its claim: can be staged
    Claimable,  \* portable, and the claim can be staged with its volume
    None,       \* no snapshot, hash or volume
    MaxChanges  \* bound: changes of the source in a behaviour

Mapping == [from : Names, to : Names]

ASSUME BuilderAssumption ==
    /\ Names \subseteq Claim
    /\ Requests \subseteq SUBSET Mapping
    /\ Scales \subseteq (0..MaxInt) \X (0..MaxInt)
    /\ Portable \subseteq Content /\ Claimable \subseteq Portable
    /\ Sources \subseteq [workload : Workload, volume : [Names -> Identity \X Content]]
    /\ None \notin Workload \cup Identity \cup Content
    /\ MaxChanges \in Nat

VARIABLES
    request,  \* the mappings of a PVMigration; its spec is immutable
    sts,      \* the StatefulSet on the control plane
    snapshot, \* the usable item of the source in status.clusters
    hash,     \* status.planHash
    seenSts, seenSnapshot, seenHash, \* the same three as the caches show them
    works,    \* the Works created so far
    pc,       \* what the pass does next
    base,     \* planHash in the copy of the request that the pass works from
    md,       \* the snapshot that it read
    left,     \* the Works of its plan that it has not come to
    first,    \* history: the snapshot that the recorded plan was built from
    shownSets, shownSnapshots, \* history: shown by the caches since it started
    changes

source == <<sts, snapshot>>
caches == <<seenSts, seenSnapshot, seenHash>>
record == <<hash, first>>
pass == <<pc, base, md, left>>
shown == <<shownSets, shownSnapshots>>
vars == <<request, source, caches, record, works, pass, shown, changes>>

\* A volume of a snapshot.
Item == [id : Identity, content : Content, standalone : BOOLEAN]

SourceSnapshot == [workload : Workload, volumes : [Names -> Item \cup {None}]]

\* A Work carries one manifest, for the target claim that the volume is for:
\* the volume, or with a standalone one the claim.
WorkSpec == [claim : Names, kind : {"pv"}, content : Portable] \cup
            [claim : Names, kind : {"pvc"}, content : Claimable]

\* The snapshots that a collection of a StatefulSet in this state can give.
Collections(s) ==
    {[workload |-> src.workload,
      volumes |-> [c \in Names |->
         IF c \in CollectedClaims(s)
         THEN [id |-> src.volume[c][1], content |-> src.volume[c][2],
               standalone |-> c \in StandaloneClaims(s)]
         ELSE None]] : src \in Sources}

-----------------------------------------------------------------------------
(* validateBinding: the target claims against the StatefulSet that it read. *)

Marked(c, n) == n.volumes[c] # None /\ n.volumes[c].standalone

\* The mappings that are not of standalone claims.
Moved(req, n) == {m \in req : ~Marked(m.from, n)}

\* Mutant: the claim need not be standalone any more.
StandaloneAsMarked(req, s, n) ==
    \A m \in req \ Moved(req, n) : m.to = m.from

StandaloneStays(req, s, n) ==
    \A m \in req \ Moved(req, n) : m.from \in StandaloneClaims(s) /\ m.to = m.from

\* A target is a claim that a template generates for some ordinal, and all the
\* claims of this ordinal are targets.
OrdinalsComplete(req, n) ==
    \A m \in Moved(req, n) :
        /\ m.to \in Template \X Nat
        /\ \A t \in Template : \E p \in Moved(req, n) : p.to = <<t, m.to[2]>>

TargetsValid(req, s, n) == StandaloneStays(req, s, n) /\ OrdinalsComplete(req, n)

-----------------------------------------------------------------------------
(* BuildWorks                                                              *)

OneToOne(req) ==
    \A m, p \in req : m.from = p.from \/ m.to = p.to => m = p

\* A claim of a template goes to a claim of that template.
SameLane(m, n) ==
    IF Marked(m.from, n) THEN m.to = m.from
    ELSE m.from \in Template \X Nat /\ m.to \in {m.from[1]} \X Nat

\* Mutant: the ordinals are not compared.
AnySourceOrdinal(req, n) == TRUE

\* All volumes for a target ordinal come from one source ordinal.
OneSourceOrdinal(req, n) ==
    \A m, p \in Moved(req, n) : m.to[2] = p.to[2] => m.from[2] = p.from[2]

\* The volume can be staged: NFS, without node affinity, bound to its claim.
PortableVolume(v) == v.content \in Portable

\* Mutant: the claim of a standalone volume is not looked at.
StandaloneClaimAny(v) == TRUE

\* standaloneClaim: the claim of a standalone volume can be staged with it.
StandaloneClaim(v) == v.standalone => v.content \in Claimable

Buildable(req, n) ==
    /\ req # {}
    /\ n # None
    /\ OneToOne(req)
    /\ \A m \in req :
        /\ n.volumes[m.from] # None
        /\ SameLane(m, n)
        /\ PortableVolume(n.volumes[m.from])
        /\ StandaloneClaim(n.volumes[m.from])
    /\ OneSourceOrdinal(req, n)

\* A Work with the volume, and one with the claim when it is standalone.
BuildWorks(req, n) ==
    UNION {{[claim |-> m.to, kind |-> kind, content |-> n.volumes[m.from].content] :
              kind \in IF Marked(m.from, n) THEN {"pv", "pvc"} ELSE {"pv"}} : m \in req}

-----------------------------------------------------------------------------
\* Mutant: the specs of the Works are left out.
PlanHashOfSource(req, n) ==
    <<n.workload, [m \in req |-> n.volumes[m.from].id]>>

\* Mutant: the identities of the source are left out.
PlanHashOfWorks(req, n) == <<BuildWorks(req, n)>>

\* planHash: who the source is, and what the Works say.  The other claims of
\* the snapshot and the time of the collection do not count.
PlanHash(req, n) ==
    <<n.workload, [m \in req |-> n.volumes[m.from].id], BuildWorks(req, n)>>

Accepted(s, n) == Buildable(request, n) /\ TargetsValid(request, s, n)

-----------------------------------------------------------------------------
TypeOK ==
    /\ request \in Requests
    /\ {sts, seenSts} \cup shownSets \subseteq StatefulSet
    /\ {snapshot, seenSnapshot, md, first} \cup shownSnapshots
         \subseteq SourceSnapshot \cup {None}
    /\ {seenHash, base} \subseteq {None, hash}
    /\ hash # None => first # None
    /\ works \cup left \subseteq WorkSpec
    /\ pc \in {"idle", "metadata", "set", "plan", "works"}
    /\ changes \in 0..MaxChanges

Init ==
    /\ request \in Requests
    /\ \E sc \in Scales : sts = [uid |-> 1, start |-> sc[1], replicas |-> sc[2]]
    /\ snapshot \in Collections(sts) \cup {None}
    /\ seenSts = sts /\ seenSnapshot = snapshot
    /\ hash = None /\ seenHash = None /\ first = None
    /\ works = {}
    /\ pc = "idle" /\ base = None /\ md = None /\ left = {}
    /\ shownSets = {} /\ shownSnapshots = {}
    /\ changes = 0

-----------------------------------------------------------------------------
(* A pass of Reconcile, from one API call to the next.                     *)

\* It reads the request from the cache.
PStart ==
    /\ pc = "idle"
    /\ pc' = "metadata"
    /\ base' = seenHash
    /\ shownSets' = {seenSts} /\ shownSnapshots' = {seenSnapshot}
    /\ UNCHANGED <<request, source, caches, record, works, md, left, changes>>

\* It reads the PVMetadata from the cache.
PReadMetadata ==
    /\ pc = "metadata"
    /\ pc' = "set"
    /\ md' = seenSnapshot
    /\ UNCHANGED <<request, source, caches, record, works, base, left, shown, changes>>

\* It reads the StatefulSet from the cache, and accepts the request.  Without a
\* recorded plan it is to record this one, else this one must be on record.
PReadSet ==
    /\ pc = "set"
    /\ Accepted(seenSts, md)
    /\ \/ base = None /\ pc' = "plan" /\ UNCHANGED left
       \/ base # None /\ base = PlanHash(request, md)
          /\ pc' = "works" /\ left' = BuildWorks(request, md)
    /\ UNCHANGED <<request, source, caches, record, works, base, md, shown, changes>>

Rest ==
    /\ pc' = "idle" /\ base' = None /\ md' = None /\ left' = {}
    /\ shownSets' = {} /\ shownSnapshots' = {}

\* It records the plan and ends; the patch needs the request as it was read.
RecordPlan ==
    /\ pc = "plan"
    /\ base = hash
    /\ hash' = PlanHash(request, md)
    /\ first' = md
    /\ Rest
    /\ UNCHANGED <<request, source, caches, works, changes>>

\* It comes to a Work, and creates it when there is none of that name.
CreateWork ==
    /\ pc = "works"
    /\ \E w \in left :
        /\ left' = left \ {w}
        /\ works' = IF \E v \in works : v.claim = w.claim /\ v.kind = w.kind
                    THEN works ELSE works \cup {w}
    /\ UNCHANGED <<request, source, caches, record, pc, base, md, shown, changes>>

\* It ends: the request refused, every Work seen to, a call failed (a conflict
\* of the patch, a Work of another content), or the process restarted.
PEnd ==
    /\ pc # "idle"
    /\ Rest
    /\ UNCHANGED <<request, source, caches, record, works, changes>>

-----------------------------------------------------------------------------
(* The source, and the watches that feed the caches.                       *)

Change == changes < MaxChanges /\ changes' = changes + 1

\* The StatefulSet is scaled.
Scale ==
    /\ Change
    /\ \E sc \in Scales :
        /\ sc # <<sts.start, sts.replicas>>
        /\ sts' = [sts EXCEPT !.start = sc[1], !.replicas = sc[2]]
    /\ UNCHANGED <<request, snapshot, caches, record, works, pass, shown>>

\* Another collection of the source arrives.
Collect ==
    /\ Change
    /\ snapshot' \in Collections(sts) \ {snapshot}
    /\ UNCHANGED <<request, sts, caches, record, works, pass, shown>>

DeliverSet ==
    /\ seenSts # sts
    /\ seenSts' = sts
    /\ shownSets' = IF pc = "idle" THEN {} ELSE shownSets \cup {sts}
    /\ UNCHANGED <<request, source, seenSnapshot, seenHash, record, works, pass,
                   shownSnapshots, changes>>

DeliverSnapshot ==
    /\ seenSnapshot # snapshot
    /\ seenSnapshot' = snapshot
    /\ shownSnapshots' = IF pc = "idle" THEN {} ELSE shownSnapshots \cup {snapshot}
    /\ UNCHANGED <<request, source, seenSts, seenHash, record, works, pass,
                   shownSets, changes>>

DeliverRecord ==
    /\ seenHash # hash
    /\ seenHash' = hash
    /\ UNCHANGED <<request, source, seenSts, seenSnapshot, record, works, pass, shown, changes>>

Next ==
    \/ PStart \/ PReadMetadata \/ PReadSet \/ RecordPlan \/ CreateWork \/ PEnd
    \/ Scale \/ Collect \/ DeliverSet \/ DeliverSnapshot \/ DeliverRecord

Spec == Init /\ [][Next]_vars

-----------------------------------------------------------------------------
TargetOrdinals(req, n) == {m.to[2] : m \in Moved(req, n)}

SourceOrdinals(req, n) == {m.from[2] : m \in Moved(req, n)}

\* Each target ordinal o gets the volumes of the source ordinal f[o].
MovedBy(f, req, n) ==
    /\ IsInjective(f)
    /\ Moved(req, n) = {[from |-> <<t, f[o]>>, to |-> <<t, o>>] :
                           t \in Template, o \in TargetOrdinals(req, n)}

\* A recorded plan moves whole ordinals: every target ordinal gets all of its
\* volumes, one per template, from one source ordinal, and no two of them get
\* those of the same one.  The check of validateBinding, those of BuildWorks
\* and the one-to-one check are needed together.
MovesWholeOrdinals(req, n) ==
    \E f \in [TargetOrdinals(req, n) -> SourceOrdinals(req, n)] : MovedBy(f, req, n)

OrdinalsMoveWhole == hash # None => MovesWholeOrdinals(request, first)

\* All Works ever created are those of the recorded plan, though each pass builds
\* the plan from what the caches show it, and a pass that stops after some of the
\* Works may be followed by one that sees other volumes under the same names (the
\* changed NFS path of docs/validation.md:41).
WorksOfOnePlan == works # {} => works \subseteq BuildWorks(request, first)

SameSource(n, f) ==
    /\ n # None
    /\ n.workload = f.workload
    /\ \A m \in request : n.volumes[m.from].id = f.volumes[m.from].id

\* A pass creates a Work only when, since it started, the cache has shown the
\* workload, the claims and the volumes that the plan was recorded for, not
\* others of their names.  They may be others by the time of the Create, and on
\* the server already when the cache is read: what planHash promises is that no
\* pass creates a Work which has seen nothing but another source.
SourceUnchanged ==
    [][works' # works => \E n \in shownSnapshots : SameSource(n, first)]_vars

\* A pass creates the Work with a standalone claim only when, since it started,
\* the cache has shown a StatefulSet none of whose templates generates the claim,
\* though one of them may have come to do so since the snapshot was collected
\* and the plan recorded.  The StatefulSet may be scaled between the check of
\* validateBinding and the Create, which goes ahead then.
StandaloneClaimsFree ==
    [][\A w \in works' \ works :
         w.kind = "pvc" => \E s \in shownSets : w.claim \in Explicit \ Generated(s)]_vars
=============================================================================
