----------------------------- MODULE PlanProofs -----------------------------
(***************************************************************************)
(* Theorems about PlanBuilder, for all templates, claims, requests,        *)
(* scales, volumes and any number of changes between the passes.           *)
(***************************************************************************)
EXTENDS PlanBuilder, TLAPS

-----------------------------------------------------------------------------
(* Lemmas about BuildWorks.                                                *)

\* A mapping that is not of a standalone claim keeps its template and takes an
\* ordinal to an ordinal.
LEMMA MovedLane ==
  ASSUME NEW req \in SUBSET Mapping, NEW n, Buildable(req, n), NEW m \in Moved(req, n)
  PROVE  /\ m \in req
         /\ m.from = <<m.to[1], m.from[2]>> /\ m.from[2] \in Nat
         /\ m.to = <<m.to[1], m.to[2]>> /\ m.to[1] \in Template /\ m.to[2] \in Nat
  <1>1. m \in req /\ ~Marked(m.from, n)
    BY DEF Moved
  <1>2. SameLane(m, n)
    BY <1>1 DEF Buildable
  <1>3. m.from \in Template \X Nat /\ m.to \in {m.from[1]} \X Nat
    BY <1>1, <1>2 DEF SameLane
  <1>4. QED
    BY <1>1, <1>3

\* A mapping is the pair of its two claims.
LEMMA MappingIsPair ==
  ASSUME NEW req \in SUBSET Mapping, NEW m \in req
  PROVE  m = [from |-> m.from, to |-> m.to]
  BY DEF Mapping

\* The volumes of one template for two target ordinals come from two source
\* ordinals, and those for one target ordinal from one: the ordinals are moved
\* as wholes.
LEMMA WholeOrdinals ==
  ASSUME NEW req \in SUBSET Mapping, NEW n, Buildable(req, n), OrdinalsComplete(req, n)
  PROVE  MovesWholeOrdinals(req, n)
  <1> DEFINE moved   == Moved(req, n)
             targets == TargetOrdinals(req, n)
             sources == SourceOrdinals(req, n)
             f == [o \in targets |-> CHOOSE s \in sources :
                     \E m \in moved : m.to[2] = o /\ m.from[2] = s]
  <1>1. \A m \in moved : f[m.to[2]] = m.from[2]
    <2> SUFFICES ASSUME NEW m \in moved
                 PROVE  f[m.to[2]] = m.from[2]
      OBVIOUS
    <2>1. m.to[2] \in targets /\ m.from[2] \in sources
      BY DEF TargetOrdinals, SourceOrdinals
    <2>2. \E p \in moved : p.to[2] = m.to[2] /\ p.from[2] = f[m.to[2]]
      BY <2>1
    <2>3. QED
      BY <2>2 DEF Buildable, OneSourceOrdinal
  <1>2. f \in [targets -> sources]
    <2> SUFFICES ASSUME NEW m \in moved
                 PROVE  f[m.to[2]] \in sources
      BY Zenon DEF TargetOrdinals
    <2>1. QED
      BY <1>1 DEF SourceOrdinals
  <1> HIDE DEF f
  <1>3. \A m \in moved : \A t \in Template :
          \E p \in moved : p.to = <<t, m.to[2]>> /\ p.from = <<t, f[m.to[2]]>>
    <2> SUFFICES ASSUME NEW m \in moved, NEW t \in Template
                 PROVE  \E p \in moved : p.to = <<t, m.to[2]>> /\ p.from = <<t, f[m.to[2]]>>
      OBVIOUS
    <2>1. PICK p \in moved : p.to = <<t, m.to[2]>>
      BY DEF OrdinalsComplete
    <2>2. p.to[1] = t /\ p.to[2] = m.to[2]
      BY <2>1
    <2>3. p.from = <<p.to[1], p.from[2]>> /\ p.from[2] = f[p.to[2]]
      BY <1>1, MovedLane
    <2>4. QED
      BY <2>1, <2>2, <2>3
  <1>4. IsInjective(f)
    <2> SUFFICES ASSUME NEW m \in moved, NEW p \in moved, f[m.to[2]] = f[p.to[2]]
                 PROVE  m.to[2] = p.to[2]
      BY <1>2 DEF IsInjective, TargetOrdinals
    <2>1. m.to[1] \in Template
      BY MovedLane
    <2>2. PICK r \in moved : r.to = <<m.to[1], p.to[2]>> /\ r.from = <<m.to[1], f[p.to[2]]>>
      BY <1>3, <2>1
    <2>3. m.from = <<m.to[1], f[m.to[2]]>>
      BY <1>1, MovedLane
    <2>4. m.from = r.from
      BY <2>2, <2>3
    <2>5. m = r
      BY <2>4, MovedLane DEF Buildable, OneToOne
    <2>6. QED
      BY <2>2, <2>5
  <1>5. moved = {[from |-> <<t, f[o]>>, to |-> <<t, o>>] : t \in Template, o \in targets}
    <2>1. ASSUME NEW m \in moved
          PROVE  \E t \in Template, o \in targets : m = [from |-> <<t, f[o]>>, to |-> <<t, o>>]
      <3>1. m = [from |-> m.from, to |-> m.to]
        BY MappingIsPair, MovedLane
      <3>2. m.from = <<m.to[1], f[m.to[2]]>> /\ m.to = <<m.to[1], m.to[2]>> /\ m.to[1] \in Template
        BY <1>1, MovedLane
      <3>3. m.to[2] \in targets
        BY DEF TargetOrdinals
      <3>4. QED
        BY <3>1, <3>2, <3>3
    <2>2. ASSUME NEW t \in Template, NEW o \in targets
          PROVE  [from |-> <<t, f[o]>>, to |-> <<t, o>>] \in moved
      <3>1. PICK p \in moved : p.to = <<t, o>> /\ p.from = <<t, f[o]>>
        BY <1>3 DEF TargetOrdinals
      <3>2. p = [from |-> p.from, to |-> p.to]
        BY MappingIsPair, MovedLane
      <3>3. QED
        BY <3>1, <3>2
    <2>3. QED
      BY <2>1, <2>2
  <1>6. MovedBy(f, req, n)
    BY <1>4, <1>5, SMT DEF MovedBy
  <1>7. QED
    BY <1>2, <1>6, Zenon DEF MovesWholeOrdinals

\* A Work carries what can be staged.
LEMMA WorksTyped ==
  ASSUME NEW req \in SUBSET Mapping, NEW n \in SourceSnapshot, Buildable(req, n)
  PROVE  BuildWorks(req, n) \subseteq WorkSpec
  <1> SUFFICES ASSUME NEW m \in req,
                      NEW k \in IF Marked(m.from, n) THEN {"pv", "pvc"} ELSE {"pv"}
               PROVE  [claim |-> m.to, kind |-> k, content |-> n.volumes[m.from].content]
                        \in WorkSpec
    BY DEF BuildWorks
  <1>1. m.to \in Names
    BY DEF Mapping
  <1>2. n.volumes[m.from].content \in Portable
    BY DEF Buildable, PortableVolume
  <1>3. k = "pvc" => n.volumes[m.from].content \in Claimable
    BY DEF Buildable, StandaloneClaim, Marked
  <1>4. QED
    BY <1>1, <1>2, <1>3 DEF WorkSpec

\* A collection is a snapshot.
LEMMA CollectionTyped ==
  ASSUME NEW s \in StatefulSet
  PROVE  Collections(s) \subseteq SourceSnapshot
  <1> SUFFICES ASSUME NEW src \in Sources,
                      NEW c \in Names, c \in CollectedClaims(s)
               PROVE  /\ src.workload \in Workload
                      /\ [id |-> src.volume[c][1], content |-> src.volume[c][2],
                          standalone |-> c \in StandaloneClaims(s)] \in Item
    <2>1. \A src \in Sources : src.workload \in Workload
      BY BuilderAssumption
    <2>2. QED
      BY <2>1 DEF Collections, SourceSnapshot
  <1>1. src.workload \in Workload /\ src.volume \in [Names -> Identity \X Content]
    BY BuilderAssumption
  <1>2. src.volume[c] \in Identity \X Content
    BY <1>1
  <1>3. QED
    BY <1>1, <1>2 DEF Item

-----------------------------------------------------------------------------
(* The inductive invariant.                                                *)

\* The plan on record was accepted, for the snapshot it was recorded from, and
\* no Work is older than the record.
PlanInv ==
    /\ hash = None => works = {}
    /\ hash # None =>
        /\ hash = PlanHash(request, first)
        /\ Buildable(request, first)
        /\ OrdinalsComplete(request, first)
        /\ works \subseteq BuildWorks(request, first)

\* A pass works with what the caches have shown it, and past the checks with a
\* plan that some StatefulSet and snapshot of these allow.
PassInv ==
    /\ pc # "idle" => seenSts \in shownSets /\ seenSnapshot \in shownSnapshots
    /\ pc \in {"set", "plan", "works"} => md \in shownSnapshots
    /\ pc \in {"plan", "works"} =>
        /\ Buildable(request, md)
        /\ OrdinalsComplete(request, md)
        /\ \E s \in shownSets : StandaloneStays(request, s, md)
    /\ pc = "plan" => base = None
    /\ pc = "works" =>
        /\ base # None
        /\ base = PlanHash(request, md)
        /\ left \subseteq BuildWorks(request, md)

\* When a Work is created, the plan of the pass is the plan on record.
LEMMA SamePlan ==
  ASSUME TypeOK, PlanInv, PassInv, pc = "works"
  PROVE  /\ SameSource(md, first)
         /\ BuildWorks(request, md) = BuildWorks(request, first)
  <1>1. base = hash /\ base # None /\ md # None
    BY DEF TypeOK, PassInv, Buildable
  <1>2. PlanHash(request, md) = PlanHash(request, first)
    BY <1>1 DEF PlanInv, PassInv
  <1>3. /\ md.workload = first.workload
        /\ [m \in request |-> md.volumes[m.from].id]
             = [m \in request |-> first.volumes[m.from].id]
        /\ BuildWorks(request, md) = BuildWorks(request, first)
    BY <1>2 DEF PlanHash
  <1>4. ASSUME NEW m \in request
        PROVE  md.volumes[m.from].id = first.volumes[m.from].id
    <2>1. [p \in request |-> md.volumes[p.from].id][m]
            = [p \in request |-> first.volumes[p.from].id][m]
      BY <1>3
    <2>2. QED
      BY <2>1
  <1>5. QED
    BY <1>1, <1>3, <1>4 DEF SameSource

\* A StatefulSet of some scale is one.
LEMMA ScaledTyped ==
  ASSUME NEW sc \in Scales
  PROVE  sc[1] \in 0..MaxInt /\ sc[2] \in 0..MaxInt
  BY BuilderAssumption

\* The invariant and the types hold at the beginning.
LEMMA PlanInit == Init => TypeOK /\ PlanInv /\ PassInv
  <1> SUFFICES ASSUME Init PROVE TypeOK /\ PlanInv /\ PassInv
    OBVIOUS
  <1>1. sts \in StatefulSet
    <2>1. PICK sc \in Scales : sts = [uid |-> 1, start |-> sc[1], replicas |-> sc[2]]
      BY DEF Init
    <2>2. QED
      BY <2>1, ScaledTyped DEF StatefulSet
  <1>2. snapshot \in SourceSnapshot \cup {None}
    BY <1>1, CollectionTyped DEF Init
  <1>3. TypeOK
    BY <1>1, <1>2, BuilderAssumption DEF Init, TypeOK
  <1>4. PlanInv /\ PassInv
    BY DEF Init, PlanInv, PassInv
  <1>5. QED
    BY <1>3, <1>4

\* The end of a pass leaves nothing of it.
LEMMA RestKeeps ==
  ASSUME Rest
  PROVE  /\ {base', md'} \subseteq {None} /\ left' = {} /\ pc' = "idle"
         /\ shownSets' = {} /\ shownSnapshots' = {}
         /\ PassInv'
  BY DEF Rest, PassInv

\* Every step keeps the types.
LEMMA TypeStep == TypeOK /\ PlanInv /\ PassInv /\ [Next]_vars => TypeOK'
  <1> SUFFICES ASSUME TypeOK, PlanInv, PassInv, [Next]_vars PROVE TypeOK'
    OBVIOUS
  <1> USE DEF source, caches, record, pass, shown
  <1>1. request \in SUBSET Mapping
    BY BuilderAssumption DEF TypeOK
  <1>2. CASE PStart
    BY <1>2 DEF PStart, TypeOK
  <1>3. CASE PReadMetadata
    BY <1>3 DEF PReadMetadata, TypeOK
  <1>4. CASE PReadSet
    <2>1. Buildable(request, md) /\ md # None
      BY <1>4 DEF PReadSet, Accepted, Buildable
    <2>2. md \in SourceSnapshot
      BY <2>1 DEF TypeOK
    <2>3. left' \subseteq WorkSpec
      BY <1>1, <1>4, <2>1, <2>2, WorksTyped DEF PReadSet, TypeOK
    <2>4. QED
      BY <1>4, <2>3 DEF PReadSet, TypeOK
  <1>5. CASE RecordPlan
    <2>1. hash = None /\ md # None /\ md \in SourceSnapshot \cup {None}
      BY <1>5 DEF RecordPlan, PassInv, Buildable, TypeOK
    <2>2. seenHash' = None
      BY <1>5, <2>1 DEF RecordPlan, TypeOK
    <2>3. QED
      BY <1>5, <2>1, <2>2, RestKeeps DEF RecordPlan, TypeOK
  <1>6. CASE CreateWork
    <2>1. left' \subseteq left /\ works' \subseteq works \cup left
      BY <1>6 DEF CreateWork
    <2>2. QED
      BY <1>6, <2>1 DEF CreateWork, TypeOK
  <1>7. CASE PEnd
    BY <1>7, RestKeeps DEF PEnd, TypeOK
  <1>8. CASE Scale
    <2>1. PICK sc \in Scales : sts' = [sts EXCEPT !.start = sc[1], !.replicas = sc[2]]
      BY <1>8 DEF Scale
    <2>2. sts' \in StatefulSet
      BY <2>1, ScaledTyped, Zenon DEF TypeOK, StatefulSet
    <2>3. changes' \in 0..MaxChanges
      BY <1>8, BuilderAssumption DEF Scale, Change, TypeOK
    <2>4. QED
      BY <1>8, <2>2, <2>3 DEF Scale, TypeOK
  <1>9. CASE Collect
    <2>1. snapshot' \in SourceSnapshot
      BY <1>9, CollectionTyped DEF Collect, TypeOK
    <2>2. changes' \in 0..MaxChanges
      BY <1>9, BuilderAssumption DEF Collect, Change, TypeOK
    <2>3. QED
      BY <1>9, <2>1, <2>2 DEF Collect, TypeOK
  <1>10. CASE DeliverSet
    BY <1>10 DEF DeliverSet, TypeOK
  <1>11. CASE DeliverSnapshot
    BY <1>11 DEF DeliverSnapshot, TypeOK
  <1>12. CASE DeliverRecord
    BY <1>12 DEF DeliverRecord, TypeOK
  <1>13. CASE UNCHANGED vars
    BY <1>13 DEF vars, TypeOK
  <1>14. QED
    BY <1>2, <1>3, <1>4, <1>5, <1>6, <1>7, <1>8, <1>9, <1>10, <1>11, <1>12, <1>13 DEF Next

\* Only the record and the creation of a Work touch the plan on record.
LEMMA PlanStep == TypeOK /\ PlanInv /\ PassInv /\ [Next]_vars => PlanInv'
  <1> SUFFICES ASSUME TypeOK, PlanInv, PassInv, [Next]_vars PROVE PlanInv'
    OBVIOUS
  <1>1. CASE RecordPlan
    <2>1. /\ hash = None /\ request' = request /\ works' = works
          /\ hash' = PlanHash(request, md) /\ first' = md
      BY <1>1 DEF RecordPlan, PassInv
    <2>2. Buildable(request, md) /\ OrdinalsComplete(request, md)
      BY <1>1 DEF RecordPlan, PassInv
    <2>3. QED
      BY <2>1, <2>2 DEF PlanInv
  <1>2. CASE CreateWork
    <2>1. /\ request' = request /\ hash' = hash /\ first' = first
          /\ works' \subseteq works \cup left
      BY <1>2 DEF CreateWork, record
    <2>2. left \subseteq BuildWorks(request, first) /\ hash # None
      BY <1>2, SamePlan DEF CreateWork, PassInv, TypeOK
    <2>3. QED
      BY <2>1, <2>2 DEF PlanInv
  <1>3. ASSUME UNCHANGED <<request, record, works>>
        PROVE  PlanInv'
    BY <1>3 DEF record, PlanInv
  <1>4. QED
    BY <1>1, <1>2, <1>3, Zenon DEF Next, PStart, PReadMetadata, PReadSet, PEnd, Scale, Collect,
       DeliverSet, DeliverSnapshot, DeliverRecord, vars

\* Every step of a pass, and every delivery, keeps what the pass knows.
LEMMA PassStep == TypeOK /\ PassInv /\ [Next]_vars => PassInv'
  <1> SUFFICES ASSUME TypeOK, PassInv, [Next]_vars PROVE PassInv'
    OBVIOUS
  <1> USE DEF source, caches, record, pass, shown
  <1>1. CASE PStart
    BY <1>1 DEF PStart, PassInv
  <1>2. CASE PReadMetadata
    BY <1>2 DEF PReadMetadata, PassInv
  <1>3. CASE PReadSet
    <2>1. /\ Buildable(request, md) /\ OrdinalsComplete(request, md)
          /\ StandaloneStays(request, seenSts, md)
      BY <1>3 DEF PReadSet, Accepted, TargetsValid
    <2>2. seenSts \in shownSets /\ md \in shownSnapshots
      BY <1>3 DEF PReadSet, PassInv
    <2>3. QED
      BY <1>3, <2>1, <2>2 DEF PReadSet, PassInv
  <1>4. CASE CreateWork
    <2>1. left' \subseteq left
      BY <1>4 DEF CreateWork
    <2>2. QED
      BY <1>4, <2>1 DEF CreateWork, PassInv
  <1>5. CASE RecordPlan \/ PEnd
    BY <1>5, RestKeeps DEF RecordPlan, PEnd
  <1>6. CASE DeliverSet
    BY <1>6 DEF DeliverSet, PassInv
  <1>7. CASE DeliverSnapshot
    BY <1>7 DEF DeliverSnapshot, PassInv
  <1>8. ASSUME UNCHANGED <<request, seenSts, seenSnapshot, pass, shown>>
        PROVE  PassInv'
    BY <1>8 DEF PassInv
  <1>9. CASE Scale \/ Collect \/ DeliverRecord \/ UNCHANGED vars
    BY <1>8, <1>9 DEF Scale, Collect, DeliverRecord, vars
  <1>10. QED
    BY <1>1, <1>2, <1>3, <1>4, <1>5, <1>6, <1>7, <1>9 DEF Next

\* They hold forever.
LEMMA PlanHolds == Spec => [](TypeOK /\ PlanInv /\ PassInv)
  BY PlanInit, TypeStep, PlanStep, PassStep, PTL DEF Spec

-----------------------------------------------------------------------------
(* The theorems.                                                           *)

\* The state is well typed: a Work is made only of what can be staged.
THEOREM PlanTypeCorrect == Spec => []TypeOK
  BY PlanHolds, PTL

\* A recorded plan moves whole ordinals, one to one (validateBinding and
\* BuildWorks together).
THEOREM OrdinalsStayWhole == Spec => []OrdinalsMoveWhole
  <1>1. TypeOK /\ PlanInv => OrdinalsMoveWhole
    <2> SUFFICES ASSUME TypeOK, PlanInv, hash # None
                 PROVE  MovesWholeOrdinals(request, first)
      BY DEF OrdinalsMoveWhole
    <2>1. request \in SUBSET Mapping
      BY BuilderAssumption DEF TypeOK
    <2>2. QED
      BY <2>1, WholeOrdinals DEF PlanInv
  <1>2. QED
    BY <1>1, PlanHolds, PTL

\* The Works created over any number of passes, each with what its caches showed
\* it, are those of the recorded plan (planHash).
THEOREM OnePlan == Spec => []WorksOfOnePlan
  <1>1. PlanInv => WorksOfOnePlan
    BY DEF PlanInv, WorksOfOnePlan
  <1>2. QED
    BY <1>1, PlanHolds, PTL

\* A step that creates a Work is one of a pass that has come to its Works.
LEMMA WorkStep ==
  ASSUME Next, works' # works
  PROVE  pc = "works" /\ works' \subseteq works \cup left
  <1>1. CreateWork
    BY Zenon DEF Next, PStart, PReadMetadata, PReadSet, RecordPlan, PEnd, Scale, Collect,
       DeliverSet, DeliverSnapshot, DeliverRecord
  <1>2. QED
    BY <1>1 DEF CreateWork

\* No pass creates a Work unless its cache has shown it the source that the plan
\* was recorded for, however late the caches are and whatever changes between
\* the reads of the pass and the Create.
THEOREM SourceHeld == Spec => SourceUnchanged
  <1>1. TypeOK /\ PlanInv /\ PassInv /\ [Next]_vars =>
          [works' # works => \E n \in shownSnapshots : SameSource(n, first)]_vars
    <2> SUFFICES ASSUME TypeOK, PlanInv, PassInv, Next, works' # works
                 PROVE  \E n \in shownSnapshots : SameSource(n, first)
      OBVIOUS
    <2>1. pc = "works"
      BY WorkStep
    <2>2. SameSource(md, first) /\ md \in shownSnapshots
      BY <2>1, SamePlan DEF PassInv
    <2>3. QED
      BY <2>2
  <1>2. QED
    BY <1>1, PlanHolds, PTL DEF Spec, SourceUnchanged

\* No pass creates a standalone claim unless its cache has shown it a StatefulSet
\* that generates no such claim (volumeclaims.Standalone in validateBinding).
THEOREM StandaloneHeld == Spec => StandaloneClaimsFree
  <1>1. PassInv /\ [Next]_vars =>
          [\A w \in works' \ works :
             w.kind = "pvc" => \E s \in shownSets : w.claim \in Explicit \ Generated(s)]_vars
    <2> SUFFICES ASSUME PassInv, Next, NEW w \in works' \ works, w.kind = "pvc"
                 PROVE  \E s \in shownSets : w.claim \in Explicit \ Generated(s)
      OBVIOUS
    <2>1. pc = "works" /\ w \in left
      BY WorkStep
    <2>2. w \in BuildWorks(request, md)
      BY <2>1 DEF PassInv
    <2>3. PICK m \in request : \E k \in IF Marked(m.from, md) THEN {"pv", "pvc"} ELSE {"pv"} :
            w = [claim |-> m.to, kind |-> k, content |-> md.volumes[m.from].content]
      BY <2>2 DEF BuildWorks
    <2>4. Marked(m.from, md) /\ w.claim = m.to
      BY <2>3
    <2>5. m \in request \ Moved(request, md)
      BY <2>4 DEF Moved
    <2>6. PICK s \in shownSets : StandaloneStays(request, s, md)
      BY <2>1 DEF PassInv
    <2>7. m.from \in StandaloneClaims(s) /\ m.to = m.from
      BY <2>5, <2>6 DEF StandaloneStays
    <2>8. QED
      BY <2>4, <2>7 DEF StandaloneClaims
  <1>2. QED
    BY <1>1, PlanHolds, PTL DEF Spec, StandaloneClaimsFree
=============================================================================
