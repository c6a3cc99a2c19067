-------------------------- MODULE DiscoveryProofs --------------------------
(***************************************************************************)
(* Theorems about Discovery, for all clusters, placements, and numbers of  *)
(* moves, deletions, intrusions and interruptions.                         *)
(***************************************************************************)
EXTENDS Discovery, TLAPS

-----------------------------------------------------------------------------
(* The inductive invariant.                                                *)

\* A UID given out to the name for an object that discovery made.
Ours(n, uid) == uid <= minted[n] /\ <<n, uid>> \notin foreign

\* No UID is given out twice, so that no object of somebody else has the UID of
\* one of ours, and what the cache or a policy refers to is one of either.
NamesInv ==
    \A n \in Name :
        /\ \A u \in UID : <<n, u>> \in foreign => u <= minted[n]
        /\ md[n] # None =>
             /\ md[n].uid <= minted[n]
             /\ md[n].own => <<n, md[n].uid>> \notin foreign
             /\ ~md[n].own => <<n, md[n].uid>> \in foreign
        /\ seenMd[n] # None =>
             seenMd[n].uid <= minted[n] /\ (seenMd[n].own => <<n, seenMd[n].uid>> \notin foreign)
        /\ pp[n] # None => Ours(n, pp[n].owner)

\* The StatefulSet is made anew once per fault.
SetsInv == sts <= faults + 1 /\ seenSts <= sts

\* The owner that a pass took up is an object of ours.
Grounded(d) ==
    /\ d.pc # "set" => d.of \in 1..sts
    /\ d.pc \notin {"set", "metadata"} => d.todo # <<>>
    /\ d.pc \in {"policy", "create policy"} =>
         d.owner # None /\ Ours(<<d.of, Head(d.todo)>>, d.owner)

PassInv == dpass # None => Grounded(dpass)

DInv == TypeOK /\ NamesInv /\ SetsInv /\ PassInv

-----------------------------------------------------------------------------
(* Names and UIDs.                                                         *)

\* The name that a pass works on is one of those there are.
LEMMA NameOfPass ==
  ASSUME DInv, dpass # None, dpass.pc # "set", dpass.todo # <<>>
  PROVE  DName \in Name /\ Head(dpass.todo) \in Cluster /\ Tail(dpass.todo) \in Seq(Cluster)
  <1>1. dpass \in DiscoveryPass
    BY DEF DInv, TypeOK
  <1>2. dpass.todo \in Seq(Cluster)
    BY <1>1 DEF DiscoveryPass
  <1>3. Head(dpass.todo) \in Cluster /\ Tail(dpass.todo) \in Seq(Cluster)
    BY <1>2
  <1>4. dpass.of \in 1..sts /\ sts \in Nat /\ sts <= faults + 1 /\ faults \in 0..MaxFaults
    BY DEF DInv, PassInv, Grounded, SetsInv, TypeOK, UID
  <1>5. dpass.of \in 1..(MaxFaults + 1)
    BY <1>4, DiscoveryAssumption
  <1>6. QED
    BY <1>3, <1>5 DEF DName, Name

\* UIDs only grow, and somebody else keeps those it has and gets only a fresh one.
UidsGrow ==
    /\ foreign \subseteq foreign'
    /\ \A n \in Name :
        /\ minted'[n] \in Nat /\ minted[n] <= minted'[n]
        /\ \A u \in UID : <<n, u>> \in foreign' => <<n, u>> \in foreign \/ u = minted[n] + 1

\* What is ours stays ours.
LEMMA OursStays ==
  ASSUME TypeOK, UidsGrow, NEW n \in Name, NEW u \in UID, u <= minted[n],
         <<n, u>> \notin foreign
  PROVE  u <= minted'[n] /\ <<n, u>> \notin foreign'
  <1>1. minted[n] \in Nat /\ u \in Nat
    BY DEF TypeOK, UID
  <1>2. QED
    BY <1>1 DEF UidsGrow

-----------------------------------------------------------------------------
(* The reconciliation.                                                     *)

\* A pass as TypeOK and PassInv want it.
Proper(d) ==
    d # None =>
        /\ d \in DiscoveryPass
        /\ (d.pc \in {"policy", "create policy"}) = (d.owner # None)
        /\ Grounded(d)

\* A pass between two clusters.
LEMMA ProceedProper ==
  ASSUME DInv, dpass # None, dpass.pc # "set", dpass.todo # <<>>, Proceed
  PROVE  Proper(dpass')
  <1>1. dpass \in DiscoveryPass /\ dpass.of \in 1..sts /\ dpass.of \in UID \cup {None}
    BY DEF DInv, TypeOK, PassInv, Grounded, DiscoveryPass
  <1>2. Tail(dpass.todo) \in Seq(Cluster)
    BY NameOfPass
  <1>3. dpass' = [pc |-> "metadata", todo |-> Tail(dpass.todo), of |-> dpass.of, owner |-> None]
    BY <1>1, Zenon DEF Proceed, DiscoveryPass
  <1>4. dpass' \in DiscoveryPass
    BY <1>1, <1>2, <1>3 DEF DiscoveryPass
  <1>5. QED
    BY <1>1, <1>3, <1>4 DEF Proper, Grounded

\* Every read leaves a proper pass or none.
LEMMA ReadsProper ==
  ASSUME DInv, DRead
  PROVE  Proper(dpass')
  <1>1. CASE DStart
    <2>1. placement \in Seq(Cluster)
      BY DiscoveryAssumption DEF DInv, TypeOK
    <2>2. dpass' \in DiscoveryPass
      BY <1>1, <2>1 DEF DStart, DiscoveryPass
    <2>3. QED
      BY <1>1, <2>2 DEF DStart, Proper, Grounded
  <1>2. CASE DReadSet
    <2>1. dpass \in DiscoveryPass /\ dpass.pc = "set" /\ dpass.owner = None
      BY <1>2 DEF DReadSet, At, DInv, TypeOK
    <2>2. seenSts \in UID /\ sts \in UID /\ seenSts <= sts
      BY DEF DInv, TypeOK, SetsInv
    <2>3. dpass' = [pc |-> "metadata", todo |-> dpass.todo, of |-> seenSts, owner |-> None]
      BY <1>2, <2>1, Zenon DEF DReadSet, DiscoveryPass
    <2>4. dpass' \in DiscoveryPass
      BY <2>1, <2>2, <2>3 DEF DiscoveryPass
    <2>5. seenSts \in 1..sts
      BY <2>2 DEF UID
    <2>6. QED
      BY <2>3, <2>4, <2>5 DEF Proper, Grounded
  <1>3. CASE DMissMetadata
    <2>1. dpass \in DiscoveryPass /\ dpass.pc = "metadata" /\ dpass.owner = None
          /\ dpass.todo # <<>> /\ dpass.of \in 1..sts
      BY <1>3 DEF DMissMetadata, At, DInv, TypeOK, PassInv, Grounded
    <2>2. dpass' = [pc |-> "create", todo |-> dpass.todo, of |-> dpass.of, owner |-> None]
      BY <1>3, <2>1, Zenon DEF DMissMetadata, DiscoveryPass
    <2>3. dpass' \in DiscoveryPass
      BY <2>1, <2>2 DEF DiscoveryPass
    <2>4. QED
      BY <2>1, <2>2, <2>3 DEF Proper, Grounded
  <1>4. CASE DMissAgain \/ DNoSet
    BY <1>4 DEF DMissAgain, DNoSet, Abort, Proper
  <1>5. CASE DCheckMetadata
    <2>1. CASE ~OurMetadata(seenMd[DName])
      BY <1>5, <2>1 DEF DCheckMetadata, Abort, Proper
    <2>2. CASE OurMetadata(seenMd[DName])
      <3>1. dpass \in DiscoveryPass /\ dpass # None /\ dpass.pc \in {"metadata", "reread"}
            /\ dpass.todo # <<>> /\ dpass.of \in 1..sts
        BY <1>5 DEF DCheckMetadata, At, DInv, TypeOK, PassInv, Grounded
      <3>2. DName \in Name /\ seenMd[DName] # None
        BY <1>5, <3>1, NameOfPass DEF DCheckMetadata
      <3>3. seenMd[DName] \in Metadata
        BY <3>2 DEF DInv, TypeOK
      <3>4. seenMd[DName].uid \in UID /\ Ours(DName, seenMd[DName].uid)
        BY <2>2, <3>2, <3>3 DEF DInv, NamesInv, Ours, OurMetadata, Metadata
      <3>5. seenMd[DName].uid # None
        BY <3>4, DiscoveryAssumption DEF UID
      <3>6. dpass' = [pc |-> "policy", todo |-> dpass.todo, of |-> dpass.of,
                      owner |-> seenMd[DName].uid]
        BY <1>5, <2>2, <3>1, Zenon DEF DCheckMetadata, DiscoveryPass
      <3>7. dpass' \in DiscoveryPass
        BY <3>1, <3>4, <3>6 DEF DiscoveryPass
      <3>8. QED
        BY <3>1, <3>4, <3>5, <3>6, <3>7 DEF Proper, Grounded, DName
    <2>3. QED
      BY <2>1, <2>2
  <1>6. CASE DCheckPolicy
    <2>1. dpass \in DiscoveryPass /\ dpass # None /\ dpass.pc = "policy" /\ Grounded(dpass)
          /\ dpass.todo # <<>> /\ dpass.of \in 1..sts /\ dpass.owner # None
          /\ Ours(<<dpass.of, Head(dpass.todo)>>, dpass.owner)
      BY <1>6 DEF DCheckPolicy, At, DInv, TypeOK, PassInv, Grounded
    <2>2. CASE pp[DName] = None
      <3>1. dpass' = [pc |-> "create policy", todo |-> dpass.todo, of |-> dpass.of,
                      owner |-> dpass.owner]
        BY <1>6, <2>1, <2>2, Zenon DEF DCheckPolicy, DiscoveryPass
      <3>2. dpass' \in DiscoveryPass
        BY <2>1, <3>1 DEF DiscoveryPass
      <3>3. QED
        BY <2>1, <3>1, <3>2 DEF Proper, Grounded
    <2>3. CASE pp[DName] # None /\ pp[DName] = [owner |-> dpass.owner, cluster |-> Head(dpass.todo)]
      <3>1. Proceed
        BY <1>6, <2>3 DEF DCheckPolicy
      <3>2. QED
        BY <2>1, <3>1, ProceedProper
    <2>4. CASE pp[DName] # None /\ pp[DName] # [owner |-> dpass.owner, cluster |-> Head(dpass.todo)]
      BY <1>6, <2>4 DEF DCheckPolicy, Abort, Proper
    <2>5. QED
      BY <2>2, <2>3, <2>4
  <1>7. CASE DFinish
    BY <1>7 DEF DFinish, Proper
  <1>8. QED
    BY <1>1, <1>2, <1>3, <1>4, <1>5, <1>6, <1>7 DEF DRead

-----------------------------------------------------------------------------
(* What a step may do to the objects, and why the invariant stands it.     *)

\* The pass stays proper when UIDs and StatefulSets are only added.
LEMMA PassStays ==
  ASSUME DInv, UidsGrow, sts' \in Nat, sts <= sts', Proper(dpass')
  PROVE  PassInv'
  <1> SUFFICES ASSUME dpass' # None
               PROVE  Grounded(dpass)'
    BY DEF PassInv
  <1>1. dpass' \in DiscoveryPass /\ Grounded(dpass')
    BY DEF Proper
  <1>2. sts \in Nat /\ sts \in 1..(MaxFaults + 1)
    <2>1. sts \in Nat \ {0} /\ faults \in 0..MaxFaults /\ sts <= faults + 1
      BY DEF DInv, TypeOK, SetsInv, UID
    <2>2. QED
      BY <2>1, DiscoveryAssumption
  <1>3. ASSUME dpass'.pc \in {"policy", "create policy"}
        PROVE  dpass'.owner # None /\ Ours(<<dpass.of, Head(dpass.todo)>>, dpass.owner)'
    <2> DEFINE n == <<dpass'.of, Head(dpass'.todo)>>
    <2>1. dpass'.of \in 1..sts /\ dpass'.todo # <<>> /\ dpass'.owner # None
          /\ Ours(n, dpass'.owner)
      BY <1>1, <1>3 DEF Grounded
    <2>2. dpass'.todo \in Seq(Cluster) /\ dpass'.owner \in UID
      BY <1>1, <2>1 DEF DiscoveryPass
    <2>3. Head(dpass'.todo) \in Cluster
      BY <2>1, <2>2
    <2>4. dpass'.of \in 1..(MaxFaults + 1)
      BY <1>2, <2>1, DiscoveryAssumption
    <2>5. n \in Name
      BY <2>3, <2>4 DEF Name
    <2>6. dpass'.owner <= minted[n] /\ <<n, dpass'.owner>> \notin foreign
      BY <2>1 DEF Ours
    <2> HIDE DEF n
    <2>7. dpass'.owner <= minted'[n] /\ <<n, dpass'.owner>> \notin foreign'
      BY <2>2, <2>5, <2>6, OursStays DEF DInv
    <2>8. QED
      BY <2>1, <2>7 DEF Ours, n
  <1>4. dpass'.pc # "set" => dpass'.of \in 1..sts'
    <2>1. dpass'.pc # "set" => dpass'.of \in 1..sts
      BY <1>1 DEF Grounded
    <2>2. QED
      BY <1>2, <2>1
  <1>5. QED
    BY <1>1, <1>3, <1>4 DEF Grounded

\* A PVMetadata stays, goes, or is made with a fresh UID.
MetadataSteps ==
    \A n \in Name :
        \/ md'[n] = md[n]
        \/ md'[n] = None
        \/ /\ md'[n] \in Metadata
           /\ md'[n].uid = minted'[n]
           /\ md'[n].own => <<n, minted'[n]>> \notin foreign'
           /\ ~md'[n].own => <<n, minted'[n]>> \in foreign'

\* The cache stays or shows what is there.
CacheSteps == \A n \in Name : seenMd'[n] \in {seenMd[n], md[n]}

\* A policy stays, goes, keeps its owner, or is made for one of ours.
PolicySteps ==
    \A n \in Name :
        \/ pp'[n] = None
        \/ pp'[n].owner \in UID /\ Ours(n, pp'[n].owner)

\* What is under the names stays ours or somebody else's.
LEMMA NamesStay ==
  ASSUME DInv, UidsGrow, MetadataSteps, CacheSteps, PolicySteps,
         \A n \in Name : \A u \in UID : <<n, u>> \in foreign' => u <= minted'[n]
  PROVE  NamesInv'
  <1> SUFFICES ASSUME NEW n \in Name
               PROVE  /\ \A u \in UID : <<n, u>> \in foreign' => u <= minted'[n]
                      /\ md'[n] # None =>
                           /\ md'[n].uid <= minted'[n]
                           /\ md'[n].own => <<n, md'[n].uid>> \notin foreign'
                           /\ ~md'[n].own => <<n, md'[n].uid>> \in foreign'
                      /\ seenMd'[n] # None =>
                           seenMd'[n].uid <= minted'[n]
                           /\ (seenMd'[n].own => <<n, seenMd'[n].uid>> \notin foreign')
                      /\ pp'[n] # None =>
                           pp'[n].owner <= minted'[n] /\ <<n, pp'[n].owner>> \notin foreign'
    BY DEF NamesInv, Ours
  <1>1. minted[n] \in Nat /\ minted'[n] \in Nat /\ minted[n] <= minted'[n]
    BY DEF UidsGrow, DInv, TypeOK
  <1>2. ASSUME NEW m \in Metadata, m.uid <= minted[n], m.own => <<n, m.uid>> \notin foreign
        PROVE  m.uid <= minted'[n] /\ (m.own => <<n, m.uid>> \notin foreign')
    <2>1. m.uid \in UID /\ m.uid \in Nat
      BY DEF Metadata, UID
    <2>2. m.uid <= minted'[n]
      BY <1>1, <1>2, <2>1
    <2>3. QED
      BY <1>2, <2>1, <2>2, OursStays DEF DInv
  <1>3. md[n] # None =>
          /\ md[n] \in Metadata /\ md[n].uid <= minted[n]
          /\ md[n].own => <<n, md[n].uid>> \notin foreign
          /\ ~md[n].own => <<n, md[n].uid>> \in foreign
    BY DEF DInv, TypeOK, NamesInv
  <1>4. seenMd[n] # None =>
          seenMd[n] \in Metadata /\ seenMd[n].uid <= minted[n]
          /\ (seenMd[n].own => <<n, seenMd[n].uid>> \notin foreign)
    BY DEF DInv, TypeOK, NamesInv
  <1>5. md'[n] # None =>
          /\ md'[n].uid <= minted'[n]
          /\ md'[n].own => <<n, md'[n].uid>> \notin foreign'
          /\ ~md'[n].own => <<n, md'[n].uid>> \in foreign'
    <2>1. CASE md'[n] = md[n]
      <3>1. foreign \subseteq foreign'
        BY DEF UidsGrow
      <3>2. QED
        BY <1>2, <1>3, <2>1, <3>1
    <2>2. CASE md'[n] # md[n] /\ md'[n] # None
      <3>1. /\ md'[n].uid = minted'[n]
            /\ md'[n].own => <<n, minted'[n]>> \notin foreign'
            /\ ~md'[n].own => <<n, minted'[n]>> \in foreign'
        BY <2>2, Zenon DEF MetadataSteps
      <3>2. md'[n].uid <= minted'[n]
        BY <1>1, <3>1
      <3>3. QED
        BY <3>1, <3>2, Zenon
    <2>3. QED
      BY <2>1, <2>2
  <1>6. seenMd'[n] # None =>
          seenMd'[n].uid <= minted'[n] /\ (seenMd'[n].own => <<n, seenMd'[n].uid>> \notin foreign')
    BY <1>2, <1>3, <1>4 DEF CacheSteps
  <1>7. pp'[n] # None => pp'[n].owner <= minted'[n] /\ <<n, pp'[n].owner>> \notin foreign'
    BY OursStays DEF PolicySteps, Ours, DInv
  <1>8. QED
    BY <1>5, <1>6, <1>7

-----------------------------------------------------------------------------
(* The steps, one by one.                                                  *)

\* The invariant holds at the start.
LEMMA DiscoveryInit == Init => DInv
  <1> SUFFICES ASSUME Init
               PROVE  DInv
    OBVIOUS
  <1>1. TypeOK
    BY DiscoveryAssumption DEF Init, TypeOK, UID
  <1>2. QED
    BY <1>1 DEF Init, DInv, NamesInv, SetsInv, PassInv

\* A read, which changes the pass only.
LEMMA ReadKeeps ==
  ASSUME DInv, DRead, UNCHANGED <<clusterVars, cacheVars, foreign, boundVars>>
  PROVE  DInv'
  <1>1. Proper(dpass')
    BY ReadsProper
  <1>2. UNCHANGED <<md, minted, pp, placement, sts, opted, seenSts, seenOpted, seenMd, foreign,
                    faults, intrusions, interrupts>>
    BY DEF DRead, clusterVars, cacheVars, boundVars
  <1>3. TypeOK'
    BY <1>1, <1>2 DEF DInv, TypeOK, Proper
  <1>4. NamesInv' /\ SetsInv'
    BY <1>2 DEF DInv, NamesInv, SetsInv, Ours
  <1>5. PassInv'
    BY <1>1, <1>2 DEF PassInv, Proper, Grounded, Ours
  <1>6. QED
    BY <1>3, <1>4, <1>5 DEF DInv

\* The creation of a PVMetadata, which gets a fresh UID.
LEMMA CreateMetadataKeeps ==
  ASSUME DInv, DCreateMetadata, UNCHANGED <<clusterVars, cacheVars, foreign, boundVars>>
  PROVE  DInv'
  <1>1. dpass \in DiscoveryPass /\ dpass # None /\ dpass.pc = "create" /\ dpass.owner = None
        /\ dpass.todo # <<>> /\ dpass.of \in 1..sts
    BY DEF DCreateMetadata, At, DInv, TypeOK, PassInv, Grounded
  <1>2. UNCHANGED <<pp, placement, sts, opted, seenSts, seenOpted, seenMd, foreign, faults, intrusions, interrupts>>
    BY DEF DCreateMetadata, clusterVars, cacheVars, boundVars
  <1>3. DName \in Name
    BY <1>1, NameOfPass
  <1>4. dpass' = [pc |-> "reread", todo |-> dpass.todo, of |-> dpass.of, owner |-> None]
    BY <1>1, Zenon DEF DCreateMetadata, DiscoveryPass
  <1>5. dpass' \in DiscoveryPass
    BY <1>1, <1>4 DEF DiscoveryPass
  <1>6. Proper(dpass')
    BY <1>1, <1>4, <1>5 DEF Proper, Grounded
  <1>7. md \in [Name -> Metadata \cup {None}] /\ minted \in [Name -> Nat]
    BY DEF DInv, TypeOK
  <1>8. CASE md[DName] # None
    <2>1. UNCHANGED <<md, minted>>
      BY <1>8 DEF DCreateMetadata
    <2>2. TypeOK'
      BY <1>2, <1>6, <2>1 DEF DInv, TypeOK, Proper
    <2>3. NamesInv' /\ SetsInv'
      BY <1>2, <2>1 DEF DInv, NamesInv, SetsInv, Ours
    <2>4. PassInv'
      BY <1>2, <1>6, <2>1 DEF PassInv, Proper, Grounded, Ours
    <2>5. QED
      BY <2>2, <2>3, <2>4 DEF DInv
  <1>9. CASE md[DName] = None
    <2> DEFINE n == DName
               u == minted[n] + 1
    <2>1. u \in UID
      BY <1>3, <1>7 DEF UID
    <2>2. md' = [md EXCEPT ![n] = [uid |-> u, own |-> TRUE]]
          /\ minted' = [minted EXCEPT ![n] = u]
      BY <1>9, Zenon DEF DCreateMetadata
    <2>3. <<n, u>> \notin foreign
      <3>1. minted[n] \in Nat
        BY <1>3, <1>7
      <3>2. <<n, u>> \in foreign => u <= minted[n]
        BY <1>3, <2>1 DEF DInv, NamesInv
      <3>3. QED
        BY <3>1, <3>2
    <2>4. [uid |-> u, own |-> TRUE] \in Metadata
      BY <2>1 DEF Metadata
    <2>5. n \in Name
      BY <1>3
    <2> HIDE DEF n, u
    <2>6. md' \in [Name -> Metadata \cup {None}] /\ minted' \in [Name -> Nat]
      BY <1>7, <2>1, <2>2, <2>4 DEF UID
    <2>7. TypeOK'
      BY <1>2, <1>6, <2>6 DEF DInv, TypeOK, Proper
    <2>8. UidsGrow
      <3>1. u \in Nat /\ u = minted[n] + 1
        BY <2>1 DEF UID, u
      <3>2. QED
        BY <1>2, <1>7, <2>2, <2>5, <3>1 DEF UidsGrow
    <2>9. MetadataSteps
      <3>1. md'[n] = [uid |-> u, own |-> TRUE] /\ minted'[n] = u
        BY <1>7, <2>2, <2>5
      <3>2. \A k \in Name \ {n} : md'[k] = md[k]
        BY <1>7, <2>2
      <3>3. QED
        BY <1>2, <2>3, <2>4, <3>1, <3>2 DEF MetadataSteps
    <2>10. CacheSteps /\ PolicySteps
      BY <1>2 DEF CacheSteps, PolicySteps, DInv, NamesInv, TypeOK, Policy
    <2>11. \A k \in Name : \A w \in UID : <<k, w>> \in foreign' => w <= minted'[k]
      <3> SUFFICES ASSUME NEW k \in Name, NEW w \in UID, <<k, w>> \in foreign'
                   PROVE  w <= minted'[k]
        OBVIOUS
      <3>1. w <= minted[k]
        BY <1>2 DEF DInv, NamesInv
      <3>2. w \in Nat /\ minted[k] \in Nat /\ minted'[k] \in Nat /\ minted[k] <= minted'[k]
        BY <1>7, <2>8 DEF UidsGrow, UID
      <3>3. QED
        BY <3>1, <3>2
    <2>12. NamesInv'
      BY <2>8, <2>9, <2>10, <2>11, NamesStay
    <2>13. PassInv'
      <3>1. sts \in Nat
        BY DEF DInv, TypeOK, UID
      <3>2. sts' = sts /\ sts <= sts
        BY <1>2, <3>1
      <3>3. QED
        BY <1>6, <2>8, <3>1, <3>2, PassStays
    <2>14. SetsInv'
      BY <1>2 DEF DInv, SetsInv
    <2>15. QED
      BY <2>7, <2>12, <2>13, <2>14 DEF DInv
  <1>10. QED
    BY <1>8, <1>9

\* The numbers among the variables.
LEMMA Numbers ==
  ASSUME TypeOK
  PROVE  sts \in Nat /\ seenSts \in Nat /\ faults \in Nat /\ interrupts \in Nat
  <1>1. sts \in Nat /\ seenSts \in Nat
    BY DEF TypeOK, UID
  <1>2. faults \in 0..MaxFaults /\ interrupts \in 0..MaxInterrupts
    BY DEF TypeOK
  <1>3. QED
    BY <1>1, <1>2, DiscoveryAssumption

\* The same after a step.
LEMMA NumbersAfter ==
  ASSUME TypeOK'
  PROVE  faults' \in Nat /\ seenSts' \in Nat
  <1>1. seenSts' \in Nat
    BY DEF TypeOK, UID
  <1>2. faults' \in 0..MaxFaults
    BY DEF TypeOK
  <1>3. QED
    BY <1>1, <1>2, DiscoveryAssumption

\* The pass that the invariant speaks of is proper.
LEMMA PassProper ==
  ASSUME DInv
  PROVE  Proper(dpass)
  BY DEF DInv, TypeOK, PassInv, Proper

\* The creation of a policy, for the owner that the pass took up.
LEMMA CreatePolicyKeeps ==
  ASSUME DInv, DCreatePolicy, UNCHANGED <<clusterVars, cacheVars, foreign, boundVars>>
  PROVE  DInv'
  <1>1. dpass \in DiscoveryPass /\ dpass # None /\ dpass.pc = "create policy"
        /\ dpass.todo # <<>> /\ dpass.of \in 1..sts /\ dpass.owner # None
        /\ Ours(DName, dpass.owner)
    BY DEF DCreatePolicy, At, DInv, TypeOK, PassInv, Grounded, DName
  <1>2. UNCHANGED <<md, minted, placement, sts, opted, seenSts, seenOpted, seenMd, foreign,
                    faults, intrusions, interrupts>>
    BY DEF DCreatePolicy, clusterVars, cacheVars, boundVars
  <1>3. DName \in Name /\ Head(dpass.todo) \in Cluster /\ dpass.owner \in UID
    BY <1>1, NameOfPass DEF DiscoveryPass
  <1>4. Proper(dpass')
    BY <1>1, ProceedProper DEF DCreatePolicy
  <1>5. pp \in [Name -> Policy \cup {None}]
    BY DEF DInv, TypeOK
  <1>6. PICK p \in Policy : p.owner = dpass.owner /\ pp' \in {pp, [pp EXCEPT ![DName] = p]}
    <2>1. [owner |-> dpass.owner, cluster |-> Head(dpass.todo)] \in Policy
      BY <1>3 DEF Policy
    <2>2. QED
      BY <2>1, Zenon DEF DCreatePolicy
  <1>7. pp' \in [Name -> Policy \cup {None}]
    BY <1>3, <1>5, <1>6
  <1>8. TypeOK'
    BY <1>2, <1>4, <1>7 DEF DInv, TypeOK, Proper
  <1>9. NamesInv'
    <2>1. \A n \in Name : pp'[n] # None => Ours(n, pp'[n].owner)
      BY <1>1, <1>3, <1>5, <1>6 DEF DInv, NamesInv
    <2>2. QED
      BY <1>2, <2>1 DEF DInv, NamesInv, Ours
  <1>10. PassInv' /\ SetsInv'
    BY <1>2, <1>4 DEF PassInv, Proper, Grounded, Ours, DInv, SetsInv
  <1>11. QED
    BY <1>8, <1>9, <1>10 DEF DInv

\* A bound by a counter stands when the counter grows.
LEMMA BoundStays ==
  ASSUME NEW a \in Nat, NEW f \in Nat, NEW g \in Nat, a <= f + 1, f <= g
  PROVE  a <= g + 1
  OBVIOUS

\* A step of others that leaves the UIDs and the StatefulSet.
LEMMA PlainStepKeeps ==
  ASSUME DInv, UNCHANGED <<minted, foreign, sts>>, TypeOK', seenSts' <= sts,
         faults <= faults', Proper(dpass'),
         \A n \in Name : md'[n] \in {md[n], None},
         CacheSteps, PolicySteps
  PROVE  DInv'
  <1>1. sts \in Nat /\ faults \in Nat /\ faults' \in Nat /\ minted \in [Name -> Nat]
        /\ sts <= faults + 1
    <2>1. minted \in [Name -> Nat] /\ sts <= faults + 1 /\ TypeOK
      BY DEF DInv, TypeOK, SetsInv
    <2>2. QED
      BY <2>1, Numbers, NumbersAfter
  <1>2. UidsGrow
    BY <1>1 DEF UidsGrow
  <1>3. NamesInv'
    <2>1. MetadataSteps
      BY DEF MetadataSteps
    <2>2. \A n \in Name : \A u \in UID : <<n, u>> \in foreign' => u <= minted'[n]
      BY DEF DInv, NamesInv
    <2>3. QED
      BY <1>2, <2>1, <2>2, NamesStay
  <1>4. sts' \in Nat /\ sts <= sts'
    BY <1>1
  <1>5. PassInv'
    BY <1>2, <1>4, PassStays
  <1>6. SetsInv'
    <2>1. sts <= faults' + 1
      BY <1>1, BoundStays, Zenon
    <2>2. sts' <= faults' + 1
      BY <2>1, Zenon
    <2>3. QED
      BY <2>2, Zenon DEF SetsInv
  <1>7. QED
    BY <1>3, <1>5, <1>6 DEF DInv

\* Policies that stay or go are steps of the kind above.
LEMMA PoliciesStay ==
  ASSUME DInv, NEW n, pp' = pp \/ pp' = [pp EXCEPT ![n] = None]
  PROVE  PolicySteps /\ pp' \in [Name -> Policy \cup {None}]
  <1>1. pp \in [Name -> Policy \cup {None}]
    BY DEF DInv, TypeOK
  <1>2. \A k \in Name : pp[k] = None \/ (pp[k].owner \in UID /\ Ours(k, pp[k].owner))
    BY <1>1 DEF DInv, NamesInv, Policy
  <1>3. \A k \in Name : pp'[k] \in {pp[k], None}
    BY <1>1
  <1>4. PolicySteps
    BY <1>2, <1>3 DEF PolicySteps
  <1>5. QED
    BY <1>1, <1>4

\* The watch and the garbage collector.
LEMMA CarryKeeps ==
  ASSUME DInv, NEW n, DeliverSet \/ Deliver(n) \/ Collect(n)
  PROVE  DInv'
  <1>1. UNCHANGED <<placement, sts, opted, md, minted, foreign, dpass, faults, intrusions, interrupts>>
    BY DEF DeliverSet, Deliver, Collect, clusterVars, cacheVars, metaVars, boundVars
  <1>2. PolicySteps /\ pp' \in [Name -> Policy \cup {None}]
    BY PoliciesStay DEF DeliverSet, Deliver, Collect
  <1>3. seenMd' \in [Name -> Metadata \cup {None}] /\ CacheSteps
    <2>1. seenMd \in [Name -> Metadata \cup {None}] /\ md \in [Name -> Metadata \cup {None}]
      BY DEF DInv, TypeOK
    <2>2. seenMd' = seenMd \/ seenMd' = [seenMd EXCEPT ![n] = md[n]]
      BY DEF DeliverSet, Deliver, Collect, cacheVars
    <2>3. QED
      BY <2>1, <2>2 DEF CacheSteps
  <1>4. seenSts' \in UID /\ seenSts' <= sts /\ seenOpted' \in BOOLEAN
    <2>1. seenSts' \in {seenSts, sts}
      BY DEF DeliverSet, Deliver, Collect, cacheVars
    <2>2. sts \in UID /\ seenSts \in UID /\ seenSts <= sts
      BY DEF DInv, TypeOK, SetsInv
    <2>3. sts <= sts
      BY Numbers DEF DInv
    <2>4. seenOpted' \in BOOLEAN
      BY DEF DeliverSet, Deliver, Collect, cacheVars, DInv, TypeOK
    <2>5. QED
      BY <2>1, <2>2, <2>3, <2>4
  <1>5. TypeOK'
    BY <1>1, <1>2, <1>3, <1>4 DEF DInv, TypeOK
  <1>6. Proper(dpass')
    BY <1>1, PassProper
  <1>7. faults <= faults'
    BY <1>1, Numbers DEF DInv
  <1>8. QED
    BY <1>1, <1>2, <1>3, <1>4, <1>5, <1>6, <1>7, PlainStepKeeps

\* A failed call or a restart.
LEMMA InterruptKeeps ==
  ASSUME DInv, Interrupt
  PROVE  DInv'
  <1>1. UNCHANGED <<placement, sts, opted, md, minted, foreign, pp, faults, intrusions>> /\ dpass' = None
    BY DEF Interrupt, clusterVars, metaVars
  <1>2. PolicySteps
    BY <1>1 DEF PolicySteps, DInv, NamesInv, TypeOK, Policy
  <1>3. seenMd' \in [Name -> Metadata \cup {None}] /\ CacheSteps
    BY <1>1 DEF Interrupt, cacheVars, DInv, TypeOK, CacheSteps
  <1>4. seenSts' \in UID /\ seenSts' <= sts /\ seenOpted' \in BOOLEAN
    <2>1. seenSts' \in {seenSts, sts}
      BY DEF Interrupt, cacheVars
    <2>2. sts \in UID /\ seenSts \in UID /\ seenSts <= sts
      BY DEF DInv, TypeOK, SetsInv
    <2>3. sts <= sts
      BY Numbers DEF DInv
    <2>4. seenOpted' \in BOOLEAN
      BY DEF Interrupt, cacheVars, DInv, TypeOK
    <2>5. QED
      BY <2>1, <2>2, <2>3, <2>4
  <1>5. interrupts' \in 0..MaxInterrupts
    BY Numbers, DiscoveryAssumption DEF Interrupt, DInv
  <1>6. TypeOK'
    BY <1>1, <1>3, <1>4, <1>5 DEF DInv, TypeOK
  <1>7. Proper(dpass') /\ faults <= faults'
    BY <1>1, Numbers DEF Proper, DInv
  <1>8. QED
    BY <1>1, <1>2, <1>3, <1>4, <1>6, <1>7, PlainStepKeeps

\* A StatefulSet made anew.
LEMMA RemakeSetKeeps ==
  ASSUME DInv, RemakeSet, faults' = faults + 1, faults' \in 0..MaxFaults,
         UNCHANGED <<cacheVars, dpass, intrusions, interrupts>>
  PROVE  DInv'
  <1>1. UNCHANGED <<placement, opted, md, minted, foreign, pp, seenSts, seenOpted, seenMd, dpass,
                    intrusions, interrupts>> /\ sts' = sts + 1
    BY DEF RemakeSet, metaVars, cacheVars
  <1>2. sts \in Nat /\ seenSts \in Nat /\ faults \in Nat /\ sts <= faults + 1 /\ seenSts <= sts
    BY Numbers DEF DInv, SetsInv
  <1>3. sts' \in UID /\ sts' \in Nat /\ sts <= sts'
    BY <1>1, <1>2 DEF UID
  <1>4. TypeOK'
    BY <1>1, <1>3 DEF DInv, TypeOK
  <1>5. NamesInv'
    BY <1>1 DEF DInv, NamesInv, Ours
  <1>6. SetsInv'
    BY <1>1, <1>2 DEF SetsInv
  <1>7. UidsGrow
    <2>1. minted \in [Name -> Nat]
      BY DEF DInv, TypeOK
    <2>2. QED
      BY <1>1, <2>1 DEF UidsGrow
  <1>8. PassInv'
    BY <1>1, <1>3, <1>7, PassProper, PassStays
  <1>9. QED
    BY <1>4, <1>5, <1>6, <1>8 DEF DInv

\* A move of the workload, the label, a deletion, or a policy pointed elsewhere.
LEMMA PlainChangeKeeps ==
  ASSUME DInv, NEW n,
         Move \/ OptInOrOut \/ DeleteMetadata(n) \/ DeletePolicy(n)
           \/ (n \in Name /\ Retarget(n)),
         faults' \in 0..MaxFaults, faults <= faults', intrusions' \in 0..MaxIntrusions,
         UNCHANGED <<cacheVars, dpass, interrupts>>
  PROVE  DInv'
  <1>1. UNCHANGED <<sts, minted, foreign, seenSts, seenOpted, seenMd, dpass, interrupts>>
    BY DEF Move, OptInOrOut, DeleteMetadata, DeletePolicy, Retarget, clusterVars, cacheVars, metaVars
  <1>2. placement' \in Placements /\ opted' \in BOOLEAN
    BY DEF Move, OptInOrOut, DeleteMetadata, DeletePolicy, Retarget, clusterVars, DInv, TypeOK
  <1>3. md' \in [Name -> Metadata \cup {None}] /\ \A k \in Name : md'[k] \in {md[k], None}
    <2>1. md \in [Name -> Metadata \cup {None}]
      BY DEF DInv, TypeOK
    <2>2. md' = md \/ md' = [md EXCEPT ![n] = None]
      BY DEF Move, OptInOrOut, DeleteMetadata, DeletePolicy, Retarget, metaVars
    <2>3. QED
      BY <2>1, <2>2
  <1>4. PolicySteps /\ pp' \in [Name -> Policy \cup {None}]
    <2>1. CASE pp' = pp \/ pp' = [pp EXCEPT ![n] = None]
      BY <2>1, PoliciesStay
    <2>2. CASE n \in Name /\ Retarget(n)
      <3>1. n \in Name /\ pp \in [Name -> Policy \cup {None}] /\ pp[n] # None
        BY <2>2 DEF Retarget, DInv, TypeOK
      <3>2. PICK c \in Cluster : pp' = [pp EXCEPT ![n] = [owner |-> @.owner, cluster |-> c]]
        BY <2>2 DEF Retarget
      <3>3. pp[n] \in Policy
        BY <3>1
      <3>4. pp' = [pp EXCEPT ![n] = [owner |-> pp[n].owner, cluster |-> c]]
        BY <3>2
      <3>5. PICK p \in Policy : p.owner = pp[n].owner /\ pp' = [pp EXCEPT ![n] = p]
        <4>1. [owner |-> pp[n].owner, cluster |-> c] \in Policy
          BY <3>3 DEF Policy
        <4>2. QED
          BY <3>4, <4>1
      <3>6. pp' \in [Name -> Policy \cup {None}]
        BY <3>1, <3>5
      <3>7. \A k \in Name : pp'[k] = pp[k] \/ (k = n /\ pp'[k].owner = pp[n].owner)
        BY <3>1, <3>5
      <3>8. \A k \in Name : pp[k] = None \/ (pp[k].owner \in UID /\ Ours(k, pp[k].owner))
        BY <3>1 DEF DInv, NamesInv, Policy
      <3>9. PolicySteps
        BY <3>1, <3>7, <3>8 DEF PolicySteps
      <3>10. QED
        BY <3>6, <3>9
    <2>3. QED
      BY <2>1, <2>2 DEF Move, OptInOrOut, DeleteMetadata, DeletePolicy, Retarget
  <1>5. TypeOK'
    BY <1>1, <1>2, <1>3, <1>4 DEF DInv, TypeOK
  <1>6. Proper(dpass') /\ CacheSteps /\ seenSts' <= sts
    BY <1>1, PassProper DEF CacheSteps, DInv, SetsInv
  <1>7. QED
    BY <1>1, <1>3, <1>4, <1>5, <1>6, PlainStepKeeps

\* A PVMetadata of somebody else, which gets a fresh UID.
LEMMA UsurpKeeps ==
  ASSUME DInv, NEW n \in Name, UsurpName(n), intrusions' \in 0..MaxIntrusions,
         UNCHANGED <<cacheVars, dpass, faults, interrupts>>
  PROVE  DInv'
  <1> DEFINE u == minted[n] + 1
  <1>1. UNCHANGED <<placement, sts, opted, pp, seenSts, seenOpted, seenMd, dpass, faults, interrupts>>
    BY DEF UsurpName, clusterVars, cacheVars
  <1>2. md \in [Name -> Metadata \cup {None}] /\ minted \in [Name -> Nat]
        /\ foreign \subseteq Name \X UID /\ pp \in [Name -> Policy \cup {None}]
    BY DEF DInv, TypeOK
  <1>3. u \in Nat /\ u \in UID /\ minted[n] \in Nat /\ u = minted[n] + 1
    BY <1>2 DEF UID
  <1>4. md' = [md EXCEPT ![n] = [uid |-> u, own |-> FALSE]]
        /\ minted' = [minted EXCEPT ![n] = u] /\ foreign' = foreign \cup {<<n, u>>}
    BY Zenon DEF UsurpName
  <1> HIDE DEF u
  <1>5. [uid |-> u, own |-> FALSE] \in Metadata
    BY <1>3 DEF Metadata
  <1>6. md' \in [Name -> Metadata \cup {None}] /\ minted' \in [Name -> Nat]
        /\ foreign' \subseteq Name \X UID
    BY <1>2, <1>3, <1>4, <1>5
  <1>7. TypeOK'
    BY <1>1, <1>6 DEF DInv, TypeOK
  <1>8. UidsGrow
    BY <1>2, <1>3, <1>4 DEF UidsGrow
  <1>9. MetadataSteps
    <2>1. md'[n] = [uid |-> u, own |-> FALSE] /\ minted'[n] = u
      BY <1>2, <1>4
    <2>2. \A k \in Name \ {n} : md'[k] = md[k]
      BY <1>2, <1>4
    <2>3. <<n, u>> \in foreign'
      BY <1>4
    <2>4. QED
      BY <1>5, <2>1, <2>2, <2>3 DEF MetadataSteps
  <1>10. CacheSteps /\ PolicySteps
    BY <1>1, <1>2 DEF CacheSteps, PolicySteps, DInv, NamesInv, Policy
  <1>11. \A k \in Name : \A w \in UID : <<k, w>> \in foreign' => w <= minted'[k]
    <2> SUFFICES ASSUME NEW k \in Name, NEW w \in UID, <<k, w>> \in foreign'
                 PROVE  w <= minted'[k]
      OBVIOUS
    <2>1. w \in Nat /\ minted[k] \in Nat /\ minted'[k] \in Nat /\ minted[k] <= minted'[k]
      BY <1>2, <1>8 DEF UidsGrow, UID
    <2>2. CASE <<k, w>> \in foreign
      <3>1. w <= minted[k]
        BY <2>2 DEF DInv, NamesInv
      <3>2. QED
        BY <2>1, <3>1
    <2>3. CASE <<k, w>> = <<n, u>>
      <3>1. minted'[k] = w
        BY <1>2, <1>4, <2>3
      <3>2. QED
        BY <2>1, <3>1
    <2>4. QED
      BY <1>4, <2>2, <2>3
  <1>12. NamesInv'
    BY <1>8, <1>9, <1>10, <1>11, NamesStay
  <1>13. PassInv'
    <2>1. sts' \in Nat /\ sts <= sts'
      BY <1>1, Numbers DEF DInv
    <2>2. QED
      BY <1>1, <1>8, <2>1, PassProper, PassStays
  <1>14. SetsInv'
    BY <1>1 DEF DInv, SetsInv
  <1>15. QED
    BY <1>7, <1>12, <1>13, <1>14 DEF DInv

-----------------------------------------------------------------------------
(* The theorems.                                                           *)

\* Every step keeps the invariant.
LEMMA DiscoveryKeeps == DInv /\ [Next]_vars => DInv'
  <1> SUFFICES ASSUME DInv, [Next]_vars
               PROVE  DInv'
    OBVIOUS
  <1>1. CASE DiscoveryStep
    BY <1>1, ReadKeeps, CreateMetadataKeeps, CreatePolicyKeeps DEF DiscoveryStep
  <1>2. CASE Interrupt
    BY <1>2, InterruptKeeps
  <1>3. CASE DeliverSet \/ \E n \in Name : Deliver(n) \/ Collect(n)
    BY <1>3, CarryKeeps
  <1>4. CASE Disturb
    <2>1. faults' = faults + 1 /\ faults' \in 0..MaxFaults /\ faults <= faults'
      BY <1>4, Numbers, DiscoveryAssumption DEF Disturb, DInv
    <2>2. intrusions' \in 0..MaxIntrusions
      BY <1>4 DEF Disturb, DInv, TypeOK
    <2>3. UNCHANGED <<cacheVars, dpass, intrusions, interrupts>>
      BY <1>4 DEF Disturb
    <2>4. CASE RemakeSet
      BY <2>1, <2>3, <2>4, RemakeSetKeeps
    <2>5. CASE \E n \in Name : DeleteMetadata(n) \/ DeletePolicy(n)
      BY <2>1, <2>2, <2>3, <2>5, PlainChangeKeeps
    <2>6. CASE Move \/ OptInOrOut
      BY <2>1, <2>2, <2>3, <2>6, PlainChangeKeeps
    <2>7. QED
      BY <1>4, <2>4, <2>5, <2>6 DEF Disturb
  <1>5. CASE Intrude
    <2>1. intrusions' \in 0..MaxIntrusions
      <3>1. intrusions \in 0..MaxIntrusions /\ intrusions < MaxIntrusions
            /\ intrusions' = intrusions + 1
        BY <1>5 DEF Intrude, DInv, TypeOK
      <3>2. QED
        BY <3>1, DiscoveryAssumption
    <2>2. faults' \in 0..MaxFaults /\ faults <= faults'
      <3>1. faults' = faults /\ faults \in 0..MaxFaults
        BY <1>5 DEF Intrude, DInv, TypeOK
      <3>2. QED
        BY <3>1, Numbers DEF DInv
    <2>3. UNCHANGED <<cacheVars, dpass, faults, interrupts>>
      BY <1>5 DEF Intrude
    <2>4. PICK n \in Name : UsurpName(n) \/ Retarget(n)
      BY <1>5 DEF Intrude
    <2>5. QED
      BY <2>1, <2>2, <2>3, <2>4, UsurpKeeps, PlainChangeKeeps
  <1>6. CASE UNCHANGED vars
    BY <1>6 DEF vars, clusterVars, cacheVars, metaVars, boundVars, DInv, TypeOK,
                NamesInv, SetsInv, PassInv, Grounded, Ours
  <1>7. QED
    BY <1>1, <1>2, <1>3, <1>4, <1>5, <1>6 DEF Next, Surroundings

\* It holds forever.
LEMMA DiscoveryHolds == Spec => []DInv
  BY DiscoveryInit, DiscoveryKeeps, PTL DEF Spec

\* What discovery keeps and makes has its type: in particular a pass works on
\* names that exist, and has an owner at hand exactly when it gets to a policy.
THEOREM DiscoveryTypeCorrect == Spec => []TypeOK
  <1>1. DInv => TypeOK
    BY DEF DInv
  <1>2. QED
    BY <1>1, DiscoveryHolds, PTL

\* What somebody else put under a name of discovery's is dispatched only by a
\* policy whose owner is gone, which the garbage collector takes, for any number
\* of clusters, moves, deletions and intrusions and however late the caches are.
THEOREM NoPolicyForStrangers == Spec => []StrangersByOrphansOnly
  <1>1. DInv => StrangersByOrphansOnly
    <2> SUFFICES ASSUME DInv, NEW n \in Name, StrangerDispatched(n)
                 PROVE  Orphaned(n)
      BY DEF StrangersByOrphansOnly
    <2>1. pp[n] # None /\ md[n] # None /\ <<n, md[n].uid>> \in foreign
      BY DEF StrangerDispatched, Dispatched, DInv, NamesInv
    <2>2. <<n, pp[n].owner>> \notin foreign
      BY <2>1 DEF DInv, NamesInv, Ours
    <2>3. QED
      BY <2>1, <2>2 DEF Orphaned
  <1>2. QED
    BY <1>1, DiscoveryHolds, PTL
=============================================================================
