--------------------------- MODULE LifecycleProofs ---------------------------
(***************************************************************************)
(* Management implements RequestLifecycle: each write of a status, by      *)
(* whichever reconciler and from however old a copy, is one step of the    *)
(* life of its request, and nothing else is a step of any life.            *)
(***************************************************************************)
EXTENDS ReservationProofs

-----------------------------------------------------------------------------
(* The invariants.                                                         *)

\* A migration pass that misses something has passed a Work that it did not find
\* applied, and the copies it keeps of Works are no better than its references.
MigrationMisses ==
    rpass # None =>
        /\ ~rpass.all =>
             \E j \in 1..(rpass.i - 1) :
                 /\ j <= Len(Plan[rpass.req])
                 /\ ~rpass.refs[Plan[rpass.req][j]].applied
        /\ rpass.pc \in {"gate", "work"} =>
             /\ \A j \in 1..Len(Plan[rpass.req]) :
                  rpass.i <= j => rpass.read[Plan[rpass.req][j]] = None
             /\ \A k \in Work :
                  rpass.read[k] # None /\ WorkApplied(k, rpass.read[k]) => rpass.refs[k].applied
        /\ rpass.pc = "intent" => rpass.i <= Len(Plan[rpass.req]) /\ ~RRef.applied

\* A cleanup pass that misses something has passed a Work that is not detached, or is
\* about to delete one.
CleanupMisses ==
    cpass # None /\ ~cpass.all =>
        \E j \in 1..cpass.i :
            /\ j <= Len(Plan[cpass.req])
            /\ j < cpass.i \/ cpass.pc = "delete"
            /\ ~cpass.refs[Plan[cpass.req][j]].detached

\* Both passes.
MissesInv == MigrationMisses /\ CleanupMisses

-----------------------------------------------------------------------------
(* What a pass misses.                                                     *)

\* The place in the plan where a migration pass is; no name comes twice in a plan.
LEMMA AtPlace ==
  ASSUME TypeOK, AtWork
  PROVE  /\ rpass # None /\ rpass.pc = "work" /\ rpass.req \in Request
         /\ rpass.i \in Nat /\ Len(Plan[rpass.req]) \in Nat
         /\ rpass.i \in 1..Len(Plan[rpass.req])
         /\ \A j \in 1..Len(Plan[rpass.req]) :
              /\ Plan[rpass.req][j] \in Work
              /\ j # rpass.i => Plan[rpass.req][j] # RName
  <1>1. /\ rpass # None /\ rpass.pc = "work" /\ rpass.i <= Len(Plan[rpass.req])
        /\ rpass \in MigrationPass
    BY AtWorkTyped DEF AtWork, TypeOK
  <1>2. rpass.req \in Request /\ rpass.i \in Nat \ {0}
    BY <1>1 DEF MigrationPass
  <1>3. Plan[rpass.req] \in Seq(Work) /\ IsInjective(Plan[rpass.req])
    BY <1>2, PlanTyped, PlanOneToOne
  <1>4. DOMAIN Plan[rpass.req] = 1..Len(Plan[rpass.req]) /\ Len(Plan[rpass.req]) \in Nat
    BY <1>3
  <1>5. \A j \in 1..Len(Plan[rpass.req]) :
          j # rpass.i => Plan[rpass.req][j] # Plan[rpass.req][rpass.i]
    BY <1>1, <1>2, <1>3, <1>4 DEF IsInjective
  <1>6. QED
    BY <1>1, <1>2, <1>3, <1>4, <1>5 DEF RName

\* The same of a cleanup pass.
LEMMA AtCleanupPlace ==
  ASSUME TypeOK, AtCleanup
  PROVE  /\ cpass # None /\ cpass.pc = "work" /\ cpass.req \in Request
         /\ cpass.i \in Nat /\ Len(Plan[cpass.req]) \in Nat
         /\ cpass.i \in 1..Len(Plan[cpass.req])
         /\ \A j \in 1..Len(Plan[cpass.req]) :
              /\ Plan[cpass.req][j] \in Work
              /\ j # cpass.i => Plan[cpass.req][j] # CName
  <1>1. /\ cpass # None /\ cpass.pc = "work" /\ cpass.i <= Len(Plan[cpass.req])
        /\ cpass \in CleanupPass
    BY AtCleanupTyped DEF AtCleanup, TypeOK
  <1>2. cpass.req \in Request /\ cpass.i \in Nat \ {0}
    BY <1>1 DEF CleanupPass
  <1>3. Plan[cpass.req] \in Seq(Work) /\ IsInjective(Plan[cpass.req])
    BY <1>2, PlanTyped, PlanOneToOne
  <1>4. DOMAIN Plan[cpass.req] = 1..Len(Plan[cpass.req]) /\ Len(Plan[cpass.req]) \in Nat
    BY <1>3
  <1>5. \A j \in 1..Len(Plan[cpass.req]) :
          j # cpass.i => Plan[cpass.req][j] # Plan[cpass.req][cpass.i]
    BY <1>1, <1>2, <1>3, <1>4 DEF IsInjective
  <1>6. QED
    BY <1>1, <1>2, <1>3, <1>4, <1>5 DEF CName

\* The parts of MigrationMisses, of a pass r.
Missed(r) ==
    ~r.all => \E j \in 1..(r.i - 1) :
                  j <= Len(Plan[r.req]) /\ ~r.refs[Plan[r.req][j]].applied

UnreadAhead(r) ==
    \A j \in 1..Len(Plan[r.req]) : r.i <= j => r.read[Plan[r.req][j]] = None

CopiesShow(r) ==
    \A k \in Work : r.read[k] # None /\ WorkApplied(k, r.read[k]) => r.refs[k].applied

\* A migration pass that misses something goes on to, to the end of Reconcile (its flag
\* all).
LEMMA MigrationMissesKept ==
  ASSUME TypeOK, [Next]_vars, MigrationMisses
  PROVE  MigrationMisses'
  <1>a. ASSUME rpass # None
        PROVE  /\ Missed(rpass)
               /\ rpass.pc \in {"gate", "work"} => UnreadAhead(rpass) /\ CopiesShow(rpass)
               /\ rpass.pc = "intent" => rpass.i <= Len(Plan[rpass.req]) /\ ~RRef.applied
    BY <1>a DEF MigrationMisses, Missed, UnreadAhead, CopiesShow
  <1>b. ASSUME rpass' # None, Missed(rpass'),
               rpass'.pc \in {"gate", "work"} => UnreadAhead(rpass') /\ CopiesShow(rpass'),
               rpass'.pc = "intent" =>
                 /\ rpass'.i <= Len(Plan[rpass'.req])
                 /\ ~rpass'.refs[Plan[rpass'.req][rpass'.i]].applied
        PROVE  MigrationMisses'
    BY <1>b DEF MigrationMisses, Missed, UnreadAhead, CopiesShow, RRef, RName
  <1>1. CASE rpass' = None
    BY <1>1 DEF MigrationMisses
  <1>2. CASE UNCHANGED rpass
    BY <1>2 DEF MigrationMisses, RRef, RName
  <1>3. ASSUME NEW q \in Request, Begun(q) PROVE MigrationMisses'
    <2>1. /\ rpass' # None /\ rpass'.all /\ rpass'.pc = "gate" /\ rpass'.req = q
          /\ \A k \in Work : rpass'.read[k] = None
      BY <1>3 DEF Begun, IsPass
    <2>2. \A j \in 1..Len(Plan[q]) : Plan[q][j] \in Work
      BY PlannedAt
    <2>3. QED
      BY <1>b, <2>1, <2>2 DEF Missed, UnreadAhead, CopiesShow
  <1>4. CASE Proceeded
    <2>1. /\ rpass # None /\ rpass.pc = "gate" /\ rpass' # None /\ rpass'.pc = "work"
          /\ rpass'.req = rpass.req /\ rpass'.i = rpass.i /\ rpass'.all = rpass.all
          /\ rpass'.refs = rpass.refs /\ rpass'.read = rpass.read
      BY <1>4 DEF Proceeded, AtGate, IsPass
    <2>2. QED
      BY <1>a, <1>b, <2>1 DEF Missed, UnreadAhead, CopiesShow
  <1>5. CASE Skipped \/ Created
    <2>1. /\ AtWork /\ rpass' # None /\ rpass'.pc = "work"
          /\ rpass'.req = rpass.req /\ rpass'.i = rpass.i + 1
          /\ rpass'.refs = rpass.refs /\ rpass'.read = rpass.read
          /\ rpass'.all = rpass.all \/ ~rpass.refs[RName].applied
      BY <1>5 DEF Skipped, Created, Turn, IsPass, RRef
    <2>2. /\ rpass # None /\ rpass.pc = "work" /\ rpass.i \in Nat
          /\ rpass.i \in 1..Len(Plan[rpass.req]) /\ Len(Plan[rpass.req]) \in Nat
      BY <2>1, AtPlace
    <2>3. Missed(rpass')
      <3>1. CASE ~rpass.refs[RName].applied
        <4>1. rpass.i \in 1..(rpass'.i - 1) /\ rpass.i <= Len(Plan[rpass.req])
          BY <2>1, <2>2
        <4>2. QED
          BY <2>1, <3>1, <4>1 DEF Missed, RName
      <3>2. CASE rpass'.all = rpass.all
        <4>1. \A j \in 1..(rpass.i - 1) : j \in 1..(rpass'.i - 1)
          BY <2>1, <2>2
        <4>2. QED
          BY <1>a, <2>1, <2>2, <3>2, <4>1 DEF Missed
      <3>3. QED
        BY <2>1, <3>1, <3>2
    <2>4. UnreadAhead(rpass')
      <3>1. \A j \in 1..Len(Plan[rpass.req]) : rpass'.i <= j => rpass.i <= j
        BY <2>1, <2>2
      <3>2. QED
        BY <1>a, <2>1, <2>2, <3>1 DEF UnreadAhead
    <2>5. CopiesShow(rpass')
      BY <1>a, <2>1, <2>2 DEF CopiesShow
    <2>6. QED
      BY <1>b, <2>1, <2>3, <2>4, <2>5
  <1>6. CASE Observed
    <2>1. /\ AtWork /\ rpass' # None /\ rpass'.pc = "work"
          /\ rpass'.req = rpass.req /\ rpass'.i = rpass.i + 1
      BY <1>6 DEF Observed, Turn, IsPass
    <2>2. /\ rpass # None /\ rpass.pc = "work" /\ rpass.i \in Nat
          /\ rpass.i \in 1..Len(Plan[rpass.req]) /\ Len(Plan[rpass.req]) \in Nat
          /\ \A j \in 1..Len(Plan[rpass.req]) :
              /\ Plan[rpass.req][j] \in Work
              /\ j # rpass.i => Plan[rpass.req][j] # RName
      BY <2>1, AtPlace
    <2>3. /\ RName \in Work /\ \A k \in Work \ {RName} : rpass'.refs[k] = rpass.refs[k]
          /\ rpass'.refs[RName].applied = WorkApplied(RName, works[RName])
          /\ rpass'.all = (rpass.all /\ WorkApplied(RName, works[RName]))
          /\ \A k \in Work : rpass'.read[k] = rpass.read[k] \/
                             (k = RName /\ rpass'.read[k] = works[k])
      BY <1>6, ObservedFields DEF RWork
    <2>4. Missed(rpass')
      <3>1. CASE ~WorkApplied(RName, works[RName])
        <4>1. rpass.i \in 1..(rpass'.i - 1) /\ rpass.i <= Len(Plan[rpass.req])
          BY <2>1, <2>2
        <4>2. QED
          BY <2>1, <2>3, <3>1, <4>1 DEF Missed, RName
      <3>2. CASE WorkApplied(RName, works[RName]) /\ ~rpass'.all
        <4>1. PICK j \in 1..(rpass.i - 1) :
                j <= Len(Plan[rpass.req]) /\ ~rpass.refs[Plan[rpass.req][j]].applied
          BY <1>a, <2>2, <2>3, <3>2 DEF Missed
        <4>2. j \in 1..(rpass'.i - 1) /\ j \in 1..Len(Plan[rpass.req]) /\ j # rpass.i
          BY <2>1, <2>2, <4>1
        <4>3. rpass'.refs[Plan[rpass.req][j]] = rpass.refs[Plan[rpass.req][j]]
          BY <2>2, <2>3, <4>2
        <4>4. QED
          BY <2>1, <4>1, <4>2, <4>3 DEF Missed
      <3>3. QED
        BY <3>1, <3>2 DEF Missed
    <2>5. UnreadAhead(rpass')
      <3>1. SUFFICES ASSUME NEW j \in 1..Len(Plan[rpass.req]), rpass'.i <= j
                     PROVE  rpass'.read[Plan[rpass.req][j]] = None
        BY <2>1 DEF UnreadAhead
      <3>2. rpass.i <= j /\ j # rpass.i
        BY <2>1, <2>2, <3>1
      <3>3. rpass.read[Plan[rpass.req][j]] = None
        BY <1>a, <2>2, <3>2 DEF UnreadAhead
      <3>4. QED
        BY <2>2, <2>3, <3>2, <3>3
    <2>6. CopiesShow(rpass')
      <3>1. SUFFICES ASSUME NEW k \in Work, rpass'.read[k] # None,
                            WorkApplied(k, rpass'.read[k])
                     PROVE  rpass'.refs[k].applied
        BY DEF CopiesShow
      <3>2. CASE k = RName
        <4>1. rpass.read[k] = None
          BY <1>a, <2>2, <3>2 DEF UnreadAhead, RName
        <4>2. QED
          BY <2>3, <3>1, <3>2, <4>1
      <3>3. CASE k # RName
        BY <1>a, <2>2, <2>3, <3>1, <3>3 DEF CopiesShow
      <3>4. QED
        BY <3>2, <3>3
    <2>7. QED
      BY <1>b, <2>1, <2>4, <2>5, <2>6
  <1>7. CASE Intended \/ Prepared
    <2>1. /\ AtWork /\ rpass' # None /\ rpass'.pc \in {"intent", "repair"}
          /\ rpass'.req = rpass.req /\ rpass'.i = rpass.i /\ rpass'.all = rpass.all
          /\ NeedsRepair
      BY <1>7 DEF Intended, Prepared, Turn, IsPass
    <2>2. /\ rpass # None /\ rpass.i \in Nat
          /\ rpass.i \in 1..Len(Plan[rpass.req]) /\ Len(Plan[rpass.req]) \in Nat
          /\ \A j \in 1..Len(Plan[rpass.req]) :
              /\ Plan[rpass.req][j] \in Work
              /\ j # rpass.i => Plan[rpass.req][j] # RName
      BY <2>1, AtPlace
    <2>3. \A k \in Work : rpass'.refs[k].applied = rpass.refs[k].applied
      BY <1>7, IntendedFields, PreparedFields DEF RRef
    <2>4. Missed(rpass')
      <3>1. SUFFICES ASSUME ~rpass.all PROVE Missed(rpass')
        BY <2>1 DEF Missed
      <3>2. PICK j \in 1..(rpass.i - 1) :
              j <= Len(Plan[rpass.req]) /\ ~rpass.refs[Plan[rpass.req][j]].applied
        BY <1>a, <2>2, <3>1 DEF Missed
      <3>3. j \in 1..Len(Plan[rpass.req])
        BY <2>2, <3>2
      <3>4. QED
        BY <2>1, <2>2, <2>3, <3>2, <3>3 DEF Missed
    <2>5. /\ rpass'.i <= Len(Plan[rpass'.req])
          /\ ~rpass'.refs[Plan[rpass'.req][rpass'.i]].applied
      <3>1. ~rpass.refs[RName].applied
        BY <2>1 DEF NeedsRepair, Repairable, RRef
      <3>2. RName \in Work /\ RName = Plan[rpass'.req][rpass'.i]
        BY <2>1, <2>2 DEF RName
      <3>3. QED
        BY <2>1, <2>2, <2>3, <3>1, <3>2
    <2>6. QED
      BY <1>b, <2>1, <2>4, <2>5
  <1>8. QED
    BY <1>1, <1>2, <1>3, <1>4, <1>5, <1>6, <1>7, PassMoves DEF PassMove

\* A cleanup pass that misses something goes on to, to the end of its Reconcile.
LEMMA CleanupMissesKept ==
  ASSUME TypeOK, [Next]_vars, CleanupMisses
  PROVE  CleanupMisses'
  <1>1. CASE UNCHANGED cpass \/ cpass' = None
    BY <1>1 DEF CleanupMisses
  <1>2. ASSUME NEW q \in Request, CBegun(q) PROVE CleanupMisses'
    BY <1>2 DEF CBegun, IsClean, CleanupMisses
  <1>3. CASE CSkipped \/ CGone
    <2>1. /\ AtCleanup /\ cpass' # None /\ cpass'.pc = "work"
          /\ cpass'.req = cpass.req /\ cpass'.i = cpass.i + 1 /\ cpass'.all = cpass.all
      BY <1>3 DEF CSkipped, CGone, CTurn, IsClean
    <2>2. /\ cpass # None /\ cpass.pc = "work" /\ cpass.i \in Nat
          /\ cpass.i \in 1..Len(Plan[cpass.req]) /\ Len(Plan[cpass.req]) \in Nat
          /\ \A j \in 1..Len(Plan[cpass.req]) :
              /\ Plan[cpass.req][j] \in Work
              /\ j # cpass.i => Plan[cpass.req][j] # CName
      BY <2>1, AtCleanupPlace
    <2>3. \A k \in Work \ {CName} : cpass'.refs[k] = cpass.refs[k]
      BY <1>3, GoneFields DEF CSkipped, CTurn, IsClean
    <2>4. SUFFICES ASSUME ~cpass.all PROVE CleanupMisses'
      BY <2>1 DEF CleanupMisses
    <2>5. PICK j \in 1..cpass.i :
            /\ j <= Len(Plan[cpass.req]) /\ j < cpass.i
            /\ ~cpass.refs[Plan[cpass.req][j]].detached
      BY <2>2, <2>4 DEF CleanupMisses
    <2>6. j \in 1..cpass'.i /\ j < cpass'.i /\ j \in 1..Len(Plan[cpass.req]) /\ j # cpass.i
      BY <2>1, <2>2, <2>5
    <2>7. cpass'.refs[Plan[cpass.req][j]] = cpass.refs[Plan[cpass.req][j]]
      BY <2>2, <2>3, <2>6
    <2>8. QED
      BY <2>1, <2>5, <2>6, <2>7 DEF CleanupMisses
  <1>4. CASE CAwaited \/ CApproved
    <2>1. /\ AtCleanup /\ cpass' # None /\ cpass'.req = cpass.req /\ cpass'.refs = cpass.refs
          /\ ~cpass.refs[CName].detached
          /\ \/ cpass'.i = cpass.i + 1
             \/ cpass'.i = cpass.i /\ cpass'.pc = "delete"
      BY <1>4 DEF CAwaited, CApproved, CTurn, IsClean, CRef
    <2>2. cpass.i \in Nat /\ cpass.i \in 1..Len(Plan[cpass.req]) /\ Len(Plan[cpass.req]) \in Nat
      BY <2>1, AtCleanupPlace
    <2>3. /\ cpass.i \in 1..cpass'.i /\ cpass.i <= Len(Plan[cpass.req])
          /\ cpass.i < cpass'.i \/ cpass'.pc = "delete"
      BY <2>1, <2>2
    <2>4. QED
      BY <2>1, <2>3 DEF CleanupMisses, CName
  <1>5. CASE CDeleted
    <2>1. /\ cpass # None /\ cpass' # None /\ cpass'.pc = "work"
          /\ cpass'.req = cpass.req /\ cpass'.refs = cpass.refs
          /\ cpass'.i = cpass.i + 1 /\ cpass'.all = cpass.all
      BY <1>5 DEF CDeleted, IsClean
    <2>2. cpass.i \in Nat
      BY <2>1 DEF TypeOK, CleanupTypeOK, CleanupPass
    <2>3. \A j \in 1..cpass.i : j \in 1..cpass'.i /\ j < cpass'.i
      BY <2>1, <2>2
    <2>4. QED
      BY <2>1, <2>3 DEF CleanupMisses
  <1>6. QED
    BY <1>1, <1>2, <1>3, <1>4, <1>5, CleanMoves DEF CleanMove

\* What the passes miss, forever.
LEMMA MissesHold == Spec => []MissesInv
  <1>1. Init => MissesInv
    BY DEF Init, MigrationInit, CleanupInit, MissesInv, MigrationMisses, CleanupMisses
  <1>2. TypeOK /\ MissesInv /\ [Next]_vars => MissesInv'
    BY MigrationMissesKept, CleanupMissesKept DEF MissesInv
  <1>3. QED
    BY <1>1, <1>2, TypeCorrect, PTL DEF Spec

\* A request is Ready, in the end of a migration pass, just when all of its Works are
\* recorded applied.
LEMMA ReadyIsAll ==
  ASSUME TypeOK, MigrationThorough, NothingDetachedEarly, MigrationMisses,
         NEW q \in Request, ConcludeWrite(q)
  PROVE  ReadyNow <=> \A k \in Works(q) : mig'[q].refs[k].applied
  <1>1. ReadyNow => \A k \in Works(q) : mig'[q].refs[k].applied
    BY ReadyFindings
  <1>2. ASSUME \A k \in Works(q) : mig'[q].refs[k].applied PROVE ReadyNow
    <2>1. /\ rpass # None /\ rpass.req = q /\ rpass.pc = "work" /\ mig'[q].refs = ConcludedRefs
          /\ rpass \in MigrationPass
      BY DEF ConcludeWrite, TypeOK, MigrationTypeOK
    <2>2. Works(q) \subseteq Work /\ \A j \in 1..Len(Plan[q]) : Plan[q][j] \in Works(q)
      BY PlannedAt
    <2>3. \A k \in PairWorks : PairApplied(k)
      <3>1. SUFFICES ASSUME NEW k \in PairWorks PROVE PairApplied(k)
        OBVIOUS
      <3>2. k \in Works(q) /\ k \in Work
        BY <2>1, <2>2 DEF PairWorks
      <3>3. QED
        BY <1>2, <2>1, <3>2, ConcludedFields
    <2>4. ASSUME ~rpass.all PROVE FALSE
      <3>1. PICK j \in 1..(rpass.i - 1) :
              j <= Len(Plan[q]) /\ ~rpass.refs[Plan[q][j]].applied
        BY <2>1, <2>4 DEF MigrationMisses
      <3>2. PICK k : k = Plan[q][j]
        OBVIOUS
      <3>3. k \in Works(q) /\ k \in Work /\ ~rpass.refs[k].applied
        <4>1. Len(Plan[q]) \in Nat /\ rpass.i \in Nat
          BY <2>1, PlanTyped DEF MigrationPass
        <4>2. j \in 1..Len(Plan[q])
          BY <3>1, <4>1
        <4>3. QED
          BY <2>2, <3>1, <3>2, <4>2
      <3>4. ConcludedRefs[k].applied
        BY <1>2, <2>1, <3>3
      <3>5. k \in PairWorks /\ PairApplied(k)
        BY <2>1, <3>3, <3>4, ConcludedFields
      <3>6. rpass.read[k] # None /\ WorkApplied(k, rpass.read[k])
        <4>1. PICK pv : pv = PairPV(k)
          OBVIOUS
        <4>2. /\ rpass.read[pv] # None /\ rpass.read[PvcOf[pv]] # None
              /\ WorkApplied(pv, rpass.read[pv]) /\ WorkApplied(PvcOf[pv], rpass.read[PvcOf[pv]])
          BY <3>5, <4>1 DEF PairApplied, SplitPairApplied
        <4>3. Standalone(k)
          BY <3>5 DEF PairWorks
        <4>4. k = pv \/ k = PvcOf[pv]
          BY <4>1, <4>3, PairTyped DEF Standalone, PairPV
        <4>5. QED
          BY <4>2, <4>4
      <3>7. QED
        BY <2>1, <3>3, <3>6 DEF MigrationMisses
    <2>5. QED
      BY <2>3, <2>4 DEF ReadyNow
  <1>3. QED
    BY <1>1, <1>2

\* A request is Completed, in the end of a cleanup pass, just when all of its Works are
\* recorded detached.
LEMMA CompletedIsAll ==
  ASSUME TypeOK, CleanupThorough, CleanupMisses, NEW q \in Request, CleanupWrite(q)
  PROVE  cpass.all <=> \A k \in Works(q) : mig'[q].refs[k].detached
  <1>1. /\ cpass # None /\ cpass.req = q /\ cpass.pc = "work" /\ mig'[q].refs = cpass.refs
        /\ cpass.i > Len(Plan[q])
    BY DEF CleanupWrite
  <1>2. cpass.i \in Nat /\ Len(Plan[q]) \in Nat
    BY <1>1, PlanTyped DEF TypeOK, CleanupTypeOK, CleanupPass
  <1>3. ASSUME cpass.all, NEW k \in Works(q) PROVE cpass.refs[k].detached
    <2>1. PICK j \in 1..Len(Plan[q]) : Plan[q][j] = k
      BY PlannedAt
    <2>2. j \in 1..(cpass.i - 1) /\ j <= Len(Plan[q])
      BY <1>1, <1>2
    <2>3. QED
      BY <1>1, <1>3, <2>1, <2>2 DEF CleanupThorough
  <1>4. ASSUME ~cpass.all PROVE \E k \in Works(q) : ~cpass.refs[k].detached
    <2>1. PICK j \in 1..cpass.i : j <= Len(Plan[q]) /\ ~cpass.refs[Plan[q][j]].detached
      BY <1>1, <1>4 DEF CleanupMisses
    <2>2. j \in 1..Len(Plan[q])
      BY <1>2, <2>1
    <2>3. Plan[q][j] \in Works(q)
      BY <2>2, PlannedAt
    <2>4. QED
      BY <2>1, <2>3
  <1>5. QED
    BY <1>1, <1>3, <1>4

-----------------------------------------------------------------------------
(* The life of a request.                                                  *)

\* The invariants that the lives of requests rest on.
LifeInv ==
    /\ NothingBeforeFiling /\ PassesApart /\ CleanupThorough
    /\ MigrationThorough /\ NothingDetachedEarly /\ ReadyMeansApplied
    /\ PeersOfPass /\ PlannedBehindGate /\ ReservedPlanned
    /\ MissesInv

\* The Works of a plan that a record marks applied, and detached.
AppliedOf(q) == {k \in Works(q) : mig[q].refs[k].applied}

DetachedOf(q) == {k \in Works(q) : mig[q].refs[k].detached}

\* The life of a request that has a record, and of one that has none.
LEMMA LifeShown ==
  ASSUME NEW q \in Request
  PROVE  /\ mig[q] # None =>
              /\ mig[q].phase \notin {"Ready", "Completed"} =>
                   LifeOf(q) = Lifecycle!Life("open", mig[q].hash, AppliedOf(q), DetachedOf(q))
              /\ mig[q].phase = "Ready" =>
                   LifeOf(q) = Lifecycle!Life("ready", mig[q].hash, AppliedOf(q), DetachedOf(q))
              /\ mig[q].phase = "Completed" =>
                   LifeOf(q) =
                       Lifecycle!Life("completed", mig[q].hash, AppliedOf(q), DetachedOf(q))
         /\ mig[q] = None =>
              /\ born[q] = 0 => LifeOf(q) = Lifecycle!Life("unfiled", None, {}, {})
              /\ born[q] # 0 => LifeOf(q) = Lifecycle!Life("gone", None, {}, {})
  BY DEF LifeOf, StageOf, AppliedOf, DetachedOf, Lifecycle!Life

\* The same after the step.
LEMMA LifeShownNext ==
  ASSUME NEW q \in Request
  PROVE  /\ mig'[q] # None =>
              /\ mig'[q].phase \notin {"Ready", "Completed"} =>
                   LifeOf(q)' = Lifecycle!Life("open", mig'[q].hash, AppliedOf(q)', DetachedOf(q)')
              /\ mig'[q].phase = "Ready" =>
                   LifeOf(q)' = Lifecycle!Life("ready", mig'[q].hash, AppliedOf(q)', DetachedOf(q)')
              /\ mig'[q].phase = "Completed" =>
                   LifeOf(q)' =
                       Lifecycle!Life("completed", mig'[q].hash, AppliedOf(q)', DetachedOf(q)')
         /\ mig'[q] = None =>
              /\ born'[q] = 0 => LifeOf(q)' = Lifecycle!Life("unfiled", None, {}, {})
              /\ born'[q] # 0 => LifeOf(q)' = Lifecycle!Life("gone", None, {}, {})
  BY DEF LifeOf, StageOf, AppliedOf, DetachedOf, Lifecycle!Life

\* The parts of a life.
LEMMA LifeFields ==
  ASSUME NEW a, NEW b, NEW c, NEW d
  PROVE  /\ Lifecycle!Life(a, b, c, d).stage = a /\ Lifecycle!Life(a, b, c, d).plan = b
         /\ Lifecycle!Life(a, b, c, d).confirmed = c /\ Lifecycle!Life(a, b, c, d).released = d
  BY DEF Lifecycle!Life

\* A request stays unfiled as long as it is not filed, and what has no record and was
\* filed is gone.
LEMMA FiledByRecord ==
  ASSUME TypeOK, [Next]_vars, NothingBeforeFiling, NEW q \in Request, mig'[q] = None
  PROVE  born'[q] = 0 <=> born[q] = 0
  <1>1. ASSUME born[q] = 0 PROVE born'[q] = 0
    <2>1. \A p \in Request : FileRequest(p) => p # q
      BY NewMigrationTyped, NoneIsNoRecord DEF FileRequest, TypeOK, StoreTypeOK
    <2>2. ASSUME NEW p \in Request, FileRequest(p) PROVE born'[q] = 0
      BY <1>1, <2>1, <2>2 DEF FileRequest, TypeOK, StoreTypeOK
    <2>3. UNCHANGED vars \/ Migrate \/ Cleanup \/ Crash => UNCHANGED born
      <3>1. Migrate => UNCHANGED born
        BY Zenon DEF Migrate, MigrationStep, RStart, RFail, RPend, RRecordPlan, RProceed, RSkip,
           RCreate, RObserve, RRefuse, RIntend, RRecordIntent, RPrepareRepair, RRepair,
           RConclude, externalToR, storeVars, recordVars
      <3>2. Cleanup => UNCHANGED born
        BY Zenon DEF Cleanup, CleanupStep, CStart, CFail, CSkip, CDetach, CAwait, CApprove,
           CRefuse, CDelete, CConclude, externalToC, storeVars, recordVars
      <3>3. QED
        BY <3>1, <3>2, Zenon DEF vars, storeVars, recordVars, Crash
    <2>4. Surroundings /\ ~(\E p \in Request : FileRequest(p)) => UNCHANGED born
      BY Zenon DEF Surroundings, Deliver, SnapshotArrives, SnapshotChanges, BindingChanges,
         DeleteRequest, KarmadaApply, KarmadaReflect, KarmadaFinalize, SettleTemplate, BindPair,
         TemplateFault, PairFault, EditWork, RelabelWork, ForeignDelete, recordVars
    <2>5. QED
      BY <1>1, <2>2, <2>3, <2>4 DEF Next
  <1>2. QED
    BY <1>1, BornKept

\* What a step does to the life of one request.
LifeStep(q) ==
    \/ LifeOf(q)' = LifeOf(q)
    \/ /\ LifeOf(q).stage = "unfiled"
       /\ LifeOf(q)' = Lifecycle!Life("open", None, {}, {})
    \/ /\ LifeOf(q).stage = "open" /\ LifeOf(q).plan = None
       /\ \E s \in Snapshot : LifeOf(q)' = Lifecycle!Life("open", s, {}, {})
    \/ /\ LifeOf(q).stage = "open" /\ LifeOf(q).plan # None
       /\ \A p \in Request : Lifecycle!Rivals(p, q) => LifeOf(p).confirmed = {}
       /\ \E S \in SUBSET Works(q) :
            LifeOf(q)' = Lifecycle!Life(IF S = Works(q) THEN "ready" ELSE "open",
                                        LifeOf(q).plan, S, {})
    \/ /\ LifeOf(q).stage = "ready"
       /\ \E S \in SUBSET Works(q) :
            /\ LifeOf(q).released \subseteq S
            /\ LifeOf(q)' = Lifecycle!Life(IF S = Works(q) THEN "completed" ELSE "ready",
                                           LifeOf(q).plan, Works(q), S)
    \/ /\ LifeOf(q).stage \in {"open", "ready", "completed"}
       /\ LifeOf(q)' = Lifecycle!Life("gone", None, {}, {})

\* What is not reserved has nothing confirmed and nothing released.
LEMMA UnreservedLife ==
  ASSUME NEW q \in Request, ~ReservedNow(q)
  PROVE  LifeOf(q).confirmed = {} /\ LifeOf(q).released = {}
  <1>1. CASE mig[q] = None
    BY <1>1 DEF LifeOf
  <1>2. CASE mig[q] # None
    <2>1. \A k \in Works(q) : ~mig[q].refs[k].applied /\ ~mig[q].refs[k].detached
      BY <1>2, PlannedAt DEF ReservedNow, Reserved
    <2>2. QED
      BY <1>2, <2>1 DEF LifeOf
  <1>3. QED
    BY <1>1, <1>2

\* At the gate the life of a request stays as it is, or its plan is recorded (setPhase,
\* and the record of the identities).
LEMMA GateLife ==
  ASSUME TypeOK, LifeInv, NEW q \in Request, GateWrite(q)
  PROVE  LifeStep(q)
  <1>1. /\ mig[q] = rpass.base /\ mig[q] # None /\ mig'[q] # None
        /\ mig'[q].refs = mig[q].refs /\ mig'[q].phase \notin {"Ready", "Completed"}
        /\ mig[q].phase \notin {"Ready", "Completed"}
        /\ mig'[q].hash = mig[q].hash \/ (mig[q].hash = None /\ mig'[q].hash \in Snapshot)
    BY BaseTyped, NoneIsNoRecord DEF GateWrite, LifeInv, PassesApart
  <1>2. AppliedOf(q)' = AppliedOf(q) /\ DetachedOf(q)' = DetachedOf(q)
    BY <1>1 DEF AppliedOf, DetachedOf
  <1>3. /\ LifeOf(q) = Lifecycle!Life("open", mig[q].hash, AppliedOf(q), DetachedOf(q))
        /\ LifeOf(q)' = Lifecycle!Life("open", mig'[q].hash, AppliedOf(q), DetachedOf(q))
    BY <1>1, <1>2, LifeShown, LifeShownNext
  <1>4. CASE mig'[q].hash = mig[q].hash
    BY <1>3, <1>4 DEF LifeStep
  <1>5. CASE mig[q].hash = None /\ mig'[q].hash \in Snapshot
    <2>1. ~ReservedNow(q)
      BY <1>1, <1>5 DEF LifeInv, ReservedPlanned, ReservedNow
    <2>2. AppliedOf(q) = {} /\ DetachedOf(q) = {}
      BY <1>3, <2>1, UnreservedLife, LifeFields
    <2>3. LifeOf(q).stage = "open" /\ LifeOf(q).plan = None
      BY <1>3, <1>5, LifeFields
    <2>4. QED
      BY <1>3, <1>5, <2>2, <2>3 DEF LifeStep
  <1>6. QED
    BY <1>1, <1>4, <1>5

\* Behind the gate a pass finds its request open, with a plan, and no rival confirmed.
LEMMA OpenLife ==
  ASSUME TypeOK, LifeInv, NEW q \in Request, rpass # None, rpass.req = q, rpass.pc # "gate",
         mig[q] = rpass.base
  PROVE  /\ LifeOf(q).stage = "open" /\ LifeOf(q).plan = rpass.base.hash /\ LifeOf(q).plan # None
         /\ \A p \in Request : Lifecycle!Rivals(p, q) => LifeOf(p).confirmed = {}
  <1>1. mig[q] # None /\ mig[q].phase \notin {"Ready", "Completed"} /\ mig[q].hash # None
    BY BaseTyped DEF LifeInv, PassesApart, PlannedBehindGate
  <1>2. ASSUME NEW p \in Request, Lifecycle!Rivals(p, q) PROVE LifeOf(p).confirmed = {}
    <2>1. Rivals(p, q)
      BY <1>2 DEF Lifecycle!Rivals, Rivals, Overlap
    <2>2. ~ReservedNow(p)
      BY <2>1 DEF LifeInv, PeersOfPass
    <2>3. QED
      BY <2>2, UnreservedLife
  <1>3. QED
    BY <1>1, <1>2, LifeShown, LifeFields

\* An intent is recorded for a Work that is not applied, so that the request stays open
\* (ensureWorkRouting).
LEMMA IntentLife ==
  ASSUME TypeOK, LifeInv, NEW q \in Request, IntentWrite(q)
  PROVE  LifeStep(q)
  <1>1. /\ rpass # None /\ rpass.req = q /\ rpass.pc = "intent" /\ mig[q] = rpass.base
        /\ mig'[q] # None /\ mig'[q].refs = rpass.refs /\ mig'[q].hash = rpass.base.hash
        /\ mig'[q].phase \notin {"Ready", "Completed"}
        /\ rpass \in MigrationPass
    BY NoneIsNoRecord DEF IntentWrite, LifeInv, PassesApart, TypeOK, MigrationTypeOK
  <1>2. DetachedOf(q)' = {}
    BY <1>1, PlannedAt DEF DetachedOf, LifeInv, NothingDetachedEarly
  <1>3. AppliedOf(q)' \in SUBSET Works(q) /\ AppliedOf(q)' # Works(q)
    <2>1. rpass.i <= Len(Plan[q]) /\ ~rpass.refs[RName].applied
      BY <1>1 DEF LifeInv, MissesInv, MigrationMisses, RRef
    <2>2. rpass.i \in 1..Len(Plan[q])
      BY <1>1, <2>1, PlanTyped DEF MigrationPass
    <2>3. RName \in Works(q)
      BY <1>1, <2>2, PlannedAt DEF RName
    <2>4. QED
      BY <1>1, <2>1, <2>3 DEF AppliedOf
  <1>4. LifeOf(q)' = Lifecycle!Life("open", rpass.base.hash, AppliedOf(q)', {})
    BY <1>1, <1>2, LifeShownNext
  <1>5. QED
    BY <1>1, <1>3, <1>4, OpenLife DEF LifeStep

\* The end of Reconcile confirms what it found applied, and says Ready just when that is
\* all of the plan.
LEMMA ConcludeLife ==
  ASSUME TypeOK, LifeInv, NEW q \in Request, ConcludeWrite(q)
  PROVE  LifeStep(q)
  <1>1. /\ rpass # None /\ rpass.req = q /\ rpass.pc = "work" /\ mig[q] = rpass.base
        /\ mig'[q] # None /\ mig'[q].refs = ConcludedRefs /\ mig'[q].hash = rpass.base.hash
        /\ mig'[q].phase = IF ReadyNow THEN "Ready" ELSE "Preparing"
        /\ rpass \in MigrationPass
    BY NoneIsNoRecord DEF ConcludeWrite, TypeOK, MigrationTypeOK
  <1>2. DetachedOf(q)' = {}
    <2>1. ASSUME NEW k \in Works(q) PROVE ~mig'[q].refs[k].detached
      <3>1. k \in Work
        BY PlannedAt
      <3>2. QED
        BY <1>1, <3>1, ConcludedFields DEF LifeInv, NothingDetachedEarly
    <2>2. QED
      BY <2>1 DEF DetachedOf
  <1>3. AppliedOf(q)' \in SUBSET Works(q) /\ (ReadyNow <=> AppliedOf(q)' = Works(q))
    <2>1. ReadyNow <=> \A k \in Works(q) : mig'[q].refs[k].applied
      BY ReadyIsAll DEF LifeInv, MissesInv
    <2>2. QED
      BY <2>1 DEF AppliedOf
  <1>4. LifeOf(q)' = Lifecycle!Life(IF AppliedOf(q)' = Works(q) THEN "ready" ELSE "open",
                                    rpass.base.hash, AppliedOf(q)', {})
    BY <1>1, <1>2, <1>3, LifeShownNext
  <1>5. QED
    BY <1>1, <1>3, <1>4, OpenLife DEF LifeStep

\* The end of a cleanup pass releases what it found detached, and says Completed just
\* when that is all of the plan.
LEMMA CleanupLife ==
  ASSUME TypeOK, LifeInv, NEW q \in Request, CleanupWrite(q)
  PROVE  LifeStep(q)
  <1>1. /\ cpass # None /\ cpass.req = q /\ cpass.pc = "work" /\ mig[q] = cpass.base
        /\ mig[q] # None /\ mig[q].phase = "Ready"
        /\ mig'[q] # None /\ mig'[q].refs = cpass.refs /\ mig'[q].hash = mig[q].hash
        /\ mig'[q].phase = IF cpass.all THEN "Completed" ELSE "Ready"
    BY BaseTyped, NoneIsNoRecord DEF CleanupWrite, LifeInv, PassesApart
  <1>2. \A k \in Works(q) : /\ mig[q].refs[k].applied
                            /\ RefKept(mig[q].refs[k], mig'[q].refs[k])
    BY <1>1, PlannedAt DEF LifeInv, ReadyMeansApplied, PassesApart
  <1>3. AppliedOf(q) = Works(q) /\ AppliedOf(q)' = Works(q)
    BY <1>2 DEF AppliedOf, RefKept
  <1>4. DetachedOf(q) \subseteq DetachedOf(q)' /\ DetachedOf(q)' \in SUBSET Works(q)
    BY <1>2 DEF DetachedOf, RefKept
  <1>5. cpass.all <=> DetachedOf(q)' = Works(q)
    <2>1. cpass.all <=> \A k \in Works(q) : mig'[q].refs[k].detached
      BY CompletedIsAll DEF LifeInv, MissesInv
    <2>2. QED
      BY <2>1 DEF DetachedOf
  <1>6. LifeOf(q) = Lifecycle!Life("ready", mig[q].hash, Works(q), DetachedOf(q))
    BY <1>1, <1>3, LifeShown
  <1>7. LifeOf(q)' = Lifecycle!Life(IF DetachedOf(q)' = Works(q) THEN "completed" ELSE "ready",
                                    mig[q].hash, Works(q), DetachedOf(q)')
    BY <1>1, <1>3, <1>5, LifeShownNext
  <1>8. /\ LifeOf(q).stage = "ready" /\ LifeOf(q).plan = mig[q].hash
        /\ LifeOf(q).released = DetachedOf(q)
    BY <1>6, LifeFields
  <1>9. QED
    BY <1>4, <1>7, <1>8 DEF LifeStep

\* A record that is filed, that goes or that nobody writes.
LEMMA UnwrittenLife ==
  ASSUME TypeOK, [Next]_vars, LifeInv, NEW q \in Request,
         mig'[q] = mig[q] \/ mig'[q] = None \/ (born[q] = 0 /\ mig'[q] = NewMigration)
  PROVE  LifeStep(q)
  <1> USE DEF LifeInv
  <1>1. CASE mig'[q] # None /\ mig'[q] = mig[q]
    BY <1>1 DEF LifeOf, StageOf, LifeStep
  <1>2. CASE mig'[q] = None /\ mig[q] = None
    <2>1. born'[q] = 0 <=> born[q] = 0
      BY <1>2, FiledByRecord
    <2>2. QED
      BY <1>2, <2>1, LifeShown, LifeShownNext DEF LifeStep
  <1>3. CASE mig'[q] = None /\ mig[q] # None
    <2>1. born'[q] # 0
      BY <1>3, BornKept DEF NothingBeforeFiling
    <2>2. LifeOf(q)' = Lifecycle!Life("gone", None, {}, {})
      BY <1>3, <2>1, LifeShownNext
    <2>3. LifeOf(q).stage \in {"open", "ready", "completed"}
      BY <1>3 DEF LifeOf, StageOf
    <2>4. QED
      BY <2>2, <2>3 DEF LifeStep
  <1>4. CASE born[q] = 0 /\ mig'[q] = NewMigration
    <2>1. LifeOf(q).stage = "unfiled"
      BY <1>4, LifeShown, LifeFields DEF NothingBeforeFiling
    <2>2. mig'[q] # None
      BY <1>4, NewMigrationTyped, NoneIsNoRecord
    <2>3. AppliedOf(q)' = {} /\ DetachedOf(q)' = {}
      <3>1. \A k \in Works(q) : ~mig'[q].refs[k].applied /\ ~mig'[q].refs[k].detached
        BY <1>4, PlannedAt DEF NewMigration, NewRef
      <3>2. QED
        BY <3>1 DEF AppliedOf, DetachedOf
    <2>4. LifeOf(q)' = Lifecycle!Life("open", None, {}, {})
      <3>1. mig'[q].phase = "New" /\ mig'[q].hash = None
        BY <1>4 DEF NewMigration
      <3>2. QED
        BY <2>2, <2>3, <3>1, LifeShownNext
    <2>5. QED
      BY <2>1, <2>4 DEF LifeStep
  <1>5. QED
    BY <1>1, <1>2, <1>3, <1>4

\* Each request goes through its life.
LEMMA LifeSteps ==
  ASSUME TypeOK, [Next]_vars, LifeInv
  PROVE  \A q \in Request : LifeStep(q)
  <1>1. SUFFICES ASSUME NEW q \in Request PROVE LifeStep(q)
    OBVIOUS
  <1>2. RecordMove(q)
    BY RecordMoves
  <1>3. CASE Written(q)
    BY <1>3, GateLife, IntentLife, ConcludeLife, CleanupLife DEF Written
  <1>4. QED
    BY <1>2, <1>3, UnwrittenLife DEF RecordMove

\* At most one request lives on in a step.
LEMMA OneLives ==
  ASSUME TypeOK, [Next]_vars, NothingBeforeFiling
  PROVE  \/ \A q \in Request : LifeOf(q)' = LifeOf(q)
         \/ \E p \in Request : \A q \in Request \ {p} : LifeOf(q)' = LifeOf(q)
  <1>1. ASSUME NEW q \in Request, mig'[q] = mig[q] PROVE LifeOf(q)' = LifeOf(q)
    <2>1. CASE mig[q] # None
      BY <1>1, <2>1 DEF LifeOf, StageOf
    <2>2. CASE mig[q] = None
      <3>1. born'[q] = 0 <=> born[q] = 0
        BY <1>1, <2>2, FiledByRecord
      <3>2. QED
        BY <1>1, <2>2, <3>1, LifeShown, LifeShownNext
    <2>3. QED
      BY <2>1, <2>2
  <1>2. CASE mig' = mig
    BY <1>1, <1>2
  <1>3. ASSUME NEW p \in Request, Queued(p)
        PROVE  \A q \in Request \ {p} : LifeOf(q)' = LifeOf(q)
    BY <1>1, <1>3 DEF Queued
  <1>4. QED
    BY <1>2, <1>3, FeedMoves DEF FeedMove, Delivered, Relisted

\* The lives that the refinement shows to RequestLifecycle.
Lives == [q \in Request |-> LifeOf(q)]

\* One step of a life is a step of the abstract specification.
LEMMA LifeNext ==
  ASSUME NEW p \in Request, LifeStep(p), \A q \in Request \ {p} : LifeOf(q)' = LifeOf(q)
  PROVE  [Lifecycle!Next]_Lives
  <1>1. \A new : LifeOf(p)' = new => Lives' = [Lives EXCEPT ![p] = new]
    BY DEF Lives
  <1>2. \A q \in Request : Lives[q] = LifeOf(q)
    BY DEF Lives
  <1>3. CASE LifeOf(p)' = LifeOf(p)
    BY <1>3 DEF Lives
  <1>4. CASE /\ LifeOf(p).stage = "unfiled"
             /\ LifeOf(p)' = Lifecycle!Life("open", None, {}, {})
    <2>1. Lifecycle!File(p)
      BY <1>1, <1>2, <1>4, Zenon DEF Lifecycle!File, Lives
    <2>2. QED
      BY <2>1 DEF Lifecycle!Next
  <1>5. CASE /\ LifeOf(p).stage = "open" /\ LifeOf(p).plan = None
             /\ \E s \in Snapshot : LifeOf(p)' = Lifecycle!Life("open", s, {}, {})
    <2>1. Lifecycle!RecordPlan(p)
      BY <1>1, <1>2, <1>5, Zenon DEF Lifecycle!RecordPlan, Lives
    <2>2. QED
      BY <2>1 DEF Lifecycle!Next
  <1>6. CASE /\ LifeOf(p).stage = "open" /\ LifeOf(p).plan # None
             /\ \A q \in Request : Lifecycle!Rivals(q, p) => LifeOf(q).confirmed = {}
             /\ \E S \in SUBSET Works(p) :
                  LifeOf(p)' = Lifecycle!Life(IF S = Works(p) THEN "ready" ELSE "open",
                                              LifeOf(p).plan, S, {})
    <2>1. \A q \in Request : Lifecycle!Rivals(q, p) => ~Lifecycle!Confirmed(q)
      BY <1>2, <1>6, Zenon DEF Lifecycle!Confirmed, Lives
    <2>2. Lifecycle!Confirm(p)
      BY <1>1, <1>2, <1>6, <2>1, Zenon DEF Lifecycle!Confirm, Lives
    <2>3. QED
      BY <2>2 DEF Lifecycle!Next
  <1>7. CASE /\ LifeOf(p).stage = "ready"
             /\ \E S \in SUBSET Works(p) :
                  /\ LifeOf(p).released \subseteq S
                  /\ LifeOf(p)' = Lifecycle!Life(IF S = Works(p) THEN "completed" ELSE "ready",
                                                 LifeOf(p).plan, Works(p), S)
    <2>1. Lifecycle!Release(p)
      BY <1>1, <1>2, <1>7, Zenon DEF Lifecycle!Release, Lives
    <2>2. QED
      BY <2>1 DEF Lifecycle!Next
  <1>8. CASE /\ LifeOf(p).stage \in {"open", "ready", "completed"}
             /\ LifeOf(p)' = Lifecycle!Life("gone", None, {}, {})
    <2>1. Lifecycle!Delete(p)
      BY <1>1, <1>2, <1>8, Zenon DEF Lifecycle!Delete, Lives
    <2>2. QED
      BY <2>1 DEF Lifecycle!Next
  <1>9. QED
    BY <1>3, <1>4, <1>5, <1>6, <1>7, <1>8 DEF LifeStep

\* A request begins unfiled, or planned by an earlier version.
LEMMA LifeInit == Init => Lifecycle!Init
  <1> SUFFICES ASSUME Init PROVE Lifecycle!Init
    OBVIOUS
  <1>1. snapshot \in Snapshot \cup {None} /\ (Legacy # {} => snapshot # None)
    BY DEF Init, StoreInit
  <1>2. ASSUME NEW q \in Request
        PROVE  LifeOf(q) = IF q \in Legacy THEN Lifecycle!Life("open", snapshot, {}, {})
                                           ELSE Lifecycle!Life("unfiled", None, {}, {})
    <2>1. CASE q \in Legacy
      <3>1. mig[q] = LegacyMigration(snapshot)
        BY <2>1 DEF Init, StoreInit
      <3>2. mig[q] # None
        <4>1. mig[q] \in Migration
          BY <1>1, <2>1, <3>1, NewMigrationTyped DEF LegacyMigration, Migration, Phase
        <4>2. QED
          BY <4>1, NoneIsNoRecord
      <3>3. /\ mig[q].phase = "Preparing" /\ mig[q].hash = snapshot
            /\ mig[q].refs = [k \in Work |-> NewRef]
        BY <3>1 DEF LegacyMigration, NewMigration
      <3>4. \A k \in Works(q) : ~mig[q].refs[k].applied /\ ~mig[q].refs[k].detached
        BY <3>3, PlannedAt DEF NewRef
      <3>5. AppliedOf(q) = {} /\ DetachedOf(q) = {}
        BY <3>4 DEF AppliedOf, DetachedOf
      <3>6. QED
        BY <2>1, <3>2, <3>3, <3>5, LifeShown
    <2>2. CASE q \notin Legacy
      <3>1. mig[q] = None /\ born[q] = 0
        BY <2>2 DEF Init, StoreInit
      <3>2. QED
        BY <2>2, <3>1, LifeShown
    <2>3. QED
      BY <2>1, <2>2
  <1>3. QED
    BY <1>1, <1>2, Zenon DEF Lifecycle!Init

\* Whatever the two reconcilers, their stale caches and their crashes do, each write of a
\* status is one step of a request's life: its plan stays, the claims of two requests are
\* not confirmed at a time, Ready means all of its Works confirmed and Completed all of
\* them released, in this order (the status of a PVMigration).
THEOREM LifecycleImplemented == Spec => ImplementsLifecycle
  <1>1. /\ TypeOK /\ SafetyInv /\ ReceiptInv /\ ResInv /\ MissesInv /\ [Next]_vars
        => [Lifecycle!Next]_Lives
    <2>1. SUFFICES ASSUME TypeOK, LifeInv, [Next]_vars PROVE [Lifecycle!Next]_Lives
      BY DEF LifeInv, SafetyInv, PlanInv, ReceiptInv, ResInv
    <2>2. CASE \A q \in Request : LifeOf(q)' = LifeOf(q)
      BY <2>2 DEF Lives
    <2>3. ASSUME NEW p \in Request, \A q \in Request \ {p} : LifeOf(q)' = LifeOf(q)
          PROVE  [Lifecycle!Next]_Lives
      BY <2>1, <2>3, LifeSteps, LifeNext
    <2>4. QED
      BY <2>1, <2>2, <2>3, OneLives DEF LifeInv
  <1>2. Lifecycle!Spec <=> Lifecycle!Init /\ [][Lifecycle!Next]_Lives
    BY DEF Lifecycle!Spec, Lives
  <1>3. QED
    BY <1>1, <1>2, LifeInit, TypeCorrect, SafetyHolds, ReceiptHolds, ReservationHolds, MissesHold,
       PTL DEF Spec, ImplementsLifecycle
=============================================================================
