-------------------------- MODULE RequestLifecycle --------------------------
(***************************************************************************)
(* What a PVMigration promises to those who only read its status: a plan   *)
(* that never changes; a claim on the target that is confirmed for one     *)
(* request at a time; Ready exactly when every Work of the plan is         *)
(* confirmed; each Work released after that, once and for good; Completed  *)
(* exactly when all of them are.  No caches, Works, member clusters or     *)
(* passes of a reconciler appear here.                                     *)
(***************************************************************************)
CONSTANTS
    Request,   \* PVMigration requests
    Snapshot,  \* source snapshots: what a plan is made from
    Needs(_),  \* the Works of a request's plan
    Planned,   \* requests that an earlier version has planned
    None       \* no plan yet

VARIABLE life   \* the life of each request

Stage == {"unfiled", "open", "ready", "completed", "gone"}

Life(stage, plan, confirmed, released) ==
    [stage |-> stage, plan |-> plan, confirmed |-> confirmed, released |-> released]

Init ==
    \E s \in Snapshot \cup {None} :
        /\ Planned # {} => s # None
        /\ life = [q \in Request |->
                     IF q \in Planned THEN Life("open", s, {}, {})
                                      ELSE Life("unfiled", None, {}, {})]

\* The plans of both need a Work of the same name, hence the same claim.
Rivals(p, q) == p # q /\ Needs(p) \cap Needs(q) # {}

Confirmed(q) == life[q].confirmed # {}

File(q) ==
    /\ life[q].stage = "unfiled"
    /\ life' = [life EXCEPT ![q] = Life("open", None, {}, {})]

RecordPlan(q) ==
    /\ life[q].stage = "open"
    /\ life[q].plan = None
    /\ \E s \in Snapshot : life' = [life EXCEPT ![q] = Life("open", s, {}, {})]

\* Until the request is ready, what is confirmed may be taken back.
Confirm(q) ==
    /\ life[q].stage = "open"
    /\ life[q].plan # None
    /\ \E S \in SUBSET Needs(q) :
        /\ S # {} => \A p \in Request : Rivals(p, q) => ~Confirmed(p)
        /\ life' = [life EXCEPT ![q] =
                      Life(IF S = Needs(q) THEN "ready" ELSE "open", life[q].plan, S, {})]

Release(q) ==
    /\ life[q].stage = "ready"
    /\ \E S \in SUBSET Needs(q) :
        /\ life[q].released \subseteq S
        /\ life' = [life EXCEPT ![q] =
                      Life(IF S = Needs(q) THEN "completed" ELSE "ready",
                           life[q].plan, Needs(q), S)]

Delete(q) ==
    /\ life[q].stage \in {"open", "ready", "completed"}
    /\ life' = [life EXCEPT ![q] = Life("gone", None, {}, {})]

Next ==
    \E q \in Request : File(q) \/ RecordPlan(q) \/ Confirm(q) \/ Release(q) \/ Delete(q)

Spec == Init /\ [][Next]_life
=============================================================================
