--------------------------- MODULE MemberCluster ---------------------------
(***************************************************************************)
(* The Karmada controllers that carry a Work to the target cluster and its *)
(* status back, and the volume controller of that cluster.  None of them   *)
(* is in this repository: they are modelled from what the reconcilers and  *)
(* the ResourceInterpreterCustomizations expect of them.                   *)
(***************************************************************************)
EXTENDS ControlPlane

\* What the PV and PVC interpreters reflect of a member object.
ReflectionOf(o) == [uid |-> o.uid, peer |-> o.peer, good |-> o.good, owner |-> o.owner]

NewMemberObject(k, w) ==
    [uid |-> minted[k] + 1, peer |-> 0, good |-> FALSE,
     owner |-> w.owner, routed |-> w.routed]

\* The member object is there, with the labels and annotations of the manifest.
InSync(k) ==
    /\ member[k] # None
    /\ member[k].owner = works[k].owner
    /\ member[k].routed = works[k].routed

\* The execution controller applies the manifest and reports Applied=True;
\* Karmada v1.14 leaves out the observedGeneration of some conditions.
KarmadaApply(k) ==
    /\ works[k] # None
    /\ ~works[k].dying
    /\ ~InSync(k) \/ ~ConditionCurrent(works[k])
    /\ \E g \in {0, works[k].gen} : works' = [works EXCEPT ![k] = [@ EXCEPT !.cond = g]]
    /\ IF member[k] = None
       THEN /\ member' = [member EXCEPT ![k] = NewMemberObject(k, works[k])]
            /\ minted' = [minted EXCEPT ![k] = @ + 1]
       ELSE /\ member' = [member EXCEPT ![k] = [@ EXCEPT !.owner = works[k].owner,
                                                        !.routed = works[k].routed]]
            /\ UNCHANGED minted
    /\ UNCHANGED <<recordVars, births, bonds, gateVars, boundVars>>

\* The work-status controller copies the member object to the Work that the
\* routing annotations name.
KarmadaReflect(k) ==
    /\ works[k] # None
    /\ ~works[k].dying
    /\ InSync(k)
    /\ member[k].routed
    /\ works[k].status # ReflectionOf(member[k])
    /\ works' = [works EXCEPT ![k] = [@ EXCEPT !.status = ReflectionOf(member[k])]]
    /\ UNCHANGED <<recordVars, births, memberVars, gateVars, boundVars>>

\* A deleted Work goes when its finalizer has run, which removes the member
\* object unless the Work preserves it.
KarmadaFinalize(k) ==
    /\ works[k] # None
    /\ works[k].dying
    /\ works' = [works EXCEPT ![k] = None]
    /\ member' = IF works[k].preserve THEN member ELSE [member EXCEPT ![k] = None]
    /\ UNCHANGED <<recordVars, births, minted, bonds, gateVars, boundVars>>

\* A template PV becomes Available, or Bound.
SettleTemplate(k) ==
    /\ ~Standalone(k)
    /\ member[k] # None
    /\ ~member[k].good
    /\ member' = [member EXCEPT ![k] = [@ EXCEPT !.good = TRUE]]
    /\ UNCHANGED <<recordVars, workVars, minted, bonds, gateVars, boundVars>>

\* The volume controller binds a standalone PV and its PVC to each other.
BindPair(pv) ==
    LET pvc == PvcOf[pv] IN
    /\ pv \in DOMAIN PvcOf
    /\ member[pv] # None /\ member[pvc] # None
    /\ ~(member[pv].good /\ member[pvc].good)
    /\ member' = [member EXCEPT ![pv]  = [@ EXCEPT !.good = TRUE, !.peer = member[pvc].uid],
                                ![pvc] = [@ EXCEPT !.good = TRUE]]
    /\ bonds' = bonds \cup {<<pv, member[pv].uid, member[pvc].uid>>}
    /\ UNCHANGED <<recordVars, workVars, minted, gateVars, boundVars>>

\* A template PV is released or fails.
TemplateFault(k) ==
    /\ ~Standalone(k)
    /\ member[k] # None
    /\ member[k].good
    /\ member' = [member EXCEPT ![k] = [@ EXCEPT !.good = FALSE]]
    /\ Disturb
    /\ UNCHANGED <<recordVars, workVars, minted, bonds, gateVars>>

\* The PV, the PVC or both of a bound pair are deleted and made again, with
\* other UIDs, and bound no more.
PairFault(pv) ==
    LET pair == {pv, PvcOf[pv]} IN
    /\ pv \in DOMAIN PvcOf
    /\ \A k \in pair : member[k] # None /\ member[k].good
    /\ \E remade \in SUBSET pair \ {{}} :
        /\ member' = [k \in Work |->
             IF k \in pair
             THEN [member[k] EXCEPT !.good = FALSE,
                                    !.uid = IF k \in remade THEN minted[k] + 1 ELSE @]
             ELSE member[k]]
        /\ minted' = [k \in Work |-> IF k \in remade THEN minted[k] + 1 ELSE minted[k]]
    /\ Disturb
    /\ UNCHANGED <<recordVars, workVars, bonds, gateVars>>
=============================================================================
