------------------------------- MODULE MCPlan -------------------------------
(***************************************************************************)
(* Small instances of PlanBuilder.                                         *)
(***************************************************************************)
EXTENDS PlanBuilder

CONSTANTS data, logs, shared, nfs1, nfs2, csi

\* The claims of two templates for two ordinals; the pods name one of them
\* themselves, which is standalone while there is one replica.
Ordinals == {data, logs} \X (0..1)
AliasOf1 == {[volume |-> shared, claim |-> <<data, 1>>]}
OneOrTwo == {<<0, 1>>, <<0, 2>>}

\* A mapping that stays or goes to the other ordinal, alone or with any other,
\* sensible or not, and the moves of both ordinals.
Pairs == {{a, b} : a \in [from : {<<data, 0>>, <<data, 1>>}, to : {<<data, 1>>}] \cup
                         {[from |-> <<data, 0>>, to |-> <<data, 0>>]}, b \in Mapping}
Moves == {{[from |-> <<t, f[o]>>, to |-> <<t, o>>] : t \in {data, logs}, o \in 0..1} :
            f \in [0..1 -> 0..1]}
PairsAndMoves == Pairs \cup Moves

\* Volumes of the first identity and content, but for one claim at most: it is
\* another claim or volume, or has another content.
Usual == [c \in Ordinals |-> <<1, nfs1>>]
Unusual == {<<2, nfs1>>, <<1, nfs2>>, <<1, csi>>}
OneUnusual ==
    [workload : {1, 2},
     volume : {Usual} \cup {[Usual EXCEPT ![c] = v] : c \in Ordinals, v \in Unusual}]
=============================================================================
