----------------------------- MODULE MCSnapshot -----------------------------
(***************************************************************************)
(* Small instances of SnapshotPipeline.                                    *)
(***************************************************************************)
EXTENDS SnapshotPipeline

CONSTANTS data, shared, v1, v2

\* One claim template; the pods also name the claim of ordinal 1.
OneTemplate == {data}
AliasOf1    == {[volume |-> shared, claim |-> <<data, 1>>]}
TwoOrdinals == <<<<data, 0>>, <<data, 1>>>>

UpAndDown   == {<<0, 0>>, <<0, 1>>, <<0, 2>>}
LastOrdinal == {<<0, 1>>, <<1, 1>>}
=============================================================================
