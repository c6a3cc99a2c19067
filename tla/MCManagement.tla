---------------------------- MODULE MCManagement ----------------------------
(***************************************************************************)
(* Small instances of Management.                                          *)
(***************************************************************************)
EXTENDS Management, TLC

CONSTANTS q1, q2, ka, kb, s1, s2

\* One request for one volume of a claim template, two, or a standalone pair.
OneVolume  == [q \in {q1} |-> <<ka>>]
TwoVolumes == [q \in {q1} |-> <<ka, kb>>]

\* Two requests for the same claim.
SameVolume == [q \in {q1, q2} |-> <<ka>>]

NoPairs == <<>>
OnePair == ka :> kb

UIDOrder1 == q1 :> 1
UIDOrder2 == (q1 :> 1) @@ (q2 :> 2)

\* The ResourceBinding as the procedure asks for it, and with the deviations
\* that a disturbance brings.
Held     == [matches |-> TRUE, suspended |-> TRUE, target |-> "absent", hold |-> None]
Selected == [Held EXCEPT !.target = "alone", !.hold = q1]

HeldOnly     == {Held}
HeldOrLoosed == {Held, [Held EXCEPT !.suspended = FALSE]}
AnyBinding ==
    {Held, Selected, [Held EXCEPT !.suspended = FALSE], [Held EXCEPT !.target = "split"],
     [Selected EXCEPT !.hold = None], [Held EXCEPT !.matches = FALSE]}

\* Snapshots are told apart only by being equal or not.
SnapshotSymmetry == Permutations(Snapshot)
=============================================================================
