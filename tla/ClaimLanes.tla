----------------------------- MODULE ClaimLanes -----------------------------
(***************************************************************************)
(* Which claims a StatefulSet uses, as the two parts of the program see    *)
(* it: the claims generated from its templates, by ordinal, and the claims *)
(* its pods name themselves (the standalone ones).  The collector on the   *)
(* member and the gate on the management side both read a StatefulSet in   *)
(* this way.  No state lives here.                                         *)
(***************************************************************************)
EXTENDS Integers, FiniteSets

CONSTANTS
    Template,  \* names of the volume claim templates
    Plain,     \* claim names that no template generates
    Refs,      \* claims the pod template names, with the volume that does
    Width      \* bits of the integer type int32 of replicas and ordinals

MaxInt == 2^(Width - 1) - 1

\* A generated name, template-set-ordinal, can be told from a plain one.
Claim == (Template \X (0..(2 * MaxInt))) \cup Plain

ASSUME LanesAssumption ==
    /\ Width \in Nat \ {0} /\ MaxInt \in Nat
    /\ Plain \cap (Template \X Nat) = {}
    /\ \A r \in Refs : r.claim \in Claim

\* The part of a StatefulSet that counts here.
StatefulSet == [uid : Nat, start : 0..MaxInt, replicas : 0..MaxInt]

\* Two's complement in Width bits.
Int32(n) == ((n + MaxInt + 1) % (2 * (MaxInt + 1))) - (MaxInt + 1)

-----------------------------------------------------------------------------
\* volumeclaims.Standalone counts the generated names in int64.
Generated(s) == Template \X (s.start..(s.start + s.replicas - 1))

\* A volume named like a template gives way to it.
Explicit == {r.claim : r \in {x \in Refs : x.volume \notin Template}}

StandaloneClaims(s) == Explicit \ Generated(s)

\* Mutant: the last ordinal is left out.
TemplateClaimsShort(s) ==
    Template \X {o \in 0..MaxInt : s.start <= o /\ o < Int32(s.start + s.replicas) - 1}

\* collect counts the ordinals of the templates in int32.
TemplateClaims(s) ==
    Template \X {o \in 0..MaxInt : s.start <= o /\ o < Int32(s.start + s.replicas)}

\* What a collection goes through.
CollectedClaims(s) == TemplateClaims(s) \cup StandaloneClaims(s)
=============================================================================
