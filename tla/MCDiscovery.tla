---------------------------- MODULE MCDiscovery ----------------------------
(***************************************************************************)
(* Small instances of Discovery.                                           *)
(***************************************************************************)
EXTENDS Discovery

CONSTANTS aws, gcp

OneOrBoth == {<<aws>>, <<gcp>>, <<aws, gcp>>}
=============================================================================
