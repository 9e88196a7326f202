------------------------ MODULE MCPortalCredentials ------------------------
(* An instance of PortalCredentials for TLC: two requests at a time. *)
EXTENDS PortalCredentials, TLC

CONSTANTS h1, h2

TwoHandlers == {h1, h2}
HandlerSymmetry == Permutations(TwoHandlers)
=============================================================================
