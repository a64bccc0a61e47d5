------------------------- MODULE MCSessionRegistry -------------------------
(***************************************************************************)
(* SessionRegistry for TLC: two clients, one template.                     *)
(***************************************************************************)
EXTENDS SessionRegistry

CONSTANTS a, b, t
=============================================================================
