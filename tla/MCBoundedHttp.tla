--------------------------- MODULE MCBoundedHttp ---------------------------
(***************************************************************************)
(* BoundedHttp for TLC: three clients for two slots.                       *)
(***************************************************************************)
EXTENDS BoundedHttp

=============================================================================
