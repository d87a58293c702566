----------------------------- MODULE MCTabSession -----------------------------
(* TabSession on a small instance. *)
EXTENDS TabSession
=============================================================================
