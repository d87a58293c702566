----------------------------- MODULE MCRunExport -----------------------------
(* RunExport on a small instance. *)
EXTENDS RunExport
=============================================================================
