---------------------------- MODULE MCSparkKernel ----------------------------
(* SparkKernel on a small instance. *)
EXTENDS SparkKernel
=============================================================================
