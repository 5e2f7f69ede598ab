----------------------------- MODULE MCSampling -----------------------------
(* Runs of at most five calls.                                             *)
EXTENDS Sampling
=============================================================================
