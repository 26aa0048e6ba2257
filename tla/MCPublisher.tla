---------------------------- MODULE MCPublisher ----------------------------
(***************************************************************************)
(* Small instances of Publisher for TLC.  There is no symmetry reduction,  *)
(* which liveness does not allow.                                          *)
(***************************************************************************)
EXTENDS Publisher
=============================================================================
