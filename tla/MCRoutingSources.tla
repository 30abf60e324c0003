-------------------------- MODULE MCRoutingSources --------------------------
(***************************************************************************)
(* An instance of RoutingSources for TLC: one source, stored or not, that  *)
(* is switched on and off, deleted and published, one preview kept, and    *)
(* two calls at a time.                                                    *)
(***************************************************************************)
EXTENDS RoutingSources
=============================================================================
