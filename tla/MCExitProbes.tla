---------------------------- MODULE MCExitProbes ----------------------------
(***************************************************************************)
(* Instances of ExitProbes for TLC: two nodes and a listener, two runs of  *)
(* which the first can be stopped while the second is asked for.           *)
(***************************************************************************)
EXTENDS ExitProbes
=============================================================================
