----------------------------- MODULE MCNodeCluster -----------------------------
(* Small instances of NodeCluster for TLC. *)
EXTENDS NodeCluster, TLC
==============================================================================
