----------------------------- MODULE MCConnections -----------------------------
(* Three clients and two descriptors for them.                              *)
EXTENDS Connections

===============================================================================
