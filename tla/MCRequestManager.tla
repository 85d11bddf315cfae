-------------------------- MODULE MCRequestManager --------------------------
(***************************************************************************)
(* Two nodes, one of which serves thin blocks, a transaction and a block.  *)
(***************************************************************************)
EXTENDS RequestManager

CONSTANTS n1, n2

NodesVal == {n1, n2}
ThinVal == {n1}
TxnsVal == {1}
BlksVal == {2}
LeavingVal == {n1}
=============================================================================
