------------------------------ MODULE MCNodes -------------------------------
(* Nodes with two nodes, of two processes each at most.                      *)
EXTENDS Nodes

CONSTANTS east, west

\* The first process of one node survives the death of its children.
Supervisors == {<<east, 1>>}
=============================================================================
