----------------------------- MODULE MCSockets ------------------------------
(* Sockets with a few consumers and bytes.                                   *)
EXTENDS Sockets

CONSTANTS c, d
=============================================================================
