------------------------------ MODULE MCPornrips ------------------------------
(* A small instance of the PornRips sync, for TLC, in which a manual trigger    *)
(* runs beside the scheduled run.                                               *)
EXTENDS PornripsFeed
=============================================================================
