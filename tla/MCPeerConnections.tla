--------------------------- MODULE MCPeerConnections ---------------------------
(***************************************************************************)
(* Small instances of PeerConnections.                                     *)
(***************************************************************************)
EXTENDS PeerConnections
=============================================================================
