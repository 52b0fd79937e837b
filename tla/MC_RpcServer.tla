------------------------------ MODULE MC_RpcServer ------------------------------
(* Three connections from two peers: two from p1, so that one connection    *)
(* of a peer can close while another of the same peer is served.           *)
EXTENDS RpcServer, TLC

CONSTANTS k1, k2, k3, p1, p2

MCConns == {k1, k2, k3}
MCPeers == {p1, p2}
MCPeerOf == (k1 :> p1) @@ (k2 :> p1) @@ (k3 :> p2)
=============================================================================
