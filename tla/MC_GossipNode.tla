---------------------------- MODULE MC_GossipNode ----------------------------
(* Values for the constants of GossipNode.                                 *)
EXTENDS GossipNode, TLC

CONSTANTS p1, p2, c1, c2, c3, me

(* Two peers, one bootstrap host, one of them sorting above us.  As in     *)
(* SimulateNetwork, the SetBootstrap list holds our own address too.       *)
MCPeers2 == {p1, p2}
MCBootArg == {p1, me}
MCGreater2 == {p2}
MCSlots2 == {c1, c2}

(* The bootstrap host given by -gossip_bootstrap instead (server.go).     *)
MCBootArgSelf == {me}
MCBootFlag == {p1}

(* A node alone, as SimulateNetwork with one node: its bootstrap list is   *)
(* its own address.                                                       *)
MCNoPeers == {}

(* Client slots are interchangeable: only compared for equality. *)
SlotSymmetry2 == Permutations(MCSlots2)

=============================================================================
