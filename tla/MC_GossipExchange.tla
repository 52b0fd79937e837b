--------------------------- MODULE MC_GossipExchange ---------------------------
(* Instances of GossipExchange: two nodes that bootstrap each other, so   *)
(* each runs a client to the other, with two keys; or three nodes where   *)
(* one key reaches n2 both directly and relayed through n3.               *)
EXTENDS GossipExchange, TLC

CONSTANTS n1, n2, n3, k1, k2

MCNodes == {n1, n2}

(* n1's address sorts before n2's.                                         *)
MCRank == (n1 :> 1) @@ (n2 :> 2)

MCLinks == {<<n1, n2>>, <<n2, n1>>}

MCKeys == {k1, k2}

MCNodes3 == {n1, n2, n3}

MCRank3 == (n1 :> 1) @@ (n2 :> 2) @@ (n3 :> 3)

(* n1 dials n2 and n3, and n3 dials n2: n1's infos reach n2 on two paths, *)
(* one of them relayed, so an older version can arrive after a newer one. *)
MCLinksTri == {<<n1, n2>>, <<n3, n2>>, <<n1, n3>>}

(* One key, published at n1.                                               *)
MCKey1 == {k1}
MCOneKey == k1 :> {n1}

(* Each key has one origin, as the sentinel and node count of node 0.     *)
MCOwnKeys == (k1 :> {n1}) @@ (k2 :> {n2})

=============================================================================
