------------------------------- MODULE InfoStore -------------------------------
(***************************************************************************)
(* The groups of a node's infostore as the Gossip API of                   *)
(* src/gossip/gossip.go reaches them: RegisterGroup, AddInfo and           *)
(* GetGroupInfos, each one critical section under g.mu.  infostore.go and  *)
(* group.go are not under src/, so registration, admission and eviction    *)
(* follow the spec (sections 3 and 4.1): a MIN group keeps the limit      *)
(* smallest values, a MAX group the limit largest; a full group evicts its *)
(* worst member for a better value and rejects a strictly worse one.       *)
(* Values are ordered by info.less (InfoOps), whose Ordered branch is     *)
(* StoreAttributes.Less of src/storage/config.go.  Keys are only           *)
(* published here, never expired: TTLs and the Stale check are the       *)
(* subject of GossipExchange.                                              *)
(***************************************************************************)
EXTENDS InfoOps, FiniteSets

CONSTANTS
    Keys,        \* info keys, sequences of characters
    GroupDefs,   \* prefix -> [limit, kind]: the groups a caller may register
    Values,      \* key -> the info values its publisher may add
    None         \* no value

VARIABLES
    registered,  \* prefixes of the registered groups
    infos,       \* keys held in the plain info map (their values are not compared)
    members,     \* group members: key -> value or None
    discarded    \* history: [group, val] for each value a group evicted or rejected

vars == <<registered, infos, members, discarded>>

Init ==
    /\ registered = {}
    /\ infos = {}
    /\ members = [k \in Keys |-> None]
    /\ discarded = {}

-----------------------------------------------------------------------------
(* The order of one group: x is better than y when a MIN group would keep  *)
(* x before y, by info.less on the two values.                             *)
Better(kind, x, y) ==
    IF kind = "min" THEN less([Val |-> x], [Val |-> y]) = TRUE
                    ELSE less([Val |-> y], [Val |-> x]) = TRUE

Members(p) == {k \in Keys : members[k] # None /\ infoPrefix(k) = p}

(* The members no other member is worse than: the eviction candidates.    *)
(* The group's scan may end on any of them.                                *)
Worst(p) ==
    LET kind == GroupDefs[p].kind
    IN {w \in Members(p) : \A m \in Members(p) : ~Better(kind, members[w], members[m])}

(* RegisterGroup(prefix, limit, typeOf): registerGroup fails when the      *)
(* prefix is taken and changes nothing.                                    *)
RegisterGroup(p) ==
    /\ p \notin registered
    /\ registered' = registered \cup {p}
    /\ UNCHANGED <<infos, members, discarded>>

(* AddInfo(key, val, ttl): addInfo stores the info in the group of its     *)
(* prefix when one is registered, else in the plain map.  A member's value *)
(* is replaced in place; the group's earlier verdicts no longer bind it.   *)
(* A new key joins a group with room; a full group evicts a worst member   *)
(* for it, or returns GroupRejected when it is strictly worse than that    *)
(* member.                                                                  *)
AddInfo(k, v) ==
    LET p == infoPrefix(k)
        kind == GroupDefs[p].kind
    IN
    \/ /\ p \notin registered
       /\ infos' = infos \cup {k}
       /\ UNCHANGED <<registered, members, discarded>>
    \/ /\ p \in registered /\ members[k] # None
       /\ members' = [members EXCEPT ![k] = v]
       /\ discarded' = {d \in discarded : d.group # p}
       /\ UNCHANGED <<registered, infos>>
    \/ /\ p \in registered /\ members[k] = None
       /\ Cardinality(Members(p)) < GroupDefs[p].limit
       /\ members' = [members EXCEPT ![k] = v]
       /\ UNCHANGED <<registered, infos, discarded>>
    \/ /\ p \in registered /\ members[k] = None
       /\ Cardinality(Members(p)) >= GroupDefs[p].limit
       /\ \E w \in Worst(p) :
            IF Better(kind, members[w], v)
              THEN /\ discarded' = discarded \cup {[group |-> p, val |-> v]}
                   /\ UNCHANGED members
              ELSE /\ members' = [members EXCEPT ![w] = None, ![k] = v]
                   /\ discarded' = discarded \cup {[group |-> p, val |-> members[w]]}
       /\ UNCHANGED <<registered, infos>>

(* GetGroupInfos(prefix): an error for an unregistered group, else the     *)
(* members' values.                                                         *)
GetGroupInfos(p) ==
    IF p \notin registered THEN [ok |-> FALSE, vals |-> {}]
    ELSE [ok |-> TRUE, vals |-> {members[k] : k \in Members(p)}]

Next ==
    \/ \E p \in DOMAIN GroupDefs : RegisterGroup(p)
    \/ \E k \in Keys : \E v \in Values[k] : AddInfo(k, v)

Spec == Init /\ [][Next]_vars

-----------------------------------------------------------------------------
(* Spec section 3: a MIN group retains the limit smallest values, a MAX    *)
(* group the limit largest.  No value a group evicted or rejected is       *)
(* better than a value GetGroupInfos still returns, however many adds      *)
(* came in between.  About the eviction in addInfo and the order           *)
(* info.less and StoreAttributes.Less give it.  No run keeps it: with a   *)
(* zero capacity among the values it fails (README, observations), and    *)
(* without one it holds by the spec-modelled eviction alone.               *)
GroupKeepsBest ==
    \A d \in discarded :
        \A v \in GetGroupInfos(d.group).vals : ~Better(GroupDefs[d.group].kind, d.val, v)

=============================================================================
