------------------------------- MODULE MC_InfoOps -------------------------------
(* Checks infoPrefix against the spec's group name, over every key of up  *)
(* to MaxKeyLen characters from {a, b, .} and over the keys the groups of *)
(* InfoStore hold: a MAX group of store capacities and a MIN group of      *)
(* int64 values.                                                           *)
EXTENDS InfoStore, TLC

CONSTANTS MaxKeyLen, FewBlocks

ProbeKeys == BoundedSeq({"a", "b", Dot}, MaxKeyLen)

(* Group "s": the capacities of three stores with a block size of 1 and   *)
(* FewBlocks or 2 blocks, as RocksDB.capacity reports them, kept by the    *)
(* most available space; FewBlocks = 0 is a Statfs failure.  Group "n":   *)
(* two int64 values, keep the least.                                       *)
S == <<"s">>
N == <<"n">>
Key(p, c) == p \o <<Dot, c>>
StoreKeys == {Key(S, "a"), Key(S, "b"), Key(S, "c")}
IntKeys == {Key(N, "a"), Key(N, "b")}
MCKeys == StoreKeys \cup IntKeys

StoreVals == {[type |-> "Ordered", v |-> [Capacity |-> Capacity(1, bl, av)]] :
                 bl \in {FewBlocks, 2}, av \in 0..2}
MCValues == [k \in MCKeys |->
                IF k \in StoreKeys
                  THEN {x \in StoreVals : x.v.Capacity.Available <= x.v.Capacity.Capacity}
                  ELSE {[type |-> "int64", v |-> i] : i \in 1..2}]
MCGroupDefs == (S :> [limit |-> 2, kind |-> "max"]) @@ (N :> [limit |-> 1, kind |-> "min"])

-----------------------------------------------------------------------------
(* Reference for infoPrefix (spec section 3: "the prefix up to the last    *)
(* '.' names its group"): the longest p such that p followed by "." starts *)
(* the key; the empty prefix when the key has no ".".                      *)
DottedPrefixes(k) == {p \in {SubSeq(k, 1, j) : j \in 0..Len(k)} : IsPrefix(p \o <<Dot>>, k)}
RefPrefix(k) == IF DottedPrefixes(k) = {} THEN <<>>
                ELSE CHOOSE p \in DottedPrefixes(k) : \A q \in DottedPrefixes(k) : Len(q) <= Len(p)

ProbedPrefixesMatch == \A k \in ProbeKeys : infoPrefix(k) = RefPrefix(k)
StoredKeys == infos \cup {k \in Keys : members[k] # None}

(* infoPrefix names the group of every key as the spec defines it: the     *)
(* text before the LAST dot (groups like "node.1.capacity" share           *)
(* "node.1"); about strings.LastIndex and the slice bound in infoPrefix.   *)
(* The probe keys are checked once, the keys the store holds in every     *)
(* state.                                                                  *)
PrefixIsGroupName ==
    /\ ProbedPrefixesMatch
    /\ \A k \in StoredKeys : infoPrefix(k) = RefPrefix(k)

=============================================================================
