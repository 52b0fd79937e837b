----------------------------- MODULE Dissemination -----------------------------
(***************************************************************************)
(* What gossip promises of the infostores, with the protocol left out      *)
(* (spec.md section 1 and "Ordering guarantees"): a node publishes a new   *)
(* version of a key it may publish, and a node learns versions that were    *)
(* published somewhere, never going back to an older origination          *)
(* timestamp ("last-writer-wins by wall clock").  Once publishing stops,   *)
(* every node ends with the same version of every key.                     *)
(***************************************************************************)
EXTENDS Naturals

CONSTANTS
    Nodes,       \* node addresses
    Keys,        \* info keys
    Publishers,  \* [Keys -> SUBSET Nodes]: the nodes that call AddInfo on a key
    MaxTs,       \* origination timestamps are 1..MaxTs
    None         \* the origin of an absent key

VARIABLES
    know,        \* know[n][k]: the version of k in n's infostore
    versions     \* every version ever published: [key, ts, origin]

vars == <<know, versions>>

Version == [ts : 0..MaxTs, origin : Nodes \cup {None}]

Absent == [ts |-> 0, origin |-> None]

Published(k) == {[ts |-> v.ts, origin |-> v.origin] : v \in {w \in versions : w.key = k}}

Init ==
    /\ know = [n \in Nodes |-> [k \in Keys |-> Absent]]
    /\ versions = {}

(* A local AddInfo of a newer timestamp.                                   *)
Publish(n, k, t) ==
    /\ n \in Publishers[k]
    /\ t > know[n][k].ts
    /\ know' = [know EXCEPT ![n][k] = [ts |-> t, origin |-> n]]
    /\ versions' = versions \cup {[key |-> k, ts |-> t, origin |-> n]}

(* A merge: any set of keys moves to published versions of strictly later  *)
(* timestamps, in one step.                                                *)
Learnable(n) ==
    {new \in [Keys -> Version] :
        /\ new # know[n]
        /\ \A k \in Keys : \/ new[k] = know[n][k]
                         \/ (new[k] \in Published(k) /\ new[k].ts > know[n][k].ts)}

Learn(n) ==
    /\ know' \in [Nodes -> [Keys -> Version]]
    /\ know'[n] \in Learnable(n)
    /\ \A m \in Nodes \ {n} : know'[m] = know[m]
    /\ UNCHANGED versions

Next ==
    \/ \E n \in Nodes, k \in Keys, t \in 1..MaxTs : Publish(n, k, t)
    \/ \E n \in Nodes : Learn(n)

Spec == Init /\ [][Next]_vars

(* All infostores hold the same version of every key.                     *)
Agreed == \A k \in Keys, n, m \in Nodes : know[n][k] = know[m][k]

(* Eventual consistency: the infostores end in agreement and stay there.  *)
Converges == <>[]Agreed

=============================================================================
