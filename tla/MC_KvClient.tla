------------------------------- MODULE MC_KvClient -------------------------------
(* The two kv.DB implementations side by side, each with its own calls:   *)
(* DistDB over two nodes whose first range lives on n1 and whose key range *)
(* is on n1 and n2, and LocalDB.  Their steps interleave and share nothing. *)
EXTENDS TLC

CONSTANTS n1, n2, r1, r2, q1, None

VARIABLES firstRange, addrs, pc, stage, cands, err, reply, received, crashed,
          lpc, lreply, lreceived

D == INSTANCE DistDB WITH Reqs <- {r1, r2}, Nodes <- {n1, n2},
                          Meta1Locs <- {n1}, Meta2Locs <- {n1, n2}
L == INSTANCE LocalDB WITH Reqs <- {q1}

distVars == <<firstRange, addrs, pc, stage, cands, err, reply, received, crashed>>
localVars == <<lpc, lreply, lreceived>>
allVars == <<distVars, localVars>>

Init == D!Init /\ L!Init

Next == \/ D!Next /\ UNCHANGED localVars
        \/ L!Next /\ UNCHANGED distVars

FairSpec == Init /\ [][Next]_allVars
            /\ \A r \in {r1, r2} : WF_allVars(D!Goroutine(r) /\ UNCHANGED localVars)
            /\ WF_allVars(L!callRange(q1) /\ UNCHANGED distVars)

(* kv.DB's promise for DistDB: every Get, Put or Increment is answered,   *)
(* through every failed lookup and whatever gossip does.                  *)
DistRefinesKvDB == D!RefinesKvDB

=============================================================================
