--------------------------------- MODULE DistDB ---------------------------------
(***************************************************************************)
(* The distributed kv client of src/kv/db.go.  Each Get, Put or Increment  *)
(* calls sendRPC, which makes a reply channel of capacity 1 and starts a  *)
(* goroutine: getNode looks the key up in two levels of range metadata    *)
(* (lookupMeta2, which first runs lookupMeta1 on the first range's         *)
(* replicas read from gossip), resolves the chosen replica's node ID to   *)
(* an address through gossip, asserts that the request is a                *)
(* *storage.RequestHeader, calls the method there, sets Error on any      *)
(* failure and sends the reply.  Gossip is the environment: the           *)
(* KeyFirstRangeMetadata info and the node-address infos appear, change  *)
(* and expire at any time.  The range servers are not under src/, so a    *)
(* lookup answers with the constant metadata or fails.                     *)
(***************************************************************************)
EXTENDS Naturals

CONSTANTS
    Reqs,        \* the calls made through the DistDB
    Nodes,       \* node IDs
    Meta1Locs,   \* replicas of the meta2 range, as recorded in meta1
    Meta2Locs,   \* replicas of the key's range, as recorded in meta2
    None         \* an absent gossip info

VARIABLES
    firstRange,  \* gossip's KeyFirstRangeMetadata: None or its replica node IDs
    addrs,       \* node IDs whose KeyNodeID address info is live in gossip
    pc,          \* the request goroutine's program point
    stage,       \* which lookup the next replica is for: "meta1", "meta2", "node"
    cands,       \* the replica list the next ChooseRandomReplica draws from
    err,         \* the goroutine's err is non-nil
    reply,       \* what r's channel holds: "none", "ok" or "error"
    received,    \* the caller took the reply
    crashed      \* an unrecovered panic ended the process

vars == <<firstRange, addrs, pc, stage, cands, err, reply, received, crashed>>
gossipVars == <<firstRange, addrs>>
reqVars == <<pc, stage, cands, err, reply, received>>

Init ==
    /\ firstRange \in {None} \cup SUBSET Nodes
    /\ addrs \in SUBSET Nodes
    /\ pc = [r \in Reqs |-> "idle"]
    /\ stage = [r \in Reqs |-> "meta1"]
    /\ cands = [r \in Reqs |-> {}]
    /\ err = [r \in Reqs |-> FALSE]
    /\ reply = [r \in Reqs |-> "none"]
    /\ received = [r \in Reqs |-> FALSE]
    /\ crashed = FALSE

(* Any step that ends the lookup with an error goes to the reply.          *)
Fail(r) ==
    /\ err' = [err EXCEPT ![r] = TRUE]
    /\ pc' = [pc EXCEPT ![r] = "send"]

-----------------------------------------------------------------------------
(* Get, Put or Increment: sendRPC makes the channel and starts the         *)
(* goroutine; the caller gets the channel.                                 *)
sendRPC(r) ==
    /\ pc[r] = "idle"
    /\ pc' = [pc EXCEPT ![r] = "meta1"]
    /\ UNCHANGED <<gossipVars, stage, cands, err, reply, received, crashed>>

(* lookupMeta1: GetInfo(KeyFirstRangeMetadata) under g.mu; an absent or    *)
(* expired info is an error.  The replica list is copied out of gossip.    *)
lookupMeta1(r) ==
    /\ pc[r] = "meta1"
    /\ IF firstRange = None
         THEN Fail(r) /\ UNCHANGED cands
         ELSE /\ cands' = [cands EXCEPT ![r] = firstRange]
              /\ pc' = [pc EXCEPT ![r] = "pick"]
              /\ UNCHANGED err
    /\ UNCHANGED <<gossipVars, stage, reply, received, crashed>>

(* storage.ChooseRandomReplica: nil for an empty list, else any replica.  *)
ChooseRandomReplica(replicas) == IF replicas = {} THEN {None} ELSE replicas

(* ChooseRandomReplica and nodeIDToAddr, a second GetInfo under g.mu that   *)
(* fails when the node's address info is absent.  In lookupMetadata and   *)
(* in getNode alike, either failure is returned.                           *)
pickReplica(r) ==
    /\ pc[r] = "pick"
    /\ \E n \in ChooseRandomReplica(cands[r]) :
            IF n = None \/ n \notin addrs
              THEN Fail(r)
              ELSE pc' = [pc EXCEPT ![r] = IF stage[r] = "node" THEN "call" ELSE "lookup"]
                   /\ UNCHANGED err
    /\ UNCHANGED <<gossipVars, stage, cands, reply, received, crashed>>

(* The lookup chain of getNode: lookupMeta2 runs lookupMeta1 and looks the *)
(* key up on a replica of meta1's answer; getNode then picks a replica of  *)
(* meta2's answer; each returns the first error.                           *)
NextStage(st) == IF st = "meta1" THEN "meta2" ELSE "node"
LookupAnswer(st) == IF st = "meta1" THEN Meta1Locs ELSE Meta2Locs

(* lookupMetadata's Node.InternalRangeLookup: a transport error or a       *)
(* reply.Error fails; otherwise its Locations are the next list: meta1's   *)
(* answer feeds lookupMeta2, meta2's answer feeds getNode.                 *)
lookupCall(r) ==
    /\ pc[r] = "lookup"
    /\ \/ Fail(r) /\ UNCHANGED <<stage, cands>>
       \/ /\ stage' = [stage EXCEPT ![r] = NextStage(@)]
          /\ cands' = [cands EXCEPT ![r] = LookupAnswer(stage[r])]
          /\ pc' = [pc EXCEPT ![r] = "pick"]
          /\ UNCHANGED err
    /\ UNCHANGED <<gossipVars, reply, received, crashed>>

(* With the node found, argsHeader asserts args to *RequestHeader.  Get,  *)
(* Put and Increment pass a *GetRequest, *PutRequest or *IncrementRequest, *)
(* structs that embed RequestHeader (as InternalRangeLookupRequest does in *)
(* lookupMetadata), so the dynamic type is never *RequestHeader and the    *)
(* one-result assertion panics in the goroutine, ending the process before *)
(* node.Call and the send.                                                 *)
nodeCall(r) ==
    /\ pc[r] = "call"
    /\ crashed' = TRUE
    /\ UNCHANGED <<gossipVars, reqVars>>

(* Set the reply's Error when err is non-nil and send the reply: the       *)
(* channel has room for it, so the goroutine never waits for the caller.   *)
sendReply(r) ==
    /\ pc[r] = "send"
    /\ reply' = [reply EXCEPT ![r] = IF err[r] THEN "error" ELSE "ok"]
    /\ pc' = [pc EXCEPT ![r] = "sent"]
    /\ UNCHANGED <<gossipVars, stage, cands, err, received, crashed>>

(* The caller reads the channel (PutI: pr := <-db.Put(...)).               *)
receiveReply(r) ==
    /\ reply[r] # "none" /\ ~received[r]
    /\ received' = [received EXCEPT ![r] = TRUE]
    /\ UNCHANGED <<gossipVars, pc, stage, cands, err, reply, crashed>>

(* Gossip: the first range's info and node addresses are added, replaced  *)
(* or expire.                                                              *)
gossipChange ==
    /\ firstRange' \in {None} \cup SUBSET Nodes
    /\ addrs' \in SUBSET Nodes
    /\ gossipVars' # gossipVars
    /\ UNCHANGED <<reqVars, crashed>>

-----------------------------------------------------------------------------
Goroutine(r) ==
    lookupMeta1(r) \/ pickReplica(r) \/ lookupCall(r) \/ nodeCall(r) \/ sendReply(r)

Next == ~crashed /\
   (\/ \E r \in Reqs : sendRPC(r) \/ Goroutine(r) \/ receiveReply(r)
    \/ gossipChange)

Spec == Init /\ [][Next]_vars

(* The Go scheduler runs each request goroutine, and each RPC returns, with *)
(* a result or an error.  Callers and gossip get no fairness.              *)
FairSpec == Spec /\ \A r \in Reqs : WF_vars(Goroutine(r))

-----------------------------------------------------------------------------
(* The channel's contents as the kv.DB interface sees them.                *)
KvState(r) == IF pc[r] = "idle" THEN "idle"
              ELSE IF reply[r] = "none" THEN "pending" ELSE reply[r]

Abs == INSTANCE KvDB WITH state <- [r \in Reqs |-> KvState(r)]

(* DistDB implements kv.DB: every call gets exactly one reply on its      *)
(* channel, eventually, whichever lookup fails and however gossip changes *)
(* underneath.  About sendRPC's goroutine from getNode to the send: the    *)
(* header assertion between them is the one path that never sends.        *)
RefinesKvDB == Abs!Spec

=============================================================================
