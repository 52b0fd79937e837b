----------------------------- MODULE GossipExchange -----------------------------
(***************************************************************************)
(* Infostores kept in step by gossip sessions.  A session is a directed    *)
(* link <<a, b>>: a's client loop (src/gossip/client.go gossip) against    *)
(* b's gossip server (spec.md 4.4; its handler is not under src/).  The   *)
(* client keeps the watermarks localMaxSeq and remoteMaxSeq; the infostore *)
(* operations delta, combine and addInfo follow spec.md 4.1.  Requests and *)
(* replies may be lost or late: the client's timeout, and its boredom     *)
(* check, end the session, and b's connection close callback drops a from *)
(* b's incoming set.  The coordinator (modelled in GossipNode) re-dials a  *)
(* peer that filterExtant does not exclude.  Infos never expire here.      *)
(***************************************************************************)
EXTENDS Integers, FiniteSetsExt

CONSTANTS
    Nodes,       \* node addresses
    Rank,        \* [Nodes -> Nat]: the lexicographic order of the addresses
    Links,       \* the sessions a client may open: <<client node, server node>>
    Keys,        \* info keys
    Publishers,  \* [Keys -> SUBSET Nodes]: the nodes that call AddInfo on a key
    MaxTs,       \* origination timestamps are 1..MaxTs
    MaxFaults,   \* bound on timeouts and boredom exits together
    None         \* origin and peer of an absent key

ASSUME /\ Links \subseteq {l \in Nodes \X Nodes : l[1] # l[2]}
       /\ Rank \in [Nodes -> Nat]
       /\ Publishers \in [Keys -> SUBSET Nodes]

VARIABLES
    store,     \* store[n][k]: n's info of k: [ts, origin, peer, hops, seq]
    seqNo,     \* seqNo[n]: the last seq n's infostore handed out
    ph,        \* ph[l]: "idle", "ready", "request", "waiting", "reply", "closing"
    lmax,      \* lmax[l]: the client's localMaxSeq
    rmax,      \* rmax[l]: the client's remoteMaxSeq
    msg,       \* msg[l]: the request or reply in flight: [maxSeq, delta]
    incoming,  \* incoming[n]: the senders n's gossip server has registered
    faults,    \* timeouts and boredom exits so far
    versions   \* history: every version ever published: [key, ts, origin]

vars == <<store, seqNo, ph, lmax, rmax, msg, incoming, faults, versions>>

Absent == [ts |-> 0, origin |-> None, peer |-> None, hops |-> 0, seq |-> 0]

(* A nil delta is the bundle with no infos.                                 *)
NilDelta == [infos |-> {}, maxSeq |-> -1]

NoMsg == [maxSeq |-> -1, delta |-> NilDelta]

Init ==
    /\ store = [n \in Nodes |-> [k \in Keys |-> Absent]]
    /\ seqNo = [n \in Nodes |-> 0]
    /\ ph = [l \in Links |-> "idle"]
    /\ lmax = [l \in Links |-> 0]
    /\ rmax = [l \in Links |-> -1]
    /\ msg = [l \in Links |-> NoMsg]
    /\ incoming = [n \in Nodes |-> {}]
    /\ faults = 0
    /\ versions = {}

-----------------------------------------------------------------------------
(* infostore.delta(peer, since) over the infostore row is: the infos with  *)
(* seq > since neither originated by nor received from peer, in their wire *)
(* form (seq and peer are local), and the largest seq among them.          *)
Eligible(is, peer, since) ==
    {k \in Keys : /\ is[k].ts > 0 /\ is[k].seq > since
                  /\ is[k].origin # peer /\ is[k].peer # peer}

delta(is, peer, since) ==
    LET K == Eligible(is, peer, since)
    IN IF K = {} THEN NilDelta
       ELSE [infos  |-> {[key |-> k, ts |-> is[k].ts, origin |-> is[k].origin,
                          hops |-> is[k].hops] : k \in K},
             maxSeq |-> Max({is[k].seq : k \in K})]

(* combine(delta) at n, received from sender: an info is fresh when the    *)
(* key is absent or stored with a strictly older timestamp; it is stored   *)
(* with one more hop, sender as peer and a new seq.  The fresh infos of    *)
(* one combine share the seq seqNo + 1: they enter under one lock, so no   *)
(* watermark falls between them.                                           *)
Fresh(n, d) == {i \in d.infos : store[n][i.key].ts < i.ts}

(* Mutant: a replaced info keeps the seq of the copy it replaces.         *)
CombinedKeepsSeq(n, sender, d) ==
    [k \in Keys |->
        IF \E i \in Fresh(n, d) : i.key = k
        THEN LET i == CHOOSE j \in Fresh(n, d) : j.key = k
             IN [ts |-> i.ts, origin |-> i.origin, peer |-> sender, hops |-> i.hops + 1,
                 seq |-> IF store[n][k].ts > 0 THEN store[n][k].seq ELSE seqNo[n] + 1]
        ELSE store[n][k]]

Combined(n, sender, d) ==
    [k \in Keys |->
        IF \E i \in Fresh(n, d) : i.key = k
        THEN LET i == CHOOSE j \in Fresh(n, d) : j.key = k
             IN [ts |-> i.ts, origin |-> i.origin, peer |-> sender,
                 hops |-> i.hops + 1, seq |-> seqNo[n] + 1]
        ELSE store[n][k]]

NextSeqNo(n, d) == IF Fresh(n, d) = {} THEN seqNo ELSE [seqNo EXCEPT ![n] = @ + 1]

-----------------------------------------------------------------------------
(* Gossip.AddInfo: a local info of timestamp t (now), origin and peer the  *)
(* node itself, zero hops and a new seq; a timestamp not newer than the    *)
(* stored one fails with Stale and changes nothing.                        *)
AddInfo(n, k, t) ==
    /\ n \in Publishers[k] /\ t > store[n][k].ts
    /\ store' = [store EXCEPT ![n][k] = [ts |-> t, origin |-> n, peer |-> n,
                                          hops |-> 0, seq |-> seqNo[n] + 1]]
    /\ seqNo' = [seqNo EXCEPT ![n] = @ + 1]
    /\ versions' = versions \cup {[key |-> k, ts |-> t, origin |-> n]}
    /\ UNCHANGED <<ph, lmax, rmax, msg, incoming, faults>>

(* Mutant: a restarted session keeps the old localMaxSeq.               *)
clientStartKeepsLocalMax(l) ==
    /\ ph[l] = "idle" /\ l[2] \notin incoming[l[1]]
    /\ ph' = [ph EXCEPT ![l] = "ready"]
    /\ rmax' = [rmax EXCEPT ![l] = -1]
    /\ UNCHANGED <<store, seqNo, lmax, msg, incoming, faults, versions>>

(* The coordinator starts a client for b (startClient; bootstrap and       *)
(* manage only pick peers that filterExtant keeps, so none with an         *)
(* incoming session); gossip() starts from localMaxSeq 0, remoteMaxSeq -1. *)
clientStart(l) ==
    /\ ph[l] = "idle" /\ l[2] \notin incoming[l[1]]
    /\ ph' = [ph EXCEPT ![l] = "ready"]
    /\ lmax' = [lmax EXCEPT ![l] = 0]
    /\ rmax' = [rmax EXCEPT ![l] = -1]
    /\ UNCHANGED <<store, seqNo, msg, incoming, faults, versions>>

(* Mutant: the redundancy check without the address comparison.          *)
clientRedundantNoTieBreak(l) ==
    /\ ph[l] = "ready"
    /\ l[2] \in incoming[l[1]]
    /\ ph' = [ph EXCEPT ![l] = "closing"]
    /\ UNCHANGED <<store, seqNo, lmax, rmax, msg, incoming, faults, versions>>

(* The redundancy check: b already gossips to a and a's address is the     *)
(* lesser, so a's client returns.                                          *)
clientRedundant(l) ==
    /\ ph[l] = "ready"
    /\ l[2] \in incoming[l[1]] /\ Rank[l[1]] < Rank[l[2]]
    /\ ph' = [ph EXCEPT ![l] = "closing"]
    /\ UNCHANGED <<store, seqNo, lmax, rmax, msg, incoming, faults, versions>>

(* Otherwise: under g.mu the delta since localMaxSeq, which advances to    *)
(* its max seq when it is not nil; then the request goes out carrying      *)
(* remoteMaxSeq.                                                           *)
clientRequest(l) ==
    /\ ph[l] = "ready"
    /\ ~(l[2] \in incoming[l[1]] /\ Rank[l[1]] < Rank[l[2]])
    /\ LET d == delta(store[l[1]], l[2], lmax[l])
       IN /\ lmax' = [lmax EXCEPT ![l] = IF d = NilDelta THEN @ ELSE d.maxSeq]
          /\ msg' = [msg EXCEPT ![l] = [maxSeq |-> rmax[l], delta |-> d]]
    /\ ph' = [ph EXCEPT ![l] = "request"]
    /\ UNCHANGED <<store, seqNo, rmax, incoming, faults, versions>>

(* b's server merges the request's delta, registers a as incoming and, on  *)
(* first contact (MaxSeq -1), replies at once with delta(a, -1) of the     *)
(* merged infostore.                                                       *)
serverFirstContact(l) ==
    LET a == l[1]  b == l[2]  d == msg[l].delta
    IN /\ ph[l] = "request" /\ msg[l].maxSeq = -1
       /\ store' = [store EXCEPT ![b] = Combined(b, a, d)]
       /\ seqNo' = NextSeqNo(b, d)
       /\ incoming' = [incoming EXCEPT ![b] = @ \cup {a}]
       /\ msg' = [msg EXCEPT ![l] = [maxSeq |-> -1,
                                     delta |-> delta(Combined(b, a, d), a, -1)]]
       /\ ph' = [ph EXCEPT ![l] = "reply"]
       /\ UNCHANGED <<lmax, rmax, faults, versions>>

(* In steady state the server merges the request's delta, registers a and  *)
(* waits the jittered interval, keeping the request's MaxSeq.              *)
serverReceive(l) ==
    LET a == l[1]  b == l[2]  d == msg[l].delta
    IN /\ ph[l] = "request" /\ msg[l].maxSeq # -1
       /\ store' = [store EXCEPT ![b] = Combined(b, a, d)]
       /\ seqNo' = NextSeqNo(b, d)
       /\ incoming' = [incoming EXCEPT ![b] = @ \cup {a}]
       /\ ph' = [ph EXCEPT ![l] = "waiting"]
       /\ UNCHANGED <<msg, lmax, rmax, faults, versions>>

(* After the wait: reply with delta(a, MaxSeq), nil when nothing is new.   *)
serverReply(l) ==
    /\ ph[l] = "waiting"
    /\ msg' = [msg EXCEPT ![l] = [maxSeq |-> -1,
                                  delta |-> delta(store[l[2]], l[1], msg[l].maxSeq)]]
    /\ ph' = [ph EXCEPT ![l] = "reply"]
    /\ UNCHANGED <<store, seqNo, lmax, rmax, incoming, faults, versions>>

(* Mutant: remoteMaxSeq is set from localMaxSeq.                         *)
clientReplyRemoteFromLocal(l) ==
    LET a == l[1]  d == msg[l].delta
    IN /\ ph[l] = "reply"
       /\ store' = [store EXCEPT ![a] = Combined(a, l[2], d)]
       /\ seqNo' = NextSeqNo(a, d)
       /\ rmax' = [rmax EXCEPT ![l] = IF d = NilDelta THEN @ ELSE lmax[l]]
       /\ ph' = [ph EXCEPT ![l] = "ready"]
       /\ UNCHANGED <<lmax, msg, incoming, faults, versions>>

(* The call is done: when the reply's delta is not nil, combine it under   *)
(* g.mu and take its MaxSeq as remoteMaxSeq; then loop.                    *)
clientReply(l) ==
    LET a == l[1]  d == msg[l].delta
    IN /\ ph[l] = "reply"
       /\ store' = [store EXCEPT ![a] = Combined(a, l[2], d)]
       /\ seqNo' = NextSeqNo(a, d)
       /\ rmax' = [rmax EXCEPT ![l] = IF d = NilDelta THEN @ ELSE d.maxSeq]
       /\ ph' = [ph EXCEPT ![l] = "ready"]
       /\ UNCHANGED <<lmax, msg, incoming, faults, versions>>

(* time.After(2 * gossipInterval) wins the select: the client returns      *)
(* whether the request was lost, is still waited on, or its reply is late. *)
clientTimeout(l) ==
    /\ ph[l] \in {"request", "waiting", "reply"} /\ faults < MaxFaults
    /\ ph' = [ph EXCEPT ![l] = "closing"]
    /\ faults' = faults + 1
    /\ UNCHANGED <<store, seqNo, lmax, rmax, msg, incoming, versions>>

(* Nothing fresh for maxWaitForNewGossip: the peer is too boring.          *)
clientBored(l) ==
    /\ ph[l] = "ready" /\ faults < MaxFaults
    /\ ph' = [ph EXCEPT ![l] = "closing"]
    /\ faults' = faults + 1
    /\ UNCHANGED <<store, seqNo, lmax, rmax, msg, incoming, versions>>

(* b's close callback for the ended connection drops a from incoming.     *)
connClosed(l) ==
    /\ ph[l] = "closing"
    /\ incoming' = [incoming EXCEPT ![l[2]] = @ \ {l[1]}]
    /\ ph' = [ph EXCEPT ![l] = "idle"]
    /\ msg' = [msg EXCEPT ![l] = NoMsg]
    /\ UNCHANGED <<store, seqNo, lmax, rmax, faults, versions>>

-----------------------------------------------------------------------------
Session(l) ==
    \/ clientStart(l) \/ clientRedundant(l) \/ clientRequest(l) \/ clientReply(l)
    \/ serverFirstContact(l) \/ serverReceive(l) \/ serverReply(l) \/ connClosed(l)

Faults(l) == clientTimeout(l) \/ clientBored(l)

Next ==
    \/ \E n \in Nodes, k \in Keys, t \in 1..MaxTs : AddInfo(n, k, t)
    \/ \E l \in Links : Session(l) \/ Faults(l)

Spec == Init /\ [][Next]_vars

(* The client and server goroutines run when they can; the coordinator     *)
(* re-dials a peer it has lost.  Publishing, timeouts and boredom get no   *)
(* fairness.                                                               *)
FairSpec == Spec /\ \A l \in Links : WF_vars(Session(l))

-----------------------------------------------------------------------------
(* The infostores as Dissemination sees them: a node knows the timestamp   *)
(* and origin of each stored info.                                         *)
Abs == INSTANCE Dissemination
         WITH know <- [n \in Nodes |-> [k \in Keys |->
                          [ts |-> store[n][k].ts, origin |-> store[n][k].origin]]]

(* The watermarks skip nothing.  While a's client to b is between calls,    *)
(* every info b holds at a seq up to remoteMaxSeq is at a at least as new, *)
(* and every info a holds at a seq up to localMaxSeq is at b at least as   *)
(* new: localMaxSeq advances before the request is sent (client.go:113)    *)
(* and remoteMaxSeq only on a non-nil reply (client.go:153).               *)
WatermarksSound ==
    \A l \in Links : ph[l] = "ready" =>
        LET a == l[1]  b == l[2]
        IN /\ \A k \in Keys : store[b][k].ts > 0 /\ store[b][k].seq <= rmax[l]
                                  => store[a][k].ts >= store[b][k].ts
           /\ \A k \in Keys : store[a][k].ts > 0 /\ store[a][k].seq <= lmax[l]
                                  => store[b][k].ts >= store[a][k].ts

(* Eventual consistency (spec.md "Ordering guarantees"): once publishing   *)
(* and faults stop, every node holds the version of each key with the      *)
(* greatest origination timestamp.                                         *)
EventuallyConsistent == Abs!Converges

(* The tie-break of the redundancy check (client.go:105) leaves a link: of *)
(* two nodes that dial each other only the lesser address stops, so once   *)
(* timeouts and boredom are over some session stays open for good rather  *)
(* than both clients stopping and re-dialling forever.                     *)
LinkPersists == <>[](\E l \in Links : ph[l] \notin {"idle", "closing"})

=============================================================================
