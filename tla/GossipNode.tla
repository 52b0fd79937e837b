------------------------------- MODULE GossipNode -------------------------------
(***************************************************************************)
(* One gossip node: the coordinator of src/gossip/gossip.go (the bootstrap *)
(* and manage goroutines, Stop(), startClient/closeClient) and the client  *)
(* goroutines of src/gossip/client.go that it launches.                    *)
(*                                                                         *)
(* Every step that runs under g.mu is one atomic action guarded by         *)
(* mu = "none"; mu names the goroutine only when it keeps the lock after   *)
(* leaving its loop.  The infostore is abstracted to what the coordinator  *)
(* reads from it: whether the sentinel info is present, and which peers    *)
(* are "distant".  Remote peers and our own gossip server are the          *)
(* environment: they answer requests, connect as incoming peers, and       *)
(* deliver the sentinel.                                                   *)
(***************************************************************************)
EXTENDS Naturals, Sequences, FiniteSets

CONSTANTS
    Peers,       \* network addresses of the other nodes
    BootstrapArg,  \* addresses passed to SetBootstrap before Start (may include Self)
    BootstrapFlag, \* addresses of -gossip_bootstrap that net.ResolveTCPAddr accepts
    Self,        \* g.is.NodeAddr, our own address
    Greater,     \* peers whose address sorts after g.is.NodeAddr (client.go:105)
    MaxPeers,    \* gossip.go MaxPeers: size of g.outgoing and of g.disconnected
    Slots,       \* model bound: client goroutines alive at one time
    None,        \* model value: no address, no client
    AllowStop    \* whether the environment calls Stop()

ASSUME /\ BootstrapArg \cup BootstrapFlag \subseteq Peers \cup {Self}
       /\ Self \notin Peers
       /\ Greater \subseteq Peers
       /\ MaxPeers \in Nat \ {0}
       /\ None \notin Peers \cup Slots
       /\ AllowStop \in BOOLEAN

VARIABLES
    mu,            \* goroutine left holding g.mu: "none", "bootstrap" or "manage"
    bootstraps,    \* g.bootstraps
    boot,          \* bootstrap goroutine: "parse", "top", "waiting" (in stalled.Wait), "woken", "exited"
    mgr,           \* manage goroutine: "loop" or "exited"
    stopper,       \* Stop(): "idle", "signal", "closing", "returned"
    toClose,       \* Stop's snapshot of g.outgoing not closed yet
    closed,        \* server.closed, set by stopServing
    hasConnected,  \* g.hasConnected (Connected channel closed)
    outgoing,      \* g.outgoing
    incoming,      \* server.incoming: peers connected to our gossip server
    clients,       \* g.clients: address -> slot of its client, None if absent
    disconnected,  \* g.disconnected: buffered channel of finished clients
    cl,            \* client goroutines: slot -> [st, addr, closer, fwd]
    sentinel,      \* g.is.getInfo(KeySentinel) # nil
    distant,       \* g.is.distant(g.maxToleratedHops()): originators of too-distant infos
    panicked       \* the process died of a runtime panic

vars == <<mu, bootstraps, boot, mgr, stopper, toClose, closed, hasConnected, outgoing,
          incoming, clients, disconnected, cl, sentinel, distant, panicked>>

(* Client goroutine states: "free" (slot unused), "dial" (select on       *)
(* rpcClient.Ready), "ready" (top of the gossip loop), "await" (request    *)
(* sent, select on reply/timeout/closer), "exit" (blocked on done <- c),   *)
(* "queued" (in g.disconnected, goroutine ended).                         *)
ClientStates == {"free", "dial", "ready", "await", "exit", "queued"}
FreeClient == [st |-> "free", addr |-> None, closer |-> FALSE, fwd |-> None]
FreeSlots == {s \in Slots : cl[s].st = "free"}

-----------------------------------------------------------------------------
(* gossip.go filterExtant: drop addresses already outgoing or incoming.    *)
filterExtant(addrs, out) == addrs \ (out \cup incoming)

(* gossip.go hasIncoming: our server has an incoming client from addr.    *)
hasIncoming(a) == a \in incoming

(* stalled.Signal(): wakes the bootstrap goroutine if it is waiting.       *)
SignalStalled == IF boot = "waiting" THEN "woken" ELSE boot

(* startClient(addr) run in slot s: newClient, outgoing.addAddr,           *)
(* clients[addr] = c, go c.start(g, g.disconnected).                       *)
StartedClient(a) == [st |-> "dial", addr |-> a, closer |-> FALSE, fwd |-> None]

(* closeClient(addr): c := clients[addr]; c.close(); delete(clients, addr).*)
(* A nil c (no client under addr) panics with a nil dereference.           *)
closeClient(a) ==
    /\ clients[a] # None
    /\ cl' = [cl EXCEPT ![clients[a]].closer = TRUE]
    /\ clients' = [clients EXCEPT ![a] = None]
    /\ UNCHANGED panicked

closeMissingClient(a) ==
    /\ clients[a] = None
    /\ panicked' = TRUE
    /\ UNCHANGED <<bootstraps, mu, boot, mgr, stopper, toClose, closed, hasConnected,
                   outgoing, incoming, clients, disconnected, cl, sentinel, distant>>

(* Mutant of manageEpilogue: no stalled.Signal() when outgoing is empty.  *)
manageEpilogueNoEmptySignal(out) ==
    /\ IF ~sentinel
         THEN boot' = SignalStalled /\ UNCHANGED hasConnected
         ELSE boot' = boot /\ hasConnected' = TRUE
    /\ IF closed /\ out = {}
         THEN mgr' = "exited" /\ mu' = "manage"
         ELSE UNCHANGED <<mgr, mu>>

(* End of one pass of the manage loop, with out the new g.outgoing:        *)
(* signal the bootstrapper, or fire Connected once; exit (keeping g.mu)    *)
(* when closed and no outgoing client is left.                             *)
manageEpilogue(out) ==
    /\ IF \/ out = {} /\ filterExtant(bootstraps, out) # {}
          \/ ~sentinel
         THEN boot' = SignalStalled /\ UNCHANGED hasConnected
         ELSE boot' = boot /\ hasConnected' = TRUE
    /\ IF closed /\ out = {}
         THEN mgr' = "exited" /\ mu' = "manage"
         ELSE UNCHANGED <<mgr, mu>>

-----------------------------------------------------------------------------
Init ==
    /\ mu = "none"
    /\ bootstraps = BootstrapArg
    /\ boot = "parse"
    /\ mgr = "loop"
    /\ stopper = "idle"
    /\ toClose = {}
    /\ closed = FALSE
    /\ hasConnected = FALSE
    /\ outgoing = {}
    /\ incoming = {}
    /\ clients = [a \in Peers |-> None]
    /\ disconnected = <<>>
    /\ cl = [s \in Slots |-> FreeClient]
    /\ sentinel = FALSE
    /\ distant = {}
    /\ panicked = FALSE

(* bootstrap() starts with parseBootstrapAddresses under g.mu: add the   *)
(* resolved -gossip_bootstrap addresses, then remove our own address.      *)
parseBootstrapAddresses ==
    /\ boot = "parse" /\ mu = "none"
    /\ bootstraps' = (bootstraps \cup BootstrapFlag) \ {Self}
    /\ boot' = "top"
    /\ UNCHANGED <<mu, mgr, stopper, toClose, closed, hasConnected, outgoing, incoming,
                   clients, disconnected, cl, sentinel, distant, panicked>>

(* bootstrap(), one iteration: lock; break if closed (the lock is never    *)
(* released); start a client to a random available bootstrap host when    *)
(* there is no outgoing client or no sentinel; stalled.Wait().             *)
bootstrap ==
    /\ boot = "top" /\ mu = "none"
    /\ IF closed
         THEN /\ boot' = "exited" /\ mu' = "bootstrap"
              /\ UNCHANGED <<outgoing, clients, cl>>
         ELSE /\ boot' = "waiting" /\ UNCHANGED mu
              /\ LET avail == filterExtant(bootstraps, outgoing) IN
                 IF avail # {} /\ (outgoing = {} \/ ~sentinel)
                   THEN \E a \in avail, s \in FreeSlots :
                          /\ outgoing' = outgoing \cup {a}
                          /\ clients' = [clients EXCEPT ![a] = s]
                          /\ cl' = [cl EXCEPT ![s] = StartedClient(a)]
                   ELSE UNCHANGED <<outgoing, clients, cl>>
    /\ UNCHANGED <<bootstraps, mgr, stopper, toClose, closed, hasConnected, incoming,
                   disconnected, sentinel, distant, panicked>>

(* stalled.Wait() returns: reacquire g.mu, unlock, loop.                   *)
bootstrapWake ==
    /\ boot = "woken" /\ mu = "none"
    /\ boot' = "top"
    /\ UNCHANGED <<bootstraps, mu, mgr, stopper, toClose, closed, hasConnected, outgoing,
                   incoming, clients, disconnected, cl, sentinel, distant, panicked>>

(* Mutant of manageDisconnected: delete(g.clients, c.addr) forgotten.     *)
manageDisconnectedKeepsClient ==
    /\ mgr = "loop" /\ mu = "none" /\ disconnected # <<>>
    /\ LET c   == Head(disconnected)
           a   == cl[c].addr
           f   == cl[c].fwd
           out == IF f = None THEN outgoing \ {a} ELSE (outgoing \ {a}) \cup {f}
       IN /\ disconnected' = Tail(disconnected)
          /\ outgoing' = out
          /\ IF f = None
               THEN /\ UNCHANGED clients
                    /\ cl' = [cl EXCEPT ![c] = FreeClient]
               ELSE /\ clients' = [clients EXCEPT ![f] = c]
                    /\ cl' = [cl EXCEPT ![c] = StartedClient(f)]
          /\ manageEpilogue(out)
    /\ UNCHANGED <<bootstraps, stopper, toClose, closed, incoming, sentinel, distant, panicked>>

(* manage(), case c := <-g.disconnected: remove c.addr from outgoing and   *)
(* clients; connect to c.forwardAddr if set (the new client takes over     *)
(* the slot c released).                                                   *)
manageDisconnected ==
    /\ mgr = "loop" /\ mu = "none" /\ disconnected # <<>>
    /\ LET c   == Head(disconnected)
           a   == cl[c].addr
           f   == cl[c].fwd
           out == IF f = None THEN outgoing \ {a} ELSE (outgoing \ {a}) \cup {f}
       IN /\ disconnected' = Tail(disconnected)
          /\ outgoing' = out
          /\ IF f = None
               THEN /\ clients' = [clients EXCEPT ![a] = None]
                    /\ cl' = [cl EXCEPT ![c] = FreeClient]
               ELSE /\ clients' = [clients EXCEPT ![a] = None, ![f] = c]
                    /\ cl' = [cl EXCEPT ![c] = StartedClient(f)]
          /\ manageEpilogue(out)
    /\ UNCHANGED <<bootstraps, stopper, toClose, closed, incoming, sentinel, distant, panicked>>

(* manage(), case <-checkTimeout: when some peer beyond maxToleratedHops   *)
(* is not yet connected, start a client to a random one if outgoing has   *)
(* room, else close the least useful outgoing client.  Which client the    *)
(* infostore finds least useful is chosen freely here.                     *)
manageTick ==
    /\ mgr = "loop" /\ mu = "none"
    /\ \/ /\ filterExtant(distant, outgoing) = {}
          /\ UNCHANGED <<outgoing, clients, cl, panicked>>
          /\ manageEpilogue(outgoing)
       \/ \E d \in filterExtant(distant, outgoing) :
             \/ /\ Cardinality(outgoing) < MaxPeers
                /\ \E s \in FreeSlots :
                      /\ outgoing' = outgoing \cup {d}
                      /\ clients' = [clients EXCEPT ![d] = s]
                      /\ cl' = [cl EXCEPT ![s] = StartedClient(d)]
                /\ manageEpilogue(outgoing \cup {d})
                /\ UNCHANGED panicked
             \/ /\ Cardinality(outgoing) >= MaxPeers
                /\ \E v \in outgoing :
                      \/ closeClient(v) /\ UNCHANGED outgoing /\ manageEpilogue(outgoing)
                      \/ closeMissingClient(v)
    /\ UNCHANGED <<bootstraps, stopper, toClose, closed, incoming, disconnected, sentinel, distant>>

-----------------------------------------------------------------------------
(* client.start: wait for the connection, or give up after                *)
(* gossipDialTimeout.  The closer is not watched while dialing.           *)
clientDial(s) ==
    /\ cl[s].st = "dial"
    /\ \E next \in {"ready", "exit"} : cl' = [cl EXCEPT ![s].st = next]
    /\ UNCHANGED <<bootstraps, mu, boot, mgr, stopper, toClose, closed, hasConnected,
                   outgoing, incoming, clients, disconnected, sentinel, distant, panicked>>

(* client.gossip, top of the loop: stop when our server already has an     *)
(* incoming client from this peer and our address is the smaller one;     *)
(* otherwise compute the delta under g.mu and send the request.          *)
clientRequest(s) ==
    /\ cl[s].st = "ready" /\ mu = "none"
    /\ cl' = [cl EXCEPT ![s].st =
                IF hasIncoming(cl[s].addr) /\ cl[s].addr \in Greater
                  THEN "exit" ELSE "await"]
    /\ UNCHANGED <<bootstraps, mu, boot, mgr, stopper, toClose, closed, hasConnected,
                   outgoing, incoming, clients, disconnected, sentinel, distant, panicked>>

(* client.gossip, the select on the call: closer closed, call error or     *)
(* timeout (exit), or a reply: an alternate address (exit with            *)
(* forwardAddr), a delta combined under g.mu (which may carry the         *)
(* sentinel), or no delta.  A reply with nothing fresh may find the peer   *)
(* too boring.                                                             *)
clientAwait(s) ==
    /\ cl[s].st = "await"
    /\ \/ cl[s].closer /\ cl' = [cl EXCEPT ![s].st = "exit"] /\ UNCHANGED sentinel
       \/ cl' = [cl EXCEPT ![s].st = "exit"] /\ UNCHANGED sentinel
       \/ \E f \in Peers \ {cl[s].addr} :
             cl' = [cl EXCEPT ![s].st = "exit", ![s].fwd = f] /\ UNCHANGED sentinel
       \/ /\ mu = "none"
          /\ \/ sentinel' = TRUE /\ cl' = [cl EXCEPT ![s].st = "ready"]
             \/ UNCHANGED sentinel /\ \E next \in {"ready", "exit"} : cl' = [cl EXCEPT ![s].st = next]
       \/ UNCHANGED sentinel /\ \E next \in {"ready", "exit"} : cl' = [cl EXCEPT ![s].st = next]
    /\ UNCHANGED <<bootstraps, mu, boot, mgr, stopper, toClose, closed, hasConnected,
                   outgoing, incoming, clients, disconnected, panicked, distant>>

(* Mutant of clientDone: a send that never blocks (an unbounded channel). *)
clientDoneUnbounded(s) ==
    /\ cl[s].st = "exit"
    /\ disconnected' = Append(disconnected, s)
    /\ cl' = [cl EXCEPT ![s].st = "queued"]
    /\ UNCHANGED <<bootstraps, mu, boot, mgr, stopper, toClose, closed, hasConnected,
                   outgoing, incoming, clients, sentinel, distant, panicked>>

(* done <- c: blocks while g.disconnected holds MaxPeers clients.         *)
clientDone(s) ==
    /\ cl[s].st = "exit"
    /\ Len(disconnected) < MaxPeers
    /\ disconnected' = Append(disconnected, s)
    /\ cl' = [cl EXCEPT ![s].st = "queued"]
    /\ UNCHANGED <<bootstraps, mu, boot, mgr, stopper, toClose, closed, hasConnected,
                   outgoing, incoming, clients, sentinel, distant, panicked>>

-----------------------------------------------------------------------------
(* Stop(): stopServing sets closed under g.mu; then, without the lock,    *)
(* stalled.Signal(), a snapshot of outgoing, and closeClient on each.     *)
stopServing ==
    /\ AllowStop /\ stopper = "idle" /\ mu = "none"
    /\ closed' = TRUE /\ stopper' = "signal"
    /\ UNCHANGED <<bootstraps, mu, boot, mgr, toClose, hasConnected, outgoing, incoming,
                   clients, disconnected, cl, sentinel, distant, panicked>>

stopSignal ==
    /\ stopper = "signal"
    /\ boot' = SignalStalled
    /\ toClose' = outgoing
    /\ stopper' = "closing"
    /\ UNCHANGED <<bootstraps, mu, mgr, closed, hasConnected, outgoing, incoming, clients,
                   disconnected, cl, sentinel, distant, panicked>>

stopClose ==
    /\ stopper = "closing"
    /\ \E a \in toClose :
          \/ /\ closeClient(a)
             /\ toClose' = toClose \ {a}
             /\ stopper' = IF toClose' = {} THEN "returned" ELSE "closing"
             /\ UNCHANGED <<bootstraps, mu, boot, mgr, closed, hasConnected, outgoing,
                            incoming, disconnected, sentinel, distant>>
          \/ closeMissingClient(a)

stopEmpty ==
    /\ stopper = "closing" /\ toClose = {}
    /\ stopper' = "returned"
    /\ UNCHANGED <<bootstraps, mu, boot, mgr, toClose, closed, hasConnected, outgoing,
                   incoming, clients, disconnected, cl, sentinel, distant, panicked>>

-----------------------------------------------------------------------------
(* Environment.  A peer's first request registers it in incoming, and the *)
(* connection's close callback removes it (both under g.mu).  AddInfo of   *)
(* the sentinel, or a merge in our server, makes it present under g.mu;   *)
(* its TTL may pass at any time.                                          *)
incomingConnect ==
    /\ mu = "none"
    /\ \E a \in Peers \ incoming : incoming' = incoming \cup {a}
    /\ UNCHANGED <<bootstraps, mu, boot, mgr, stopper, toClose, closed, hasConnected,
                   outgoing, clients, disconnected, cl, sentinel, distant, panicked>>

incomingClose ==
    /\ mu = "none"
    /\ \E a \in incoming : incoming' = incoming \ {a}
    /\ UNCHANGED <<bootstraps, mu, boot, mgr, stopper, toClose, closed, hasConnected,
                   outgoing, clients, disconnected, cl, sentinel, distant, panicked>>

sentinelAdded ==
    /\ mu = "none" /\ ~sentinel
    /\ sentinel' = TRUE
    /\ UNCHANGED <<bootstraps, mu, boot, mgr, stopper, toClose, closed, hasConnected,
                   outgoing, incoming, clients, disconnected, cl, panicked, distant>>

(* Infos arrive and expire: the set of originators beyond                 *)
(* maxToleratedHops changes (under g.mu when infos arrive).               *)
distantChanged ==
    /\ mu = "none"
    /\ \E D \in SUBSET Peers : D # distant /\ distant' = D
    /\ UNCHANGED <<bootstraps, mu, boot, mgr, stopper, toClose, closed, hasConnected,
                   outgoing, incoming, clients, disconnected, cl, sentinel, panicked>>

sentinelExpired ==
    /\ sentinel
    /\ sentinel' = FALSE
    /\ UNCHANGED <<bootstraps, mu, boot, mgr, stopper, toClose, closed, hasConnected,
                   outgoing, incoming, clients, disconnected, cl, panicked, distant>>

-----------------------------------------------------------------------------
Coordinator ==
    \/ parseBootstrapAddresses \/ bootstrap \/ bootstrapWake \/ manageDisconnected \/ manageTick
    \/ stopServing \/ stopSignal \/ stopClose \/ stopEmpty

Client(s) == clientDial(s) \/ clientRequest(s) \/ clientAwait(s) \/ clientDone(s)

Environment == incomingConnect \/ incomingClose \/ sentinelAdded \/ sentinelExpired \/ distantChanged

Next == ~panicked /\ (Coordinator \/ (\E s \in Slots : Client(s)) \/ Environment)

Spec == Init /\ [][Next]_vars

(* Fairness.  Each goroutine that can run eventually runs: the Go          *)
(* scheduler runs runnable goroutines, time.Tick keeps firing, a select    *)
(* with a ready case (g.disconnected) takes it eventually, and a client's   *)
(* select is bounded by the 2*gossipInterval timeout.  g.mu is only ever    *)
(* held across steps by a goroutine that has left its loop, so the lock     *)
(* steps need no more than weak fairness; bootstrap is strongly fair only   *)
(* because the Slots bound, not the code, can make it wait for a slot.      *)
(* Remote peers and the sentinel's TTL get no fairness.                     *)
Alive(A) == ~panicked /\ A

Fairness ==
    /\ WF_vars(Alive(parseBootstrapAddresses))
    /\ SF_vars(Alive(bootstrap))
    /\ WF_vars(Alive(bootstrapWake))
    /\ WF_vars(Alive(manageDisconnected))
    /\ WF_vars(Alive(manageTick))
    /\ WF_vars(Alive(stopSignal \/ stopClose \/ stopEmpty))
    /\ \A s \in Slots : WF_vars(Alive(Client(s)))

FairSpec == Spec /\ Fairness

-----------------------------------------------------------------------------
(* Type invariant; g.disconnected never holds more than its capacity.      *)
TypeOK ==
    /\ mu \in {"none", "bootstrap", "manage"}
    /\ bootstraps \subseteq Peers \cup {Self}
    /\ boot \in {"parse", "top", "waiting", "woken", "exited"}
    /\ mgr \in {"loop", "exited"}
    /\ stopper \in {"idle", "signal", "closing", "returned"}
    /\ toClose \subseteq Peers
    /\ closed \in BOOLEAN /\ hasConnected \in BOOLEAN
    /\ outgoing \subseteq Peers /\ incoming \subseteq Peers
    /\ clients \in [Peers -> Slots \cup {None}]
    /\ disconnected \in Seq(Slots) /\ Len(disconnected) <= MaxPeers
    /\ \A s \in Slots : /\ cl[s].st \in ClientStates
                         /\ cl[s].addr \in Peers \cup {None}
                         /\ cl[s].closer \in BOOLEAN
                         /\ cl[s].fwd \in Peers \cup {None}
    /\ sentinel \in BOOLEAN /\ distant \subseteq Peers /\ panicked \in BOOLEAN

(* A client goroutine that has not yet been taken off g.disconnected.      *)
Live(s) == cl[s].st # "free"

(* g.outgoing, g.clients and the client goroutines agree: every outgoing   *)
(* address has a live client that will report on g.disconnected (else the *)
(* address would hold a MaxPeers slot forever and keep the bootstrapper    *)
(* asleep), and every entry of g.clients is outgoing and names a live      *)
(* client for that address (else closeClient would close the wrong client  *)
(* or one already gone).  Kept by startClient, closeClient and the         *)
(* disconnected case of manage() together.                                 *)
OutgoingAccounting ==
    /\ \A a \in outgoing : \E s \in Slots : Live(s) /\ cl[s].addr = a
    /\ \A a \in Peers : clients[a] # None =>
            /\ a \in outgoing
            /\ Live(clients[a]) /\ cl[clients[a]].addr = a

(* Re-bootstrapping: a running node left without outgoing clients while a *)
(* bootstrap host is available eventually has an outgoing client again   *)
(* (or no host is available any more).  Relies on manage() signalling     *)
(* g.stalled and on the bootstrap goroutine waking from stalled.Wait().   *)
NeedsBootstrap == outgoing = {} /\ filterExtant(bootstraps, outgoing) # {}

Rebootstrap ==
    NeedsBootstrap ~> (outgoing # {} \/ filterExtant(bootstraps, outgoing) = {})

(* closeClient is only ever called for an address that has a client: a     *)
(* nil client in g.clients makes c.close() panic and kills the process.    *)
NoCloseOfMissingClient == ~panicked

(* Spec section 5: since outgoing holds at most MaxPeers clients, the       *)
(* g.disconnected channel (capacity MaxPeers) never blocks a finishing     *)
(* client's done <- c.                                                    *)
DoneNeverBlocks ==
    (\E s \in Slots : cl[s].st = "exit") => Len(disconnected) < MaxPeers

(* Stop(): the manage loop finishes once Stop() has been called (the      *)
(* comment on Stop: "signals exit once all outgoing clients are closed and *)
(* the management loop ... is finished"), unless the process panicked.    *)
ManageExitsAfterStop == closed ~> (mgr = "exited" \/ panicked)

=============================================================================
