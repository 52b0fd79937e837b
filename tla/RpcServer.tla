------------------------------- MODULE RpcServer -------------------------------
(***************************************************************************)
(* The RPC transport server of src/rpc/server.go and the use the gossip   *)
(* layer makes of it.  Goroutines: ListenAndServe (listen, signal         *)
(* s.listening, assign s.listener, accept loop), one serveConn per        *)
(* accepted connection, and the owner (server.go start/stop,              *)
(* SimulateNetwork) that registers the gossip service with its close       *)
(* callback and finally calls Close().  Every section under s.mu is one   *)
(* atomic action: no goroutine keeps s.mu across steps.  Remote peers      *)
(* dial, send gossip requests and hang up as the environment.              *)
(***************************************************************************)
EXTENDS Naturals, FiniteSets

CONSTANTS
    Conns,          \* connections that remote peers may open
    Peers,          \* gossip node addresses of the remote peers
    PeerOf,         \* [Conns -> Peers]: the node a connection comes from
    ListenMayFail,  \* net.Listen may return an error (address in use)
    AcceptMayFail,  \* ln.Accept may return an error on an open listener (EMFILE)
    ResolveMayFail  \* net.ResolveTCPAddr may fail on -rpc_addr

ASSUME /\ PeerOf \in [Conns -> Peers]
       /\ ListenMayFail \in BOOLEAN /\ AcceptMayFail \in BOOLEAN /\ ResolveMayFail \in BOOLEAN

VARIABLES
    own,         \* the owner's program point
    lsn,         \* ListenAndServe: "idle" (not started), "listen", "signal", "assign", "accept", "exited"
    ln,          \* the net.Listener: "none" (Listen failed or not yet), "open", "closed"
    listener,    \* the field s.listener: "nil" or "ln"
    listening,   \* items in the s.listening channel (capacity 1, never read)
    closed,      \* s.closed
    registered,  \* the gossip service and its close callback are registered
    conns,       \* connection -> "none", "queued", "serving", "closing", "done"
    incoming,    \* gossip server's incoming set (peers that sent a request)
    panicked     \* the process died of a nil dereference

vars == <<own, lsn, ln, listener, listening, closed, registered, conns, incoming, panicked>>

ConnStates == {"none", "queued", "serving", "closing", "done"}

Init ==
    /\ own \in {"srvNew", "simNew"}
    /\ lsn = "idle"
    /\ ln = "none"
    /\ listener = "nil"
    /\ listening = 0
    /\ closed = FALSE
    /\ registered = FALSE
    /\ conns = [c \in Conns |-> "none"]
    /\ incoming = {}
    /\ panicked = FALSE

-----------------------------------------------------------------------------
(* ListenAndServe.  net.Listen either succeeds or, with the error only      *)
(* logged, leaves ln nil and carries on.                                   *)
listenOk ==
    /\ lsn = "listen"
    /\ lsn' = "signal" /\ ln' = "open"
    /\ UNCHANGED <<own, listener, listening, closed, registered, conns, incoming, panicked>>

listenFail ==
    /\ ListenMayFail /\ lsn = "listen"
    /\ lsn' = "signal"
    /\ UNCHANGED <<own, ln, listener, listening, closed, registered, conns, incoming, panicked>>

signalListening ==
    /\ lsn = "signal" /\ listening < 1
    /\ listening' = listening + 1 /\ lsn' = "assign"
    /\ UNCHANGED <<own, ln, listener, closed, registered, conns, incoming, panicked>>

(* s.listener = ln; s.Addr = ln.Addr(): written without s.mu, after the     *)
(* listening signal; ln.Addr() on a nil listener panics.                   *)
assignListener ==
    /\ lsn = "assign"
    /\ listener' = IF ln = "none" THEN "nil" ELSE "ln"
    /\ IF ln = "none" THEN panicked' = TRUE /\ lsn' = lsn
                      ELSE lsn' = "accept" /\ UNCHANGED panicked
    /\ UNCHANGED <<own, ln, listening, closed, registered, conns, incoming>>

(* ln.Accept() returns a queued connection, served by go s.serveConn(conn). *)
acceptConn(c) ==
    /\ lsn = "accept" /\ ln = "open" /\ conns[c] = "queued"
    /\ conns' = [conns EXCEPT ![c] = "serving"]
    /\ UNCHANGED <<own, lsn, ln, listener, listening, closed, registered, incoming, panicked>>

(* ln.Accept() fails, because the listener is closed or transiently: lock  *)
(* s.mu, log unless closed, and leave the loop for good.                   *)
acceptError ==
    /\ lsn = "accept"
    /\ ln = "closed" \/ (AcceptMayFail /\ ln = "open")
    /\ lsn' = "exited"
    /\ UNCHANGED <<own, ln, listener, listening, closed, registered, conns, incoming, panicked>>

(* Mutant: serveConn closes the connection without running the callbacks. *)
serveConnDoneNoCallbacks(c) ==
    /\ conns[c] = "closing"
    /\ conns' = [conns EXCEPT ![c] = "done"]
    /\ UNCHANGED <<own, lsn, ln, listener, listening, closed, registered, incoming, panicked>>

(* serveConn, after ServeConn returned: under s.mu run every close          *)
(* callback registered by now (the gossip server's drops the peer from     *)
(* incoming), then conn.Close().                                           *)
serveConnDone(c) ==
    /\ conns[c] = "closing"
    /\ conns' = [conns EXCEPT ![c] = "done"]
    /\ incoming' = IF registered THEN incoming \ {PeerOf[c]} ELSE incoming
    /\ UNCHANGED <<own, lsn, ln, listener, listening, closed, registered, panicked>>

-----------------------------------------------------------------------------
(* gossip.New registers the gossip service and, through AddCloseCallback, *)
(* its close callback.                                                     *)
registerGossip ==
    /\ registered' = TRUE
    /\ UNCHANGED <<lsn, ln, listener, listening, closed, conns, incoming, panicked>>

(* Mutant: Close() sets closed but leaves the listener open.              *)
CloseKeepsListener ==
    /\ closed' = TRUE
    /\ panicked' = (listener = "nil")
    /\ UNCHANGED <<lsn, ln, listener, listening, registered, conns, incoming>>

(* Close(): under s.mu set closed and close s.listener, a nil interface    *)
(* if ListenAndServe has not assigned it yet.  Connections still queued    *)
(* in the backlog are refused with the listener.                           *)
Close ==
    /\ closed' = TRUE
    /\ IF listener = "nil"
         THEN panicked' = TRUE /\ UNCHANGED <<ln, conns>>
         ELSE /\ ln' = "closed"
              /\ conns' = [c \in Conns |-> IF conns[c] = "queued" THEN "done" ELSE conns[c]]
              /\ UNCHANGED panicked
    /\ UNCHANGED <<lsn, listener, listening, registered, incoming>>

(* go s.ListenAndServe(): the listener goroutine starts.                   *)
spawnListener ==
    /\ lsn' = "listen"
    /\ UNCHANGED <<ln, listener, listening, closed, registered, conns, incoming, panicked>>

-----------------------------------------------------------------------------
(* The owner, one of two programs.  runStart (server.go): newServer        *)
(* resolves -rpc_addr and calls gossip.New; start runs go ListenAndServe,  *)
(* gossip.Start, initEngines, node.start and http.ListenAndServe; stop     *)
(* runs node.stop, gossip.Stop and Close.  SimulateNetwork                 *)
(* (simulation.go), for one of its servers: NewServer and go               *)
(* ListenAndServe, then gossip.New, the cycles, and Close.                 *)

(* newServer: ResolveTCPAddr succeeds, and gossip.New registers.           *)
newServer ==
    /\ own = "srvNew"
    /\ registerGossip
    /\ own' = "srvStart"

(* ResolveTCPAddr fails: runStart logs the error and calls start on the    *)
(* nil server, whose s.rpc dereference panics.                             *)
newServerFail ==
    /\ ResolveMayFail /\ own = "srvNew"
    /\ panicked' = TRUE /\ own' = "srvStart"
    /\ UNCHANGED <<lsn, ln, listener, listening, closed, registered, conns, incoming>>

(* start: go s.rpc.ListenAndServe(), then gossip.Start().                  *)
serverStart ==
    /\ own = "srvStart"
    /\ spawnListener
    /\ own' = "srvRun"

(* The rest of start: initEngines never fails; node.start may return an   *)
(* error, and http.ListenAndServe either serves for good or returns its    *)
(* error (the address is taken).  An error return leads runStart to stop.  *)
serverRun ==
    /\ own = "srvRun"
    /\ own' \in {"stop", "serving"}
    /\ UNCHANGED <<lsn, ln, listener, listening, closed, registered, conns, incoming, panicked>>

(* stop: node.stop() and gossip.Stop() leave the RPC server alone; then     *)
(* s.rpc.Close(), and runStart returns.                                    *)
serverStop ==
    /\ own = "stop"
    /\ Close
    /\ own' = "done"

(* SimulateNetwork's first loop: rpc.NewServer(addr) and go ListenAndServe. *)
simNewServer ==
    /\ own = "simNew"
    /\ spawnListener
    /\ own' = "simGossip"

(* Its second loop: New(servers[i]) registers; SetBootstrap, SetInterval,  *)
(* AddInfo and Start touch only the gossip node, and so do the cycles.      *)
simNewGossip ==
    /\ own = "simGossip"
    /\ registerGossip
    /\ own' = "simClose"

(* The final loop: servers[i].Close(), then the node's Stop().             *)
simClose ==
    /\ own = "simClose"
    /\ Close
    /\ own' = "done"

-----------------------------------------------------------------------------
(* Remote peers.  A peer dials the open listener, sends a gossip request    *)
(* (the gossip server registers the sender as incoming; before the        *)
(* service is registered the call fails and changes nothing), and hangs   *)
(* up, which makes ServeConn return.                                       *)
dial(c) ==
    /\ conns[c] = "none" /\ ln = "open"
    /\ conns' = [conns EXCEPT ![c] = "queued"]
    /\ UNCHANGED <<own, lsn, ln, listener, listening, closed, registered, incoming, panicked>>

gossipRequest(c) ==
    /\ conns[c] = "serving" /\ registered
    /\ incoming' = incoming \cup {PeerOf[c]}
    /\ UNCHANGED <<own, lsn, ln, listener, listening, closed, registered, conns, panicked>>

hangUp(c) ==
    /\ conns[c] = "serving"
    /\ conns' = [conns EXCEPT ![c] = "closing"]
    /\ UNCHANGED <<own, lsn, ln, listener, listening, closed, registered, incoming, panicked>>

-----------------------------------------------------------------------------
Listener == listenOk \/ listenFail \/ signalListening \/ assignListener \/ acceptError
                     \/ \E c \in Conns : acceptConn(c)

Owner == newServer \/ newServerFail \/ serverStart \/ serverRun \/ serverStop
         \/ simNewServer \/ simNewGossip \/ simClose

Remote == \E c \in Conns : dial(c) \/ gossipRequest(c) \/ hangUp(c)

Next == ~panicked /\ (Listener \/ Owner \/ Remote \/ \E c \in Conns : serveConnDone(c))

Spec == Init /\ [][Next]_vars

(* The Go scheduler runs the listener and serveConn goroutines; Accept on  *)
(* a closed listener returns at once.  A transient Accept error on an open *)
(* listener is a fault, not a step the scheduler promises.  The owner and  *)
(* the peers get no fairness: the properties hold whenever they act.       *)
Alive(A) == ~panicked /\ A

Scheduled == Listener /\ ~(lsn = "accept" /\ ln = "open" /\ lsn' = "exited")

FairSpec == Spec /\ WF_vars(Alive(Scheduled)) /\ \A c \in Conns : WF_vars(Alive(serveConnDone(c)))

-----------------------------------------------------------------------------
(* The gossip server's incoming set never names a peer that has no open    *)
(* connection: the close callback read under s.mu after ServeConn returns *)
(* sees the registration even when it happened while the connection was   *)
(* being served.  A stale entry would make the coordinator skip the peer  *)
(* as a bootstrap host and its clients stop as redundant (client.go:105). *)
IncomingBacked ==
    \A p \in incoming : \E c \in Conns : PeerOf[c] = p /\ conns[c] \in {"serving", "closing"}

(* Close() stops the accept loop: once closed, ListenAndServe returns     *)
(* (unless the process died).                                              *)
ServeLoopExitsAfterClose == closed ~> (lsn = "exited" \/ panicked)

(* Close() and ListenAndServe never dereference a nil listener.            *)
NoNilListener == ~panicked

=============================================================================
