--------------------------------- MODULE LocalDB ---------------------------------
(***************************************************************************)
(* The local kv client of src/kv/local_db.go: invokeMethod calls the       *)
(* method on the single local storage.Range in the caller's goroutine,     *)
(* sends the reply on a channel of capacity 1 and only then returns the   *)
(* channel.  The Range is not under src/, so its call succeeds or sets    *)
(* the reply's Error.                                                      *)
(***************************************************************************)
CONSTANT Reqs

VARIABLES
    lpc,          \* "idle", "invoking" (inside invokeMethod), "returned"
    lreply,       \* "none", "ok" or "error"
    lreceived     \* the caller took the reply

lvars == <<lpc, lreply, lreceived>>

Init ==
    /\ lpc = [r \in Reqs |-> "idle"]
    /\ lreply = [r \in Reqs |-> "none"]
    /\ lreceived = [r \in Reqs |-> FALSE]

(* Get, Put or Increment enters invokeMethod.                              *)
invoke(r) ==
    /\ lpc[r] = "idle"
    /\ lpc' = [lpc EXCEPT ![r] = "invoking"]
    /\ UNCHANGED <<lreply, lreceived>>

(* MethodByName(method).Call(args, reply), then chanVal.Send(reply) and    *)
(* return the channel.                                                     *)
callRange(r) ==
    /\ lpc[r] = "invoking"
    /\ lpc' = [lpc EXCEPT ![r] = "returned"]
    /\ \E out \in {"ok", "error"} : lreply' = [lreply EXCEPT ![r] = out]
    /\ UNCHANGED lreceived

receive(r) ==
    /\ lreply[r] # "none" /\ ~lreceived[r]
    /\ lreceived' = [lreceived EXCEPT ![r] = TRUE]
    /\ UNCHANGED <<lpc, lreply>>

Next == \E r \in Reqs : invoke(r) \/ callRange(r) \/ receive(r)

(* invokeMethod runs to its end in the caller's goroutine.                 *)
FairSpec == Init /\ [][Next]_lvars /\ \A r \in Reqs : WF_lvars(callRange(r))

=============================================================================
