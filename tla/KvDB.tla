---------------------------------- MODULE KvDB ----------------------------------
(***************************************************************************)
(* What the kv.DB interface of src/kv/db.go promises its callers: Get, Put *)
(* and Increment are asynchronous; each returns a channel that receives    *)
(* the reply struct when the call is complete, with its Error field set   *)
(* when the call failed.  The caller may read the channel at any time     *)
(* after the reply is there (PutI reads it at once).                       *)
(***************************************************************************)
CONSTANT Reqs     \* the calls made through one DB

VARIABLES
    state,        \* state[r]: "idle", "pending", "ok" or "error"
    received      \* the caller has taken the reply off r's channel

vars == <<state, received>>

Init ==
    /\ state = [r \in Reqs |-> "idle"]
    /\ received = [r \in Reqs |-> FALSE]

Issue(r) ==
    /\ state[r] = "idle"
    /\ state' = [state EXCEPT ![r] = "pending"]
    /\ UNCHANGED received

(* The reply is put on the channel, whether or not the caller reads it.   *)
Answer(r) ==
    /\ state[r] = "pending"
    /\ \E out \in {"ok", "error"} : state' = [state EXCEPT ![r] = out]
    /\ UNCHANGED received

Receive(r) ==
    /\ state[r] \in {"ok", "error"} /\ ~received[r]
    /\ received' = [received EXCEPT ![r] = TRUE]
    /\ UNCHANGED state

Next == \E r \in Reqs : Issue(r) \/ Answer(r) \/ Receive(r)

(* Every call is answered; nothing is promised of the caller.              *)
Spec == Init /\ [][Next]_vars /\ \A r \in Reqs : WF_vars(Answer(r))

=============================================================================
