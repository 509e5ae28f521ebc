---------------------------- MODULE RemoteCalls ----------------------------
(***************************************************************************)
(* What invoke() of the RPC client promises its caller: a request runs at  *)
(* most once on the server, a success is the result of that run, and every *)
(* call is settled.  A failure promises nothing about the run, which may   *)
(* be over, under way or still to come; only a call that was refused       *)
(* before it was sent never runs.                                          *)
(***************************************************************************)
CONSTANT Requests

VARIABLES
  call, \* what the caller of a request has seen
  ran   \* what the server has done with it

vars == <<call, ran>>

Init ==
  /\ call = [r \in Requests |-> "idle"]
  /\ ran = [r \in Requests |-> "no"]

Start(r) == /\ call[r] = "idle"
            /\ call' = [call EXCEPT ![r] = "open"]
            /\ UNCHANGED ran

Refuse(r) == /\ call[r] = "idle"
             /\ call' = [call EXCEPT ![r] = "refused"]
             /\ UNCHANGED ran

Run(r) == /\ call[r] \notin {"idle", "refused"}
          /\ ran[r] = "no"
          /\ ran' = [ran EXCEPT ![r] = "running"]
          /\ UNCHANGED call

Finish(r) == /\ ran[r] = "running"
             /\ \E result \in {"done", "threw"} : ran' = [ran EXCEPT ![r] = result]
             /\ UNCHANGED call

Succeed(r) == /\ call[r] = "open"
              /\ ran[r] = "done"
              /\ call' = [call EXCEPT ![r] = "ok"]
              /\ UNCHANGED ran

Fail(r) == /\ call[r] = "open"
           /\ call' = [call EXCEPT ![r] = "failed"]
           /\ UNCHANGED ran

(* A lost connection and disconnect() fail all open calls in one step. *)
FailAll == call' = [r \in Requests |-> IF call[r] = "open" THEN "failed" ELSE call[r]]
           /\ UNCHANGED ran

Next == \/ \E r \in Requests : \/ Start(r) \/ Refuse(r) \/ Run(r)
                               \/ Finish(r) \/ Succeed(r) \/ Fail(r)
        \/ FailAll

Safety == Init /\ [][Next]_vars

Spec == Safety /\ \A r \in Requests : WF_vars(Succeed(r) \/ Fail(r))
=============================================================================
