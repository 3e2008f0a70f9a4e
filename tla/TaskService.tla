----------------------------- MODULE TaskService -----------------------------
(***************************************************************************)
(* What the callers of IO::AsyncIO::IOThreadPool rely on, without threads, *)
(* locks or a queue: a task handed to the service is run once, unless it   *)
(* is handed over while the service is being closed and has nothing left   *)
(* to do.  Only then may it be lost.                                       *)
(*                                                                         *)
(* The module is the abstract specification that IOThreadPool implements   *)
(* and the view of the pool that the modules of its users take.            *)
(***************************************************************************)
CONSTANT Tasks              \* the tasks that callers may hand over

VARIABLES status,           \* the life cycle of each task
          service           \* "open", "closing" (inside Stop) or "closed"

vars == <<status, service>>

TypeOK == /\ status \in [Tasks -> {"new", "queued", "running", "done", "lost"}]
          /\ service \in {"open", "closing", "closed"}

\* No task waits and none runs.
Idle == \A u \in Tasks : status[u] \notin {"queued", "running"}

Init == /\ status = [t \in Tasks |-> "new"]
        /\ service = "open"

Submit(t) == /\ status[t] = "new"
             /\ status' = [status EXCEPT ![t] = "queued"]
             /\ UNCHANGED service

\* A task handed over to a closing service that has run dry is lost.
SubmitLost(t) == /\ status[t] = "new"
                 /\ service = "closing"
                 /\ Idle
                 /\ status' = [status EXCEPT ![t] = "lost"]
                 /\ UNCHANGED service

Begin(t) == /\ status[t] = "queued"
            /\ service # "closed"
            /\ status' = [status EXCEPT ![t] = "running"]
            /\ UNCHANGED service

Finish(t) == /\ status[t] = "running"
             /\ status' = [status EXCEPT ![t] = "done"]
             /\ UNCHANGED service

Close == /\ service = "open"
         /\ service' = "closing"
         /\ UNCHANGED status

\* The service closes only when every task it accepted has been run.
Closed == /\ service = "closing"
          /\ Idle
          /\ service' = "closed"
          /\ UNCHANGED status

Reopen == /\ service = "closed"
          /\ service' = "open"
          /\ UNCHANGED status

Next == \/ \E t \in Tasks : Submit(t) \/ SubmitLost(t) \/ Begin(t) \/ Finish(t)
        \/ Close \/ Closed \/ Reopen

SafeSpec == Init /\ [][Next]_vars

\* An accepted task is started while the service is not closed, and finishes.
Spec == /\ SafeSpec
        /\ \A t \in Tasks : WF_vars(Begin(t)) /\ WF_vars(Finish(t))
=============================================================================
