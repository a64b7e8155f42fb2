------------------------------ MODULE TaskFlow ------------------------------
(***************************************************************************)
(* What the service promises about the status of a task: the flow drawn in *)
(* the project's README (PENDING, then PROCESSING, then one final status), *)
(* with the names the code stores.  WorkerPool and Orchestrator implement  *)
(* it as long as nothing makes the broker deliver a message twice, and     *)
(* implement RedeliverySpec whatever goes wrong.                           *)
(***************************************************************************)
CONSTANT Tasks

VARIABLE status    \* status[t], "ABSENT" before t is created

FlowInit == status \in [Tasks -> {"ABSENT", "PENDING"}]

Move(t, from, to) == /\ status[t] = from
                     /\ status' = [status EXCEPT ![t] = to]

Final == {"SUCCESS", "FAILED"}

Accept(t) == Move(t, "ABSENT", "PENDING")
Start(t)  == Move(t, "PENDING", "PROCESSING")
Finish(t) == \E final \in Final : Move(t, "PROCESSING", final)

FlowNext == \E t \in Tasks : Accept(t) \/ Start(t) \/ Finish(t)

FlowSpec == FlowInit /\ [][FlowNext]_status

-----------------------------------------------------------------------------
\* What is left of the flow when a message is worked on again: its task starts
\* anew, or its outcome is replaced by another one.
Restart(t)   == \E final \in Final : Move(t, final, "PROCESSING")
Overwrite(t) == \E from, to \in Final : Move(t, from, to)

Work(t) == Start(t) \/ Finish(t) \/ Restart(t) \/ Overwrite(t)

RedeliveryNext == \E t \in Tasks : Accept(t) \/ Work(t)

RedeliverySpec == FlowInit /\ [][RedeliveryNext]_status
=============================================================================
