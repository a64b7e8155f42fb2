---------------------------- MODULE TaskService -----------------------------
(***************************************************************************)
(* What the service promises to a client that creates a task: a row        *)
(* appears while the request is open, the request is answered at most      *)
(* once, a task that was answered with an error is never worked on, and    *)
(* the others are worked on as TaskFlow says.  Nothing of this depends on  *)
(* which faults happen.  Orchestrator implements it.                       *)
(***************************************************************************)
EXTENDS TaskFlow

VARIABLE reply    \* reply[t]: the answer to the request that creates t

Replies == {"none", "created", "error", "aborted"}

ServiceInit == /\ status = [t \in Tasks |-> "ABSENT"]
               /\ reply = [t \in Tasks |-> "none"]

Tell(t, answer) == /\ reply[t] = "none"
                   /\ reply' = [reply EXCEPT ![t] = answer]

Insert(t) == reply[t] = "none" /\ Accept(t) /\ UNCHANGED reply

Confirm(t) == status[t] # "ABSENT" /\ UNCHANGED status /\ Tell(t, "created")

\* A row may have been committed all the same; it waits for ever.
Refuse(t) == /\ Accept(t) \/ (status[t] \in {"ABSENT", "PENDING"} /\ UNCHANGED status)
             /\ Tell(t, "error")

\* The server goes away and leaves the open requests without an answer.
Abort == /\ reply' \in [Tasks -> Replies]
         /\ \A t \in Tasks : reply'[t] # reply[t] =>
               reply[t] = "none" /\ reply'[t] = "aborted" /\ status[t] # "ABSENT"
         /\ UNCHANGED status

Process(t) == reply[t] # "error" /\ Work(t) /\ UNCHANGED reply

ServiceNext ==
    \/ \E t \in Tasks : Insert(t) \/ Confirm(t) \/ Refuse(t) \/ Process(t)
    \/ Abort

ServiceSpec == ServiceInit /\ [][ServiceNext]_<<status, reply>>
=============================================================================
