---------------------------- MODULE MCTaskReads ----------------------------
(***************************************************************************)
(* Instances of TaskReads for TLC: one task, its owner and another user.   *)
(***************************************************************************)
EXTENDS TaskReads

MCOwnerOf == [t \in Tasks |-> "alice"]

\* README.md:528-529: polling GET /tasks/1 once a second shows the status
\* change.  No hit answers with a row the database replaced a tick or more
\* before.
PollingShowsChanges ==
    [][\A r \in Readers :
          /\ reader[r].at = "get" /\ reader[r].key.kind = "task"
          /\ reader'[r].at = "ok"
          => cache[reader[r].key].age = 0]_readVars
=============================================================================
