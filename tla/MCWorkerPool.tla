---------------------------- MODULE MCWorkerPool ----------------------------
(***************************************************************************)
(* Instances of WorkerPool for TLC: two containers, one with two           *)
(* goroutines and one with a single goroutine.                             *)
(***************************************************************************)
EXTENDS WorkerPool

MCWorkers == {"w1", "w2", "w3"}
MCProcs   == {"p1", "p2"}
MCProcOf  == [w \in MCWorkers |-> IF w = "w3" THEN "p2" ELSE "p1"]

\* A type with a handler, one without, one whose payload is not JSON.
MCTypeOf == [t \in Tasks |-> CASE t = "email" -> "send_email"
                               [] t = "other" -> "VIDEO_PROCESS"
                               [] t = "bell"  -> "\\a"]
MCUnquotableTypes == {"\\a"}

\* Every fault the pool can meet.
AllFaults == {"worker_crash", "worker_disconnect", "broker_restart",
              "mark_rollback", "mark_unknown", "update_rollback", "update_unknown",
              "giveup_rollback", "giveup_unknown", "republish_error"}
=============================================================================
