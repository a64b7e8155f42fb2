--------------------------- MODULE MCOrchestrator ---------------------------
(***************************************************************************)
(* Instances of Orchestrator for TLC: one or two requests in progress and  *)
(* one worker container with two goroutines.                               *)
(***************************************************************************)
EXTENDS Orchestrator

MCProcOf == [w \in Workers |-> "p1"]

\* A type with a handler, one of the types the README offers, and one whose
\* payload is not JSON.
MCTypeOf == [t \in Tasks |-> CASE t = "email" -> "send_email"
                               [] t = "video" -> "VIDEO_PROCESS"
                               [] t = "bell"  -> "\\a"]
MCUnquotableTypes == {"\\a"}

\* Faults that repeat or delay work but lose nothing that was accepted.
SafeFaults == {"worker_crash", "mark_rollback", "mark_unknown",
               "update_rollback", "update_unknown", "giveup_unknown",
               "create_rollback", "create_unknown", "api_crash", "api_disconnect"}

\* Faults after which no message is delivered twice and no transaction that
\* reported an error has taken effect.
NoRedeliveryFaults == {"broker_restart", "mark_rollback", "mark_unknown",
                       "update_rollback", "giveup_rollback", "giveup_unknown",
                       "republish_error", "publish_lost", "create_rollback",
                       "create_unknown", "api_crash", "api_disconnect"}

\* README.md:336-339: nothing follows COMPLETED or FAILED.
TerminalIsFinal ==
    [][\A t \in Tasks : Terminal(tasks, t) => tasks'[t].status = tasks[t].status]_vars

\* README.md:280-284 offers VIDEO_PROCESS among the "Available Task Types": one
\* that is accepted does not end as FAILED for its type.
AdvertisedTypes == {"IMAGE_RESIZE", "VIDEO_PROCESS", "DATA_EXPORT", "REPORT_GENERATE"}
AdvertisedTypesSucceed ==
    \A t \in Tasks : TypeOf[t] \in AdvertisedTypes => tasks[t].error # "unknown task type"
=============================================================================
