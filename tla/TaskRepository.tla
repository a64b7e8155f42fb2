--------------------------- MODULE TaskRepository ---------------------------
(***************************************************************************)
(* The tasks table and the transactions that write it                      *)
(* (internal/task/repository.go, internal/utils/tx.go).                    *)
(*                                                                         *)
(* The table is a value, not a variable: a module that owns a table `rows' *)
(* applies one of these operators to it for each statement the code runs.  *)
(* Of a row the module keeps its status, its result_file and its           *)
(* error_message; ids, users and timestamps are left out.                  *)
(***************************************************************************)
CONSTANT
    Tasks          \* the tasks that may ever be created

Statuses == {"PENDING", "PROCESSING", "SUCCESS", "FAILED"}

\* The texts other than NULL are the ones worker.go writes.
Results == {"NULL", "result.txt"}
Errors  == {"NULL", "unknown task type", "max retries reached"}

\* A row, or "no row with this id yet".
Rows == [status : Statuses \cup {"ABSENT"}, result : Results, error : Errors]

Absent  == [status |-> "ABSENT",  result |-> "NULL", error |-> "NULL"]
Pending == [status |-> "PENDING", result |-> "NULL", error |-> "NULL"]

Exists(rows, t) == rows[t].status # "ABSENT"

Terminal(rows, t) == rows[t].status \in {"SUCCESS", "FAILED"}

-----------------------------------------------------------------------------
\* INSERT ... RETURNING id
Create(rows, t) == [rows EXCEPT ![t] = Pending]

\* The three UPDATEs select by id alone: they look at no status, a missing
\* row is not an error, and a column that is not named keeps its value.
Update(rows, t, row) == IF Exists(rows, t) THEN [rows EXCEPT ![t] = row] ELSE rows

MarkProcessing(rows, t) ==
    Update(rows, t, [rows[t] EXCEPT !.status = "PROCESSING"])

MarkSuccess(rows, t) ==
    Update(rows, t, [rows[t] EXCEPT !.status = "SUCCESS", !.result = "result.txt"])

MarkFailed(rows, t, error) ==
    Update(rows, t, [rows[t] EXCEPT !.status = "FAILED", !.error = error])

-----------------------------------------------------------------------------
(***************************************************************************)
(* WithTransaction.  The caller sees nil ("committed") or an error, and an *)
(* error of Commit itself does not say whether the transaction took effect *)
(* ("unknown": it did, the answer was lost).                               *)
(***************************************************************************)
TxOutcomes == {"committed", "rolled_back", "unknown"}

\* The table after a transaction that would turn `old' into `new'.
WithTransaction(outcome, old, new) == IF outcome = "rolled_back" THEN old ELSE new

\* What the caller of WithTransaction sees.
TxFailed(outcome) == outcome # "committed"
=============================================================================
