------------------------------ MODULE Accounts ------------------------------
(***************************************************************************)
(* Registration (Register in internal/user/controller.go, CreateUser in    *)
(* internal/user/service.go, the users table and its UNIQUE username).     *)
(*                                                                         *)
(* A request looks the name up, and inserts the row later, in a            *)
(* transaction of its own: requests for one name race.  A lookup that      *)
(* fails counts as "not there".  An INSERT waits for the transaction of    *)
(* another one with the same name, and fails once that one has committed.  *)
(***************************************************************************)
EXTENDS Naturals, FiniteSets

CONSTANTS
    Requests,       \* POST /auth/register requests with a valid body
    NameOf,         \* NameOf[r] is the username in the body of r
    MaxOpenConns,   \* connections of the database pool (SetMaxOpenConns)
    DbFaults,       \* the kinds of fault that may happen
    None

ASSUME AccountsAssumption ==
    /\ None \notin Requests /\ None \notin {201, 409, 500}
    /\ MaxOpenConns \in Nat \ {0}

VARIABLES
    accounts,   \* accounts[n]: the request that the committed row of n is from, or None
    stage,      \* stage[r]: the call that r makes next
    answer,     \* answer[r]: the status r was answered with, or None
    conns       \* the requests whose transaction holds a connection of the pool

accountVars == <<accounts, stage, answer, conns>>

Names  == {NameOf[r] : r \in Requests}
Stages == {"unsent", "lookup", "begin", "insert", "commit", "done"}
Active(r) == stage[r] \notin {"unsent", "done"}
InTransaction == {r \in Requests : stage[r] \in {"insert", "commit"}}

FreeConn == Cardinality(conns) < MaxOpenConns
Taken(n) == accounts[n] # None

Goto(r, s) == stage' = [stage EXCEPT ![r] = s] /\ UNCHANGED answer

Reply(r, status) ==
    /\ stage' = [stage EXCEPT ![r] = "done"]
    /\ answer' = [answer EXCEPT ![r] = status]

-----------------------------------------------------------------------------
Register(r) ==
    /\ stage[r] = "unsent"
    /\ Goto(r, "lookup")
    /\ UNCHANGED <<accounts, conns>>

\* Mutant: a lookup that fails is taken for a name that exists.
LookupRefusing(r) ==
    /\ stage[r] = "lookup" /\ FreeConn
    /\ \/ Taken(NameOf[r]) /\ Reply(r, 409)
       \/ ~Taken(NameOf[r]) /\ Goto(r, "begin")
       \/ "statement" \in DbFaults /\ Reply(r, 409)
    /\ UNCHANGED <<accounts, conns>>

\* GetByUsername: a row is a conflict; no row and an error go on alike.
Lookup(r) ==
    /\ stage[r] = "lookup" /\ FreeConn
    /\ \/ Taken(NameOf[r]) /\ Reply(r, 409)
       \/ ~Taken(NameOf[r]) /\ Goto(r, "begin")
       \/ "statement" \in DbFaults /\ Goto(r, "begin")
    /\ UNCHANGED <<accounts, conns>>

\* A password bcrypt refuses and a failing Begin are a 500 alike.
Begin(r) ==
    /\ stage[r] = "begin"
    /\ \/ FreeConn /\ Goto(r, "insert") /\ conns' = conns \cup {r}
       \/ "statement" \in DbFaults /\ Reply(r, 500) /\ UNCHANGED conns
    /\ UNCHANGED accounts

\* No other transaction holds an uncommitted row of this name.
NameUnlocked(r) ==
    \A other \in Requests \ {r} : NameOf[other] = NameOf[r] => stage[other] # "commit"

\* Mutant: no deferred Rollback, a failed INSERT leaves its transaction open.
InsertLeaking(r) ==
    /\ stage[r] = "insert"
    /\ \/ NameUnlocked(r) /\ ~Taken(NameOf[r]) /\ Goto(r, "commit")
       \/ NameUnlocked(r) /\ Taken(NameOf[r]) /\ Reply(r, 409)
       \/ "statement" \in DbFaults /\ Reply(r, 500)
    /\ UNCHANGED <<accounts, conns>>

\* Mutant: no UNIQUE constraint; the newest row of a name is the one found.
InsertDuplicate(r) ==
    /\ stage[r] = "insert"
    /\ \/ Goto(r, "commit") /\ UNCHANGED conns
       \/ "statement" \in DbFaults /\ Reply(r, 500) /\ conns' = conns \ {r}
    /\ UNCHANGED accounts

\* The INSERT; a "duplicate key" is a conflict, any other error a 500.
Insert(r) ==
    /\ stage[r] = "insert"
    /\ \/ NameUnlocked(r) /\ ~Taken(NameOf[r]) /\ Goto(r, "commit") /\ UNCHANGED conns
       \/ NameUnlocked(r) /\ Taken(NameOf[r]) /\ Reply(r, 409) /\ conns' = conns \ {r}
       \/ "statement" \in DbFaults /\ Reply(r, 500) /\ conns' = conns \ {r}
    /\ UNCHANGED accounts

\* Mutant: the error of Commit is logged and not returned.
CommitUnchecked(r) ==
    /\ stage[r] = "commit"
    /\ \/ accounts' = [accounts EXCEPT ![NameOf[r]] = r] /\ Reply(r, 201)
       \/ "commit" \in DbFaults /\ UNCHANGED accounts /\ Reply(r, 201)
    /\ conns' = conns \ {r}

\* A Commit that returns an error may have taken effect.
Commit(r) ==
    /\ stage[r] = "commit"
    /\ \/ accounts' = [accounts EXCEPT ![NameOf[r]] = r] /\ Reply(r, 201)
       \/ /\ "commit" \in DbFaults
          /\ \/ UNCHANGED accounts
             \/ accounts' = [accounts EXCEPT ![NameOf[r]] = r]
          /\ Reply(r, 500)
    /\ conns' = conns \ {r}

\* The API process dies: nobody is answered, and what a Commit under way did
\* is anybody's guess.
ApiCrash ==
    /\ \E r \in Requests : Active(r)
    /\ accounts' \in [Names -> Requests \cup {None}]
    /\ \A n \in Names :
          \/ accounts'[n] = accounts[n]
          \/ \E r \in Requests : stage[r] = "commit" /\ NameOf[r] = n /\ accounts'[n] = r
    /\ stage' = [r \in Requests |-> IF Active(r) THEN "done" ELSE stage[r]]
    /\ conns' = {}
    /\ UNCHANGED answer

-----------------------------------------------------------------------------
AccountsInit ==
    /\ accounts = [n \in Names |-> None]
    /\ stage = [r \in Requests |-> "unsent"]
    /\ answer = [r \in Requests |-> None]
    /\ conns = {}

\* What the goroutine of a request does on its own.
CreateUser(r) == Lookup(r) \/ Begin(r) \/ Insert(r) \/ Commit(r)

AccountsNext ==
    \/ \E r \in Requests : Register(r) \/ CreateUser(r)
    \/ ApiCrash

\* database/sql serves the requests that wait for a connection in turn.
RegistrationsFair == \A r \in Requests : WF_accountVars(CreateUser(r))

AccountsSpec == AccountsInit /\ [][AccountsNext]_accountVars

-----------------------------------------------------------------------------
\* The types of the variables; a transaction holds a connection exactly while
\* it is open.
AccountsTypeOK ==
    /\ accounts \in [Names -> Requests \cup {None}]
    /\ stage \in [Requests -> Stages]
    /\ answer \in [Requests -> {None, 201, 409, 500}]
    /\ conns = InTransaction

\* A 201 is kept (service.go:33-69): of racing registrations of one name, with
\* lookups that fail and commits nobody knows the outcome of, at most one is
\* told that it created the account, and the row is and stays its row.
CreatedMeansOwned ==
    \A r \in Requests : answer[r] = 201 => accounts[NameOf[r]] = r

\* A 409 is true (service.go:34-36, controller.go:40-57): the name belongs to
\* another request's committed account, not to a transaction that may still be
\* rolled back, and not to a lookup that failed.
ConflictMeansTaken ==
    \A r \in Requests : answer[r] = 409 => accounts[NameOf[r]] \notin {None, r}

\* A committed 201, a true 409, one answer each, and a row that no later request
\* takes over (service.go:33-71, controller.go:40-57): to the clients, requests
\* that race through three calls with commits, rollbacks and crashes between
\* them look like registrations served one at a time.
Served == INSTANCE Registry WITH owner <- accounts, told <- answer

RegistersAtomically == Served!RegistrySpec

\* What r waits for is there, without the help of an error.
MayProceed(r) == \/ stage[r] \in {"lookup", "begin"} /\ FreeConn
                 \/ stage[r] = "insert" /\ NameUnlocked(r)
                 \/ stage[r] = "commit"

\* No circle of waiting (service.go:34-71, db/postgres.go:45): a request that
\* waits for a connection and one that holds a connection and waits for a row
\* never wait for each other alone, however small the pool is.
NoCircle == (\E r \in Requests : Active(r)) => \E r \in Requests : MayProceed(r)

\* Every registration ends (service.go:33-71): it is answered or its process
\* dies.  Requests wait for connections and for each other's rows, but never
\* in a circle, and no failed one keeps its connection.
RegistrationsEnd == \A r \in Requests : Active(r) ~> stage[r] = "done"
=============================================================================
