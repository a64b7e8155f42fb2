------------------------------- MODULE Routes -------------------------------
(***************************************************************************)
(* The way of a request through the middlewares as setupRoutes orders them *)
(* (internal/handler/handler.go), up to its controller.                    *)
(*                                                                         *)
(* The rate limiter needs the user id in the request's context, and only   *)
(* the authentication middleware puts one there.  Whether the bucket holds *)
(* a token and what a token says is left open.                             *)
(***************************************************************************)
EXTENDS Sequences

VARIABLES
    path,     \* the route of the request
    token,    \* its Authorization header: "access" (valid), "other" or "none"
    chain,    \* the handlers still to run
    userID,   \* is "userID" set in the context?
    status    \* "running", "handled" by its controller, or the status it was refused with

routeVars == <<path, token, chain, userID, status>>

AuthGroup == {"/auth/register", "/auth/login", "/auth/refresh"}
ApiGroup  == {"/api/v1/tasks", "/api/v1/tasks/:id", "/api/v1/users/tasks"}

SetupRoutes(p) == IF p \in AuthGroup THEN <<"RateLimiter", "controller">>
                                     ELSE <<"RateLimiter", "Auth", "controller">>

AtHandler(h) == status = "running" /\ Head(chain) = h

\* c.Next()
Pass  == chain' = Tail(chain) /\ UNCHANGED status

\* c.JSON and c.Abort()
Abort(code) == status' = code /\ UNCHANGED chain

-----------------------------------------------------------------------------
RateLimiterMiddleware ==
    /\ AtHandler("RateLimiter")
    /\ \/ ~userID /\ Abort("401")
       \/ userID /\ (Pass \/ Abort("429"))
    /\ UNCHANGED <<path, token, userID>>

AuthMiddleware ==
    /\ AtHandler("Auth")
    /\ \/ token = "access" /\ userID' = TRUE /\ Pass
       \/ token # "access" /\ Abort("401") /\ UNCHANGED userID
    /\ UNCHANGED <<path, token>>

Controller ==
    /\ AtHandler("controller")
    /\ status' = "handled"
    /\ UNCHANGED <<path, token, chain, userID>>

RoutesInit ==
    /\ path \in AuthGroup \cup ApiGroup
    /\ token \in {"access", "other", "none"}
    /\ chain = SetupRoutes(path)
    /\ userID = FALSE
    /\ status = "running"

RoutesNext == RateLimiterMiddleware \/ AuthMiddleware \/ Controller

RoutesSpec == RoutesInit /\ [][RoutesNext]_routeVars

-----------------------------------------------------------------------------
\* tests/integration/auth_test.go:46 expects http.StatusCreated of a POST to
\* /auth/register through handler.SetupHandler, and README.md:218 documents it:
\* registration asks for no token, so it is not refused for want of one.
RegisterNeedsNoToken == path = "/auth/register" => status # "401"
=============================================================================
