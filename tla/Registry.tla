------------------------------ MODULE Registry ------------------------------
(***************************************************************************)
(* What registration promises to its clients, as if each request were      *)
(* served in one step: a free name goes to one request, for good, an       *)
(* answer is given once, and a 201 and a 409 are true when they are given. *)
(* After a 500, or no answer, the name may be the client's or not.         *)
(* Accounts implements it.                                                 *)
(***************************************************************************)
CONSTANTS
    Requests,   \* POST /auth/register requests
    NameOf,     \* NameOf[r] is the username r asks for
    None

VARIABLES
    owner,      \* owner[n]: the request that name n was given to, or None
    told        \* told[r]: the status r was answered with, or None

Names == {NameOf[r] : r \in Requests}

RegistryInit == /\ owner = [n \in Names |-> None]
                /\ told = [r \in Requests |-> None]

Claim(r) == /\ owner[NameOf[r]] = None
            /\ owner' = [owner EXCEPT ![NameOf[r]] = r]

Tell(r, status) == /\ told[r] = None
                   /\ told' = [told EXCEPT ![r] = status]

Created(r)  == Claim(r) /\ Tell(r, 201)
Conflict(r) == owner[NameOf[r]] \notin {None, r} /\ UNCHANGED owner /\ Tell(r, 409)
Failed(r)   == (Claim(r) \/ UNCHANGED owner) /\ Tell(r, 500)

\* The service dies; some of the requests it has not answered got their names.
Silence ==
    /\ owner' \in [Names -> Requests \cup {None}]
    /\ \A n \in Names : owner'[n] # owner[n] =>
          /\ owner[n] = None
          /\ owner'[n] \in {r \in Requests : NameOf[r] = n /\ told[r] = None}
    /\ UNCHANGED told

RegistryNext == \/ \E r \in Requests : Created(r) \/ Conflict(r) \/ Failed(r)
                \/ Silence

RegistrySpec == RegistryInit /\ [][RegistryNext]_<<owner, told>>
=============================================================================
