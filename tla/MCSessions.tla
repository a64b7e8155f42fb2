----------------------------- MODULE MCSessions -----------------------------
(***************************************************************************)
(* Instances of Sessions for TLC: two requests race for one name with      *)
(* different passwords, a third repeats the first one.                     *)
(***************************************************************************)
EXTENDS Sessions

MCNameOf     == [r \in Requests |-> "ann"]
MCPasswordOf == [r \in Requests |-> IF r = "r2" THEN "pw2" ELSE "pw1"]
AllDbFaults  == {"statement", "commit"}

\* The comment at auth/jwt.go:136: "Old refresh token becomes invalid".  Once a
\* refresh token was used, in a second before this one, it renews no session.
OldRefreshTokenInvalid ==
    \A t \in used : t.left < RefreshTTL => ~Refreshable(t)
=============================================================================
