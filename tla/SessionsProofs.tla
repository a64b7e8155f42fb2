--------------------------- MODULE SessionsProofs ---------------------------
(***************************************************************************)
(* For any number of registrations, names and connections and any TTLs: a  *)
(* 201 and a 409 tell the truth, registrations look as if served one at a  *)
(* time and never wait in a circle, and sessions end and belong to the     *)
(* owner of the account.                                                   *)
(***************************************************************************)
EXTENDS Sessions, FiniteSetTheorems, TLAPS

USE AccountsAssumption, SessionsAssumption

-----------------------------------------------------------------------------
(* Accounts: the inductive invariant *)

\* A row that is not committed yet keeps every other request of its name out.
CommitsAlone ==
    \A r \in Requests : stage[r] = "commit" =>
       /\ ~Taken(NameOf[r])
       /\ \A other \in Requests \ {r} :
             NameOf[other] = NameOf[r] => stage[other] # "commit"

AnsweredDone == \A r \in Requests : answer[r] # None => stage[r] = "done"

\* A row was written by a request that is through.
RowsDone ==
    \A n \in Names : Taken(n) => NameOf[accounts[n]] = n /\ stage[accounts[n]] = "done"

AccountsInv == /\ AccountsTypeOK /\ CommitsAlone /\ AnsweredDone /\ RowsDone
               /\ CreatedMeansOwned /\ ConflictMeansTaken

LEMMA NamesTyped == \A r \in Requests : NameOf[r] \in Names
BY DEF Names

LEMMA AccountsInitInv == AccountsInit => AccountsInv
<1> SUFFICES ASSUME AccountsInit PROVE AccountsInv
  OBVIOUS
<1>1. \A r \in Requests : stage[r] = "unsent" /\ answer[r] = None
  BY DEF AccountsInit
<1>2. AccountsTypeOK
  BY <1>1 DEF AccountsInit, AccountsTypeOK, Stages, InTransaction
<1>3. \A n \in Names : ~Taken(n)
  BY DEF AccountsInit, Taken
<1>4. CommitsAlone /\ AnsweredDone /\ RowsDone
  BY <1>1, <1>3 DEF CommitsAlone, AnsweredDone, RowsDone
<1>5. CreatedMeansOwned /\ ConflictMeansTaken
  BY <1>1 DEF CreatedMeansOwned, ConflictMeansTaken
<1> QED
  BY <1>2, <1>4, <1>5 DEF AccountsInv

-----------------------------------------------------------------------------
(* Accounts: the steps *)

\* A request that goes on to its next call.
LEMMA GotoKeeps ==
    ASSUME AccountsInv, NEW r \in Requests, NEW s \in Stages \ {"unsent", "done"},
           stage[r] # "done", Goto(r, s), UNCHANGED accounts, conns' = InTransaction',
           s = "commit" => NameUnlocked(r) /\ ~Taken(NameOf[r])
    PROVE  AccountsInv'
<1>1. stage \in [Requests -> Stages]
  BY DEF AccountsInv, AccountsTypeOK
<1>2. stage' \in [Requests -> Stages] /\ \A q \in Requests : stage'[q] = IF q = r THEN s ELSE stage[q]
  BY <1>1 DEF Goto
<1>3. accounts' = accounts /\ answer' = answer
  BY DEF Goto
<1>4. AccountsTypeOK'
  BY <1>2, <1>3 DEF AccountsInv, AccountsTypeOK
<1>5. CommitsAlone'
  BY <1>2, <1>3 DEF AccountsInv, CommitsAlone, Taken, NameUnlocked
<1>6. AnsweredDone' /\ RowsDone'
  BY <1>2, <1>3 DEF AccountsInv, AccountsTypeOK, AnsweredDone, RowsDone, Taken
<1>7. CreatedMeansOwned' /\ ConflictMeansTaken'
  BY <1>3 DEF AccountsInv, CreatedMeansOwned, ConflictMeansTaken
<1> QED
  BY <1>4, <1>5, <1>6, <1>7 DEF AccountsInv

RowWritten(r) == accounts' = [accounts EXCEPT ![NameOf[r]] = r]

\* A request that is answered, with its row or without.
LEMMA ReplyKeeps ==
    ASSUME AccountsInv, NEW r \in Requests, NEW status \in {201, 409, 500},
           stage[r] \notin {"unsent", "done"}, Reply(r, status), conns' = conns \ {r},
           \/ status # 201 /\ UNCHANGED accounts
           \/ status # 409 /\ stage[r] = "commit" /\ RowWritten(r),
           status = 409 => Taken(NameOf[r])
    PROVE  AccountsInv'
<1>1. /\ stage \in [Requests -> Stages] /\ accounts \in [Names -> Requests \cup {None}]
      /\ answer \in [Requests -> {None, 201, 409, 500}]
      /\ NameOf[r] \in Names
  BY NamesTyped DEF AccountsInv, AccountsTypeOK
<1>2. /\ stage' \in [Requests -> Stages]
      /\ \A q \in Requests : stage'[q] = IF q = r THEN "done" ELSE stage[q]
  BY <1>1 DEF Reply, Stages
<1>3. /\ answer' \in [Requests -> {None, 201, 409, 500}]
      /\ \A q \in Requests : answer'[q] = IF q = r THEN status ELSE answer[q]
  BY <1>1 DEF Reply
<1>4. answer[r] = None
  BY DEF AccountsInv, AnsweredDone
<1>5. /\ accounts' \in [Names -> Requests \cup {None}]
      /\ \A n \in Names : Taken(n) => accounts'[n] = accounts[n]
      /\ \A n \in Names : accounts'[n] # accounts[n] =>
            n = NameOf[r] /\ accounts'[n] = r /\ stage[r] = "commit"
  BY <1>1 DEF AccountsInv, CommitsAlone, RowWritten
<1>6. AccountsTypeOK'
  <2>1. conns' = InTransaction'
    BY <1>2 DEF AccountsInv, AccountsTypeOK, InTransaction
  <2> QED
    BY <1>2, <1>3, <1>5, <2>1 DEF AccountsTypeOK
<1>7. CommitsAlone'
  <2> SUFFICES ASSUME NEW q \in Requests, stage'[q] = "commit"
               PROVE  /\ ~Taken(NameOf[q])'
                      /\ \A other \in Requests \ {q} :
                            NameOf[other] = NameOf[q] => stage'[other] # "commit"
    BY DEF CommitsAlone
  <2>1. q # r /\ stage[q] = "commit" /\ NameOf[q] \in Names
    BY <1>2, NamesTyped
  <2>2. ~Taken(NameOf[q])'
    BY <1>5, <2>1 DEF AccountsInv, CommitsAlone, Taken
  <2> QED
    BY <1>2, <2>1, <2>2 DEF AccountsInv, CommitsAlone
<1>8. AnsweredDone'
  BY <1>2, <1>3 DEF AccountsInv, AnsweredDone
<1>9. RowsDone'
  <2> SUFFICES ASSUME NEW n \in Names, Taken(n)'
               PROVE  NameOf[accounts'[n]] = n /\ stage'[accounts'[n]] = "done"
    BY DEF RowsDone
  <2>1. CASE accounts'[n] = accounts[n]
    BY <1>1, <1>2, <2>1 DEF AccountsInv, RowsDone, Taken
  <2>2. CASE accounts'[n] # accounts[n]
    BY <1>2, <1>5, <2>2
  <2> QED
    BY <2>1, <2>2
<1>10. CreatedMeansOwned'
  <2> SUFFICES ASSUME NEW q \in Requests, answer'[q] = 201
               PROVE  accounts'[NameOf[q]] = q
    BY DEF CreatedMeansOwned
  <2>1. CASE q = r
    BY <1>1, <1>3, <2>1 DEF RowWritten
  <2>2. CASE q # r
    <3>1. accounts[NameOf[q]] = q /\ NameOf[q] \in Names
      BY <1>3, <2>2, NamesTyped DEF AccountsInv, CreatedMeansOwned
    <3> QED
      BY <1>5, <3>1 DEF Taken
  <2> QED
    BY <2>1, <2>2
<1>11. ConflictMeansTaken'
  <2> SUFFICES ASSUME NEW q \in Requests, answer'[q] = 409
               PROVE  accounts'[NameOf[q]] \notin {None, q}
    BY DEF ConflictMeansTaken
  <2>1. CASE q = r
    BY <1>1, <1>3, <2>1 DEF AccountsInv, RowsDone, Taken
  <2>2. CASE q # r
    <3>1. accounts[NameOf[q]] \notin {None, q} /\ NameOf[q] \in Names
      BY <1>3, <2>2, NamesTyped DEF AccountsInv, ConflictMeansTaken
    <3> QED
      BY <1>5, <3>1 DEF Taken
  <2> QED
    BY <2>1, <2>2
<1> QED
  BY <1>6, <1>7, <1>8, <1>9, <1>10, <1>11 DEF AccountsInv

LEMMA CrashKeeps == ASSUME AccountsInv, ApiCrash PROVE AccountsInv'
<1>1. /\ stage \in [Requests -> Stages] /\ accounts \in [Names -> Requests \cup {None}]
  BY DEF AccountsInv, AccountsTypeOK
<1>2. /\ stage' \in [Requests -> Stages]
      /\ \A q \in Requests : stage'[q] = IF Active(q) THEN "done" ELSE stage[q]
      /\ \A q \in Requests : stage'[q] \in {"unsent", "done"}
  BY <1>1 DEF ApiCrash, Active, Stages
<1>3. answer' = answer /\ accounts' \in [Names -> Requests \cup {None}]
  BY DEF ApiCrash
<1>4. \A n \in Names : accounts'[n] # accounts[n] =>
         \E r \in Requests : stage[r] = "commit" /\ NameOf[r] = n /\ accounts'[n] = r
  BY DEF ApiCrash
<1>5. \A n \in Names : Taken(n) => accounts'[n] = accounts[n]
  BY <1>4 DEF AccountsInv, CommitsAlone
<1>6. AccountsTypeOK'
  <2>1. conns' = InTransaction'
    BY <1>2 DEF ApiCrash, InTransaction
  <2> QED
    BY <1>2, <1>3, <2>1 DEF AccountsInv, AccountsTypeOK
<1>7. CommitsAlone' /\ AnsweredDone'
  BY <1>2, <1>3 DEF AccountsInv, CommitsAlone, AnsweredDone, Active
<1>8. RowsDone'
  <2> SUFFICES ASSUME NEW n \in Names, Taken(n)'
               PROVE  NameOf[accounts'[n]] = n /\ stage'[accounts'[n]] = "done"
    BY DEF RowsDone
  <2>1. CASE accounts'[n] = accounts[n]
    BY <1>1, <1>2, <2>1 DEF AccountsInv, RowsDone, Taken, Active
  <2>2. CASE accounts'[n] # accounts[n]
    BY <1>2, <1>4, <2>2 DEF Active
  <2> QED
    BY <2>1, <2>2
<1>9. CreatedMeansOwned' /\ ConflictMeansTaken'
  BY <1>3, <1>5, NamesTyped
     DEF AccountsInv, CreatedMeansOwned, ConflictMeansTaken, Taken
<1> QED
  BY <1>6, <1>7, <1>8, <1>9 DEF AccountsInv

\* What a request does: go on, or be answered.
LEMMA RequestKeeps ==
    ASSUME AccountsInv, NEW r \in Requests, Register(r) \/ CreateUser(r)
    PROVE  AccountsInv'
<1>1. stage \in [Requests -> Stages] /\ conns = InTransaction
  BY DEF AccountsInv, AccountsTypeOK
<1>2. ASSUME NEW s \in Stages, Goto(r, s)
      PROVE  InTransaction' = (InTransaction \ {r}) \cup (IF s \in {"insert", "commit"} THEN {r} ELSE {})
  BY <1>1, <1>2 DEF Goto, InTransaction
<1>3. CASE Register(r)
  BY <1>1, <1>2, <1>3, GotoKeeps DEF Register, InTransaction, Stages
<1>4. CASE Lookup(r)
  <2>1. CASE Reply(r, 409) /\ Taken(NameOf[r])
    <3>1. conns' = conns \ {r}
      BY <1>1, <1>4 DEF Lookup, InTransaction
    <3> QED
      BY <1>4, <2>1, <3>1, ReplyKeeps DEF Lookup
  <2>2. CASE Goto(r, "begin")
    BY <1>1, <1>2, <1>4, <2>2, GotoKeeps DEF Lookup, InTransaction, Stages
  <2> QED
    BY <1>4, <2>1, <2>2 DEF Lookup
<1>5. CASE Begin(r)
  <2>1. CASE Goto(r, "insert") /\ conns' = conns \cup {r}
    <3>1. conns' = InTransaction'
      BY <1>1, <1>2, <1>5, <2>1 DEF Begin, InTransaction, Stages
    <3> QED
      BY <1>5, <2>1, <3>1, GotoKeeps DEF Begin, Stages
  <2>2. CASE Reply(r, 500) /\ UNCHANGED conns
    <3>1. conns' = conns \ {r}
      BY <1>1, <1>5, <2>2 DEF Begin, InTransaction
    <3> QED
      BY <1>5, <2>2, <3>1, ReplyKeeps DEF Begin
  <2> QED
    BY <1>5, <2>1, <2>2 DEF Begin
<1>6. CASE Insert(r)
  <2>1. CASE NameUnlocked(r) /\ ~Taken(NameOf[r]) /\ Goto(r, "commit") /\ UNCHANGED conns
    <3>1. conns' = InTransaction'
      BY <1>1, <1>2, <1>6, <2>1 DEF Insert, InTransaction, Stages
    <3> QED
      BY <1>6, <2>1, <3>1, GotoKeeps DEF Insert, Stages
  <2>2. CASE Taken(NameOf[r]) /\ Reply(r, 409) /\ conns' = conns \ {r}
    BY <1>6, <2>2, ReplyKeeps DEF Insert
  <2>3. CASE Reply(r, 500) /\ conns' = conns \ {r}
    BY <1>6, <2>3, ReplyKeeps DEF Insert
  <2> QED
    BY <1>6, <2>1, <2>2, <2>3 DEF Insert
<1>7. CASE Commit(r)
  <2>1. stage[r] = "commit" /\ conns' = conns \ {r}
    BY <1>7 DEF Commit
  <2>2. \/ RowWritten(r) /\ Reply(r, 201)
        \/ (UNCHANGED accounts \/ RowWritten(r)) /\ Reply(r, 500)
    BY <1>7 DEF Commit, RowWritten
  <2> QED
    BY <2>1, <2>2, ReplyKeeps
<1> QED
  BY <1>3, <1>4, <1>5, <1>6, <1>7 DEF CreateUser

\* A committed account is never replaced.
LEMMA AccountsStay ==
    ASSUME AccountsInv, AccountsNext, NEW n \in Names, Taken(n)
    PROVE  accounts'[n] = accounts[n]
<1>1. CASE ApiCrash
  BY <1>1 DEF ApiCrash, AccountsInv, CommitsAlone
<1>2. ASSUME NEW r \in Requests, Register(r) \/ CreateUser(r)
      PROVE  accounts'[n] = accounts[n]
  <2>1. CASE UNCHANGED accounts
    BY <2>1
  <2>2. CASE stage[r] = "commit" /\ accounts' = [accounts EXCEPT ![NameOf[r]] = r]
    BY <2>2 DEF AccountsInv, AccountsTypeOK, CommitsAlone
  <2> QED
    BY <1>2, <2>1, <2>2 DEF Register, CreateUser, Lookup, Begin, Insert, Commit
<1> QED
  BY <1>1, <1>2 DEF AccountsNext

LEMMA AccountsStep == ASSUME AccountsInv, [AccountsNext]_accountVars PROVE AccountsInv'
<1>1. CASE UNCHANGED accountVars
  BY <1>1
     DEF accountVars, AccountsInv, AccountsTypeOK, CommitsAlone, AnsweredDone, RowsDone, Taken,
         InTransaction, CreatedMeansOwned, ConflictMeansTaken
<1>2. CASE AccountsNext
  BY <1>2, RequestKeeps, CrashKeeps DEF AccountsNext
<1> QED
  BY <1>1, <1>2

-----------------------------------------------------------------------------
(* Sessions *)

\* A valid token is younger than its TTL, and so is the user's last renewal.
TokensAge ==
    \A t \in tokens :
       /\ t.left <= TTLOf(t.kind)
       /\ t.left > 0 => t.left + idle[t.user] <= TTLOf(t.kind)

SessionsInv == SessionsTypeOK /\ TokensAge /\ SessionsOfOwner

LEMMA SessionsInitInv == SessionsInit => SessionsInv
BY DEF SessionsInit, SessionsInv, SessionsTypeOK, TokensAge, SessionsOfOwner

LEMMA PairTyped ==
    ASSUME NEW n \in Names
    PROVE  /\ GenerateTokenPair(n) \subseteq Tokens
           /\ \A t \in GenerateTokenPair(n) : t.user = n /\ t.left = TTLOf(t.kind)
BY DEF GenerateTokenPair, Tokens, TTLOf

\* Registrations leave sessions alone.
LEMMA RegistrationsKeepSessions ==
    ASSUME AccountsInv, SessionsInv, AccountsNext, UNCHANGED sessionVars
    PROVE  SessionsInv'
<1>1. SessionsTypeOK' /\ TokensAge'
  BY DEF SessionsInv, SessionsTypeOK, TokensAge, sessionVars
<1>2. SessionsOfOwner'
  <2> SUFFICES ASSUME NEW t \in tokens
               PROVE  /\ Taken(t.user)' /\ shown[t.user] # None
                      /\ PasswordOf[shown[t.user]] = PasswordOf[accounts'[t.user]]
    BY DEF SessionsOfOwner, sessionVars
  <2>1. t.user \in Names
    BY DEF SessionsInv, SessionsTypeOK, Tokens
  <2>2. Taken(t.user) /\ accounts'[t.user] = accounts[t.user]
    BY <2>1, AccountsStay DEF SessionsInv, SessionsOfOwner
  <2> QED
    BY <2>2 DEF SessionsInv, SessionsOfOwner, Taken
<1> QED
  BY <1>1, <1>2 DEF SessionsInv

\* A new pair starts its user's time anew.
LEMMA IssueKeeps ==
    ASSUME SessionsInv, NEW n \in Names, Issue(n)
    PROVE  /\ tokens' \subseteq Tokens /\ tokens \subseteq tokens'
           /\ idle' \in [Names -> 0 .. RefreshTTL]
           /\ TokensAge'
           /\ \A t \in tokens' : t \in tokens \/ t.user = n
<1>1. tokens' = tokens \cup GenerateTokenPair(n) /\ idle' = [idle EXCEPT ![n] = 0]
  BY DEF Issue
<1>2. tokens \subseteq Tokens /\ idle \in [Names -> 0 .. RefreshTTL]
  BY DEF SessionsInv, SessionsTypeOK
<1>3. TokensAge'
  <2> SUFFICES ASSUME NEW t \in tokens'
               PROVE  /\ t.left <= TTLOf(t.kind)
                      /\ t.left > 0 => t.left + idle'[t.user] <= TTLOf(t.kind)
    BY DEF TokensAge
  <2>1. CASE t \in GenerateTokenPair(n)
    <3>1. t.user = n /\ t.left = TTLOf(t.kind) /\ t \in Tokens
      BY <2>1, PairTyped
    <3>2. idle'[n] = 0 /\ TTLOf(t.kind) \in Nat
      BY <1>1, <1>2 DEF TTLOf
    <3> QED
      BY <3>1, <3>2
  <2>2. CASE t \in tokens
    <3>1. t.left \in Nat /\ t.user \in Names /\ TTLOf(t.kind) \in Nat
      BY <1>2, <2>2 DEF Tokens, TTLOf
    <3>2. idle'[t.user] \in {0, idle[t.user]} /\ idle[t.user] \in Nat
      BY <1>1, <1>2, <3>1
    <3> QED
      BY <2>2, <3>1, <3>2 DEF SessionsInv, TokensAge
  <2> QED
    BY <1>1, <2>1, <2>2
<1> QED
  BY <1>1, <1>2, <1>3, PairTyped

LEMMA LoginKeeps ==
    ASSUME SessionsInv, NEW n \in Names, NEW r \in Requests, LoginUser(n, r),
           UNCHANGED accountVars
    PROVE  SessionsInv'
<1>1. Taken(n) /\ PasswordOf[accounts[n]] = PasswordOf[r] /\ Issue(n)
      /\ shown' = [shown EXCEPT ![n] = r] /\ used' = used
  BY DEF LoginUser
<1>2. shown \in [Names -> Requests \cup {None}] /\ used \subseteq {t \in tokens : t.kind = "refresh"}
  BY DEF SessionsInv, SessionsTypeOK
<1>3. SessionsTypeOK' /\ TokensAge'
  BY <1>1, <1>2, IssueKeeps DEF SessionsTypeOK
<1>4. SessionsOfOwner'
  <2> SUFFICES ASSUME NEW t \in tokens'
               PROVE  /\ Taken(t.user) /\ shown'[t.user] # None
                      /\ PasswordOf[shown'[t.user]] = PasswordOf[accounts[t.user]]
    BY DEF SessionsOfOwner, accountVars, Taken
  <2>1. CASE t.user = n
    BY <1>1, <1>2, <2>1
  <2>2. CASE t.user # n
    <3>1. t \in tokens /\ t.user \in Names
      BY <1>1, <2>2, IssueKeeps DEF SessionsInv, SessionsTypeOK, Tokens
    <3> QED
      BY <1>1, <1>2, <2>2, <3>1 DEF SessionsInv, SessionsOfOwner
  <2> QED
    BY <2>1, <2>2
<1> QED
  BY <1>3, <1>4 DEF SessionsInv

LEMMA RefreshKeeps ==
    ASSUME SessionsInv, NEW t \in tokens, RefreshTokenPair(t), UNCHANGED accountVars
    PROVE  SessionsInv'
<1>1. t.kind = "refresh" /\ Issue(t.user) /\ used' = used \cup {t} /\ shown' = shown
  BY DEF RefreshTokenPair, Refreshable, ValidateToken
<1>2. t.user \in Names
  BY DEF SessionsInv, SessionsTypeOK, Tokens
<1>3. SessionsTypeOK' /\ TokensAge'
  BY <1>1, <1>2, IssueKeeps DEF SessionsInv, SessionsTypeOK
<1>4. SessionsOfOwner'
  BY <1>1, <1>2, IssueKeeps DEF SessionsInv, SessionsOfOwner, accountVars, Taken
<1> QED
  BY <1>3, <1>4 DEF SessionsInv

LEMMA SecondPasses ==
    ASSUME SessionsInv, Tick, UNCHANGED accountVars
    PROVE  SessionsInv'
<1>1. /\ tokens \subseteq Tokens /\ used \subseteq {t \in tokens : t.kind = "refresh"}
      /\ idle \in [Names -> 0 .. RefreshTTL]
  BY DEF SessionsInv, SessionsTypeOK
<1>2. ASSUME NEW t \in Tokens, NEW o, o = [t EXCEPT !.left = IF @ = 0 THEN 0 ELSE @ - 1]
      PROVE  /\ o \in Tokens /\ o.user = t.user /\ o.kind = t.kind
             /\ o.left = IF t.left = 0 THEN 0 ELSE t.left - 1
  BY <1>2 DEF Tokens
<1>3. /\ tokens' = Older(tokens) /\ used' = Older(used) /\ shown' = shown
      /\ idle' = [n \in Names |-> IF idle[n] = RefreshTTL THEN RefreshTTL ELSE idle[n] + 1]
  BY DEF Tick
<1>4. \A o \in tokens' : \E t \in tokens :
         /\ o \in Tokens /\ o.user = t.user /\ o.kind = t.kind
         /\ o.left = IF t.left = 0 THEN 0 ELSE t.left - 1
  BY <1>1, <1>2, <1>3 DEF Older
<1>5. used' \subseteq {o \in tokens' : o.kind = "refresh"}
  BY <1>1, <1>2, <1>3 DEF Older
<1>6. idle' \in [Names -> 0 .. RefreshTTL]
  BY <1>1, <1>3
<1>7. SessionsTypeOK'
  BY <1>3, <1>4, <1>5, <1>6 DEF SessionsInv, SessionsTypeOK
<1>8. TokensAge'
  <2> SUFFICES ASSUME NEW o \in tokens'
               PROVE  /\ o.left <= TTLOf(o.kind)
                      /\ o.left > 0 => o.left + idle'[o.user] <= TTLOf(o.kind)
    BY DEF TokensAge
  <2>1. PICK t \in tokens : /\ o.user = t.user /\ o.kind = t.kind
                            /\ o.left = IF t.left = 0 THEN 0 ELSE t.left - 1
    BY <1>4
  <2>2. t.left \in Nat /\ t.user \in Names /\ TTLOf(t.kind) \in Nat
    BY <1>1 DEF Tokens, TTLOf
  <2>3. idle[t.user] \in Nat /\ idle'[t.user] \in Nat /\ idle'[t.user] <= idle[t.user] + 1
    BY <1>1, <1>3, <2>2
  <2>4. t.left <= TTLOf(t.kind) /\ (t.left > 0 => t.left + idle[t.user] <= TTLOf(t.kind))
    BY DEF SessionsInv, TokensAge
  <2> QED
    BY <2>1, <2>2, <2>3, <2>4
<1>9. SessionsOfOwner'
  BY <1>3, <1>4 DEF SessionsInv, SessionsOfOwner, accountVars, Taken
<1> QED
  BY <1>7, <1>8, <1>9 DEF SessionsInv

LEMMA SystemStep ==
    ASSUME AccountsInv, SessionsInv, [SessionsNext]_allVars
    PROVE  AccountsInv' /\ SessionsInv'
<1>1. CASE UNCHANGED allVars
  <2>1. AccountsInv'
    BY <1>1, AccountsStep DEF allVars
  <2>2. SessionsInv'
    BY <1>1
       DEF allVars, accountVars, sessionVars, SessionsInv, SessionsTypeOK, TokensAge,
           SessionsOfOwner, Taken
  <2> QED
    BY <2>1, <2>2
<1>2. CASE AccountsNext /\ UNCHANGED sessionVars
  BY <1>2, AccountsStep, RegistrationsKeepSessions
<1>3. CASE SessionStep /\ UNCHANGED accountVars
  <2>1. AccountsInv'
    BY <1>3, AccountsStep
  <2>2. SessionsInv'
    BY <1>3, LoginKeeps, RefreshKeeps, SecondPasses DEF SessionStep
  <2> QED
    BY <2>1, <2>2
<1> QED
  BY <1>1, <1>2, <1>3 DEF SessionsNext

LEMMA SystemInvHolds == SessionsSpec => [](AccountsInv /\ SessionsInv)
<1>1. SessionsInit => AccountsInv /\ SessionsInv
  BY AccountsInitInv, SessionsInitInv DEF SessionsInit
<1>2. AccountsInv /\ SessionsInv /\ [SessionsNext]_allVars => (AccountsInv /\ SessionsInv)'
  BY SystemStep
<1> QED
  BY <1>1, <1>2, PTL DEF SessionsSpec

-----------------------------------------------------------------------------
(* The theorems *)

\* The variables of registrations keep their types; a connection is held exactly
\* as long as a transaction is open.
THEOREM AccountsTypeCorrect == SessionsSpec => []AccountsTypeOK
<1>1. AccountsInv => AccountsTypeOK
  BY DEF AccountsInv
<1> QED
  BY <1>1, SystemInvHolds, PTL

\* The variables of sessions keep their types; only refresh tokens are used to
\* refresh.
THEOREM SessionsTypeCorrect == SessionsSpec => []SessionsTypeOK
<1>1. SessionsInv => SessionsTypeOK
  BY DEF SessionsInv
<1> QED
  BY <1>1, SystemInvHolds, PTL

\* A 201 is kept (service.go:33-69): whoever is told that the account was
\* created has its row, for any number of racing registrations.
THEOREM CreatedIsOwned == SessionsSpec => []CreatedMeansOwned
<1>1. AccountsInv => CreatedMeansOwned
  BY DEF AccountsInv
<1> QED
  BY <1>1, SystemInvHolds, PTL

\* A 409 is true (service.go:34-36, controller.go:40-57): another request's
\* account of that name is committed.
THEOREM ConflictIsTaken == SessionsSpec => []ConflictMeansTaken
<1>1. AccountsInv => ConflictMeansTaken
  BY DEF AccountsInv
<1> QED
  BY <1>1, SystemInvHolds, PTL

\* A session that is not renewed ends (jwt.go:41-62), for all pairs of TTLs.
THEOREM SessionsDoEnd == SessionsSpec => []SessionsEnd
<1>1. SessionsInv => SessionsEnd
  <2> SUFFICES ASSUME SessionsInv, NEW t \in tokens
               PROVE  /\ AuthMiddleware(t) => idle[t.user] < AccessTTL
                      /\ Refreshable(t)    => idle[t.user] < RefreshTTL
    BY DEF SessionsEnd
  <2>1. t.left \in Nat /\ idle[t.user] \in Nat
    BY DEF SessionsInv, SessionsTypeOK, Tokens
  <2> QED
    BY <2>1 DEF SessionsInv, TokensAge, AuthMiddleware, Refreshable, ValidateToken, TTLOf
<1> QED
  BY <1>1, SystemInvHolds, PTL

\* A session is its account's (service.go:33-35, 79-86): the password that was
\* shown for it is the one in the user's row for good.
THEOREM SessionsAreOfOwners == SessionsSpec => []SessionsOfOwner
<1>1. SessionsInv => SessionsOfOwner
  BY DEF SessionsInv
<1> QED
  BY <1>1, SystemInvHolds, PTL

-----------------------------------------------------------------------------
(* Nobody waits for everybody *)

\* The transactions that are open have all the connections that are in use, so
\* when none is open a waiting request gets one; of those that are open one can
\* go on: a row is locked by a request that needs nothing but its Commit.
LEMMA InvHasNoCircle == AccountsInv => NoCircle
<1> SUFFICES ASSUME AccountsInv, NEW r \in Requests, Active(r)
             PROVE  \E q \in Requests : MayProceed(q)
  BY DEF NoCircle
<1>1. stage \in [Requests -> Stages] /\ conns = InTransaction
  BY DEF AccountsInv, AccountsTypeOK
<1>2. CASE conns = {}
  <2>1. stage[r] \in {"lookup", "begin"}
    BY <1>1, <1>2 DEF Active, Stages, InTransaction
  <2>2. FreeConn
    BY <1>2, FS_EmptySet DEF FreeConn
  <2> QED
    BY <2>1, <2>2 DEF MayProceed
<1>3. CASE conns # {}
  <2>1. PICK c \in Requests : stage[c] \in {"insert", "commit"}
    BY <1>1, <1>3 DEF InTransaction
  <2>2. CASE stage[c] = "commit" \/ NameUnlocked(c)
    BY <2>1, <2>2 DEF MayProceed
  <2>3. CASE ~NameUnlocked(c)
    <3>1. PICK other \in Requests \ {c} : stage[other] = "commit"
      BY <2>3 DEF NameUnlocked
    <3> QED
      BY <3>1 DEF MayProceed
  <2> QED
    BY <2>2, <2>3
<1> QED
  BY <1>2, <1>3

\* Requests never wait in a circle for connections and rows (service.go:34-71,
\* db/postgres.go:45), with any number of requests and a pool of any size.
THEOREM NobodyWaitsInACircle == SessionsSpec => []NoCircle
BY InvHasNoCircle, SystemInvHolds, PTL

-----------------------------------------------------------------------------
(* Registration is served in one step *)

\* A request that is answered is one step of the registry.
LEMMA ReplyServes ==
    ASSUME AccountsInv, NEW r \in Requests, NEW status \in {201, 409, 500},
           stage[r] # "done", Reply(r, status),
           \/ status = 201 /\ stage[r] = "commit" /\ RowWritten(r)
           \/ status = 409 /\ Taken(NameOf[r]) /\ UNCHANGED accounts
           \/ status = 500 /\ (UNCHANGED accounts \/ (stage[r] = "commit" /\ RowWritten(r)))
    PROVE  Served!RegistryNext
<1>1. Served!Tell(r, status)
  BY DEF AccountsInv, AnsweredDone, Reply, Served!Tell
<1>2. ASSUME stage[r] = "commit", RowWritten(r) PROVE Served!Claim(r)
  BY <1>2 DEF AccountsInv, CommitsAlone, Taken, RowWritten, Served!Claim
<1>3. ASSUME Taken(NameOf[r]) PROVE accounts[NameOf[r]] \notin {None, r}
  BY <1>3, NamesTyped DEF AccountsInv, RowsDone, Taken
<1> QED
  BY <1>1, <1>2, <1>3
  DEF Served!RegistryNext, Served!Created, Served!Conflict, Served!Failed

\* So is what a commit under way did when the process dies.
LEMMA CrashServes == ASSUME AccountsInv, ApiCrash PROVE Served!Silence
<1>1. /\ accounts' \in [Names -> Requests \cup {None}] /\ answer' = answer
      /\ \A n \in Names : accounts'[n] # accounts[n] =>
            \E r \in Requests : stage[r] = "commit" /\ NameOf[r] = n /\ accounts'[n] = r
  BY DEF ApiCrash
<1>2. \A r \in Requests : stage[r] = "commit" => ~Taken(NameOf[r]) /\ answer[r] = None
  BY DEF AccountsInv, CommitsAlone, AnsweredDone
<1> QED
  BY <1>1, <1>2 DEF Served!Silence, Served!Names, Names, Taken

LEMMA RequestServes ==
    ASSUME AccountsInv, NEW r \in Requests, Register(r) \/ CreateUser(r)
    PROVE  Served!RegistryNext \/ UNCHANGED <<accounts, answer>>
<1>1. stage[r] # "done"
  BY DEF Register, CreateUser, Lookup, Begin, Insert, Commit
<1> DEFINE Unanswered == UNCHANGED <<accounts, answer>>
           Answered ==
              \/ Reply(r, 201) /\ stage[r] = "commit" /\ RowWritten(r)
              \/ Reply(r, 409) /\ Taken(NameOf[r]) /\ UNCHANGED accounts
              \/ Reply(r, 500) /\ (UNCHANGED accounts \/ (stage[r] = "commit" /\ RowWritten(r)))
<1>2. Unanswered \/ Answered
  <2>1. CASE Register(r)
    BY <2>1 DEF Register, Goto
  <2>2. CASE Lookup(r)
    BY <2>2 DEF Lookup, Goto
  <2>3. CASE Begin(r)
    BY <2>3 DEF Begin, Goto
  <2>4. CASE Insert(r)
    BY <2>4 DEF Insert, Goto
  <2>5. CASE Commit(r)
    BY <2>5 DEF Commit, RowWritten
  <2> QED
    BY <2>1, <2>2, <2>3, <2>4, <2>5 DEF CreateUser
<1>3. CASE Reply(r, 201) /\ stage[r] = "commit" /\ RowWritten(r)
  BY <1>1, <1>3, ReplyServes
<1>4. CASE Reply(r, 409) /\ Taken(NameOf[r]) /\ UNCHANGED accounts
  BY <1>1, <1>4, ReplyServes
<1>5. CASE Reply(r, 500) /\ (UNCHANGED accounts \/ (stage[r] = "commit" /\ RowWritten(r)))
  BY <1>1, <1>5, ReplyServes
<1> QED
  BY <1>2, <1>3, <1>4, <1>5

\* Registration looks served one request at a time (service.go:33-71): each step
\* of the requests, of any number and for any names, and each crash maps to a
\* step of Registry or to none.
THEOREM RegistrationIsAtomic == SessionsSpec => RegistersAtomically
<1>1. SessionsInit => Served!RegistryInit
  BY DEF SessionsInit, AccountsInit, Served!RegistryInit, Served!Names, Names
<1>2. ASSUME AccountsInv, [SessionsNext]_allVars
      PROVE  [Served!RegistryNext]_<<accounts, answer>>
  <2>1. CASE UNCHANGED accountVars
    BY <2>1 DEF accountVars
  <2>2. CASE AccountsNext
    BY <1>2, <2>2, RequestServes, CrashServes DEF AccountsNext, Served!RegistryNext
  <2> QED
    BY <1>2, <2>1, <2>2 DEF SessionsNext, allVars
<1> QED
  BY <1>1, <1>2, SystemInvHolds, PTL DEF SessionsSpec, RegistersAtomically, Served!RegistrySpec
=============================================================================
