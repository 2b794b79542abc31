------------------------- MODULE UserAccountsProofs -------------------------
(***************************************************************************)
(* Theorems about UserAccounts, for any number of users, sessions, tokens, *)
(* requests and readings of the clock.                                     *)
(***************************************************************************)
EXTENDS UserAccounts, TLAPS

\* What is there has been issued, so that an id is never given twice.
IssuedInv ==
    /\ \A u \in Users : profile[u] # Nil => u \in issued
    /\ \A t \in Tokens : token[t] # Nil => t \in issued

\* profile.username is unique.
NamesUnique ==
    \A u, v \in Users : profile[u] # Nil /\ profile[u] = profile[v] => u = v

\* No password is from the future.
PasswordsPast == \A row \in password : row.at <= now

\* A replaced password has a newer one over it, or its user is gone for good.
ReplacedInv ==
    \A row \in replaced :
        \/ profile[row.user] = Nil /\ row.user \in issued
        \/ \E other \in password : other.user = row.user /\ other.at > row.at

\* The statements whose request knows its user, and its reading of the clock.
UserPCs  == CreationPCs \cup {"stampSet", "set", "open", "owner", "grant"}
StampPCs == {"setup", "set"}

\* A request has the locals that its next statement uses.
Locals(q) ==
    /\ q.pc \in UserPCs => q.user \in Users
    /\ q.pc \in {"insert", "find"} => q.name \in Names
    /\ q.pc \in StampPCs => q.at \in 1 .. now

\* A change of password is newer than those it found.
Older(q) ==
    /\ q.pc = "stampSet" => \A row \in q.older : row.user = q.user /\ row.at <= now
    /\ q.pc = "set" => \A row \in q.older : row.user = q.user /\ row.at < q.at

\* The user whose password was checked still has the name that was asked for,
\* and is the one for whom the session is opened.
Checked(q) ==
    q.checked # Nil =>
        /\ q.pc = "find" => profile[q.checked] = q.name
        /\ q.pc = "open" => q.user = q.checked

RequestInv(q) == Locals(q) /\ Older(q) /\ Checked(q)

RequestsInv == \A r \in Requests : RequestInv(req[r])

IInv ==
    /\ TypeOK
    /\ IssuedInv
    /\ NamesUnique
    /\ PasswordsPast
    /\ ReplacedInv
    /\ NoOrphans
    /\ PasswordSetUp
    /\ RequestsInv

\* A slot that is free is well typed.
LEMMA IdleType == Idle \in Request
BY StampAssumption DEF Idle, Request

\* A request that has ended makes no claim.
LEMMA IdleInv == RequestInv(Idle)
BY DEF Idle, RequestInv, Locals, Older, Checked, UserPCs, CreationPCs, StampPCs

\* There are no rows at first, and no request is under way.
LEMMA InitIInv == Init => IInv
<1> SUFFICES ASSUME Init
             PROVE  IInv
  OBVIOUS
<1>1. TypeOK
  BY IdleType, StampAssumption DEF Init, TypeOK
<1>2. IssuedInv /\ NamesUnique /\ PasswordsPast /\ ReplacedInv /\ NoOrphans
  BY DEF Init, IssuedInv, NamesUnique, PasswordsPast, ReplacedInv, NoOrphans
<1>3. PasswordSetUp
  BY DEF Init, PasswordSetUp
<1>4. RequestsInv
  BY IdleInv DEF Init, RequestsInv
<1> QED
  BY <1>1, <1>2, <1>3, <1>4 DEF IInv

-----------------------------------------------------------------------------
(* Steps of one request that change no table.                              *)

LEMMA RequestStep ==
    ASSUME IInv, NEW r \in Requests, NEW q \in Request,
           req' = [req EXCEPT ![r] = q],
           UNCHANGED <<profile, password, session, token, issued, now, abandoned, replaced>>,
           RequestInv(q),
           req[r].pc \in CreationPCs =>
              q.pc \in CreationPCs /\ q.user = req[r].user
    PROVE  IInv'
<1>1. \A s \in Requests : req'[s] = IF s = r THEN q ELSE req[s]
  BY DEF IInv, TypeOK
<1>2. TypeOK'
  BY DEF IInv, TypeOK
<1>3. (IssuedInv /\ NamesUnique /\ PasswordsPast /\ ReplacedInv /\ NoOrphans)'
  BY DEF IInv, IssuedInv, NamesUnique, PasswordsPast, ReplacedInv, NoOrphans
<1>4. PasswordSetUp'
  BY <1>1 DEF IInv, PasswordSetUp, PasswordsOf, BeingCreated
<1>5. RequestsInv'
  <2> SUFFICES ASSUME NEW s \in Requests
               PROVE  RequestInv(req[s])'
    BY DEF RequestsInv
  <2>1. RequestInv(req'[s])
    BY <1>1 DEF IInv, RequestsInv
  <2> QED
    BY <2>1 DEF RequestInv, Locals, Older, Checked
<1> QED
  BY <1>2, <1>3, <1>4, <1>5 DEF IInv

\* A request that was not creating a user is answered.
LEMMA AnswerStep ==
    ASSUME IInv, NEW r \in Requests, Answer(r), req[r].pc \notin CreationPCs,
           UNCHANGED <<profile, password, session, token, issued, now, abandoned, replaced>>
    PROVE  IInv'
BY RequestStep, IdleType, IdleInv DEF Answer

\* A creation starts with a name.
LEMMA StartCreateStep ==
    ASSUME IInv, NEW r \in Requests, NEW name \in Names, StartCreate(r, name)
    PROVE  IInv'
<1> DEFINE q == [Idle EXCEPT !.pc = "insert", !.name = name]
<1>1. q \in Request
  BY IdleType DEF Request, RunningPCs
<1>2. RequestInv(q)
  BY DEF Idle, RequestInv, Locals, Older, Checked, UserPCs, CreationPCs, StampPCs
<1> QED
  BY <1>1, <1>2, RequestStep DEF StartCreate, CreationPCs

\* The user whose password was checked has the name asked for.
LEMMA CheckPasswordStep ==
    ASSUME IInv, NEW r \in Requests, NEW name \in Names, CheckPassword(r, name)
    PROVE  IInv'
<1> PICK u \in Users : 
           /\ profile[u] = name
           /\ req' = [req EXCEPT ![r] = [Idle EXCEPT !.pc = "find", !.name = name,
                                                     !.checked = u]]
  BY DEF CheckPassword
<1> DEFINE q == [Idle EXCEPT !.pc = "find", !.name = name, !.checked = u]
<1>1. q \in Request
  BY IdleType DEF Request, RunningPCs
<1>2. RequestInv(q)
  BY DEF Idle, RequestInv, Locals, Older, Checked, UserPCs, CreationPCs, StampPCs
<1> QED
  BY <1>1, <1>2, RequestStep DEF CheckPassword, CreationPCs

\* The passwords that a change finds are of its user, and past.
LEMMA StartSetPasswordStep ==
    ASSUME IInv, NEW r \in Requests, NEW u \in Users, StartSetPassword(r, u)
    PROVE  IInv'
<1> DEFINE q == [Idle EXCEPT !.pc = "stampSet", !.user = u, !.older = PasswordsOf(u)]
<1>1. q \in Request
  BY IdleType DEF Request, RunningPCs, PasswordsOf, IInv, TypeOK
<1>2. RequestInv(q)
  BY DEF Idle, RequestInv, Locals, Older, Checked, UserPCs, CreationPCs, StampPCs,
         PasswordsOf, IInv, PasswordsPast
<1> QED
  BY <1>1, <1>2, RequestStep DEF StartSetPassword, CreationPCs

\* A request of an agent holds a token only.
LEMMA CheckTokenStep ==
    ASSUME IInv, NEW r \in Requests, NEW t \in Tokens, CheckToken(r, t)
    PROVE  IInv'
<1> DEFINE q == [Idle EXCEPT !.pc = "touch", !.token = t, !.row = token[t]]
<1>1. q \in Request
  BY IdleType DEF Request, RunningPCs, IInv, TypeOK, CheckToken
<1>2. RequestInv(q)
  BY DEF Idle, RequestInv, Locals, Older, Checked, UserPCs, CreationPCs, StampPCs
<1> QED
  BY <1>1, <1>2, RequestStep DEF CheckToken, CreationPCs

\* Noting the use of a token leaves what the model has of it.
LEMMA TouchTokenStep ==
    ASSUME IInv, NEW r \in Requests, TouchToken(r)
    PROVE  IInv'
BY AnswerStep DEF TouchToken, CreationPCs

\* The session's user is one who had a session.
LEMMA StartCreateTokenStep ==
    ASSUME IInv, NEW r \in Requests, NEW s \in Sessions, StartCreateToken(r, s)
    PROVE  IInv'
<1> DEFINE q == [Idle EXCEPT !.pc = "owner", !.user = session[s]]
<1>1. session[s] \in Users
  BY DEF StartCreateToken, IInv, TypeOK
<1>2. q \in Request
  BY <1>1, IdleType DEF Request, RunningPCs
<1>3. RequestInv(q)
  BY <1>1 DEF Idle, RequestInv, Locals, Older, Checked, UserPCs, CreationPCs, StampPCs
<1> QED
  BY <1>2, <1>3, RequestStep DEF StartCreateToken, CreationPCs

\* The user of a new token was found.
LEMMA StartGrantStep ==
    ASSUME IInv, NEW r \in Requests, NEW u \in Users, StartGrant(r, u)
    PROVE  IInv'
<1> DEFINE q == [Idle EXCEPT !.pc = "grant", !.user = u]
<1>1. q \in Request
  BY IdleType DEF Request, RunningPCs
<1>2. RequestInv(q)
  BY DEF Idle, RequestInv, Locals, Older, Checked, UserPCs, CreationPCs, StampPCs
<1> QED
  BY <1>1, <1>2, RequestStep DEF StartGrant, CreationPCs

\* The session's user is looked up once more.
LEMMA FindOwnerStep ==
    ASSUME IInv, NEW r \in Requests, FindOwner(r)
    PROVE  IInv'
<1>1. CASE profile[req[r].user] # Nil
  <2> DEFINE q == [req[r] EXCEPT !.pc = "grant"]
  <2>1. q \in Request
    BY DEF IInv, TypeOK, Request, RunningPCs
  <2>2. req[r].pc = "owner" /\ req' = [req EXCEPT ![r] = q]
    BY <1>1 DEF FindOwner, Go
  <2>3. RequestInv(q)
    BY <2>2 DEF IInv, TypeOK, Request, RequestsInv, RequestInv, Locals, Older,
                Checked, UserPCs, CreationPCs, StampPCs
  <2> QED
    BY <2>1, <2>2, <2>3, RequestStep DEF FindOwner, CreationPCs
<1>2. CASE profile[req[r].user] = Nil
  BY <1>2, AnswerStep DEF FindOwner, CreationPCs
<1> QED
  BY <1>1, <1>2

\* A creation that fails goes on to undo itself, and is still under way.
LEMMA FailSetUpStep ==
    ASSUME IInv, NEW r \in Requests, FailSetUp(r)
    PROVE  IInv'
<1> DEFINE q == [req[r] EXCEPT !.pc = "rollback"]
<1>1. q \in Request
  BY DEF IInv, TypeOK, Request, RunningPCs, CreationPCs
<1>2. req[r].pc = "setup" /\ req' = [req EXCEPT ![r] = q]
  BY DEF FailSetUp, Go
<1>3. RequestInv(q)
  BY <1>2 DEF IInv, TypeOK, Request, RequestsInv, RequestInv, Locals, Older,
              Checked, UserPCs, CreationPCs, StampPCs
<1>4. q.pc \in CreationPCs /\ q.user = req[r].user
  BY <1>2 DEF IInv, TypeOK, Request, CreationPCs
<1> QED
  BY <1>1, <1>2, <1>3, <1>4, RequestStep DEF FailSetUp

\* Names are unique: the profile found by its name is the one whose password
\* was checked.
LEMMA FindProfileStep ==
    ASSUME IInv, NEW r \in Requests, FindProfile(r)
    PROVE  IInv'
<1>1. CASE \E u \in Users :
               /\ profile[u] = req[r].name
               /\ req' = [req EXCEPT ![r].user = u, ![r].pc = "open"]
  <2> PICK u \in Users :
               /\ profile[u] = req[r].name
               /\ req' = [req EXCEPT ![r].user = u, ![r].pc = "open"]
    BY <1>1
  <2> DEFINE q == [req[r] EXCEPT !.user = u, !.pc = "open"]
  <2>0. req[r] \in Request /\ "open" \in RunningPCs
    BY DEF IInv, TypeOK, RunningPCs
  <2>1. q \in Request
    BY <2>0 DEF Request
  <2>2. req[r].pc = "find" /\ req[r].name \in Names /\ req' = [req EXCEPT ![r] = q]
    BY DEF FindProfile, IInv, TypeOK, RequestsInv, RequestInv, Locals
  <2>3. q.pc = "open" /\ q.user = u /\ q.checked = req[r].checked
    BY DEF IInv, TypeOK, Request
  <2>4. Checked(q)
    <3> SUFFICES ASSUME q.checked # Nil
                 PROVE  u = q.checked
      BY <2>3 DEF Checked
    <3>1. q.checked \in Users /\ profile[q.checked] = req[r].name
      BY <2>1, <2>2, <2>3 DEF IInv, RequestsInv, RequestInv, Checked, Request
    <3> QED
      BY <3>1, <2>2, NilAssumption DEF IInv, NamesUnique
  <2>5. Locals(q) /\ Older(q)
    BY <2>3 DEF Locals, Older, StampPCs
  <2> QED
    BY <2>1, <2>2, <2>4, <2>5, RequestStep DEF FindProfile, RequestInv, CreationPCs
<1>2. CASE Answer(r)
  BY <1>2, AnswerStep DEF FindProfile, CreationPCs
<1> QED
  BY <1>1, <1>2 DEF FindProfile

\* The time of a password is later than that of all there are.
LEMMA StampPasswordStep ==
    ASSUME IInv, NEW r \in Requests, StampPassword(r)
    PROVE  IInv'
<1> DEFINE q == [req[r] EXCEPT !.at = now + 1,
                               !.pc = IF @ = "stamp" THEN "setup" ELSE "set"]
<1>0. now \in Nat /\ now + 1 \in 1 .. MaxStamp /\ now' = now + 1
  BY StampAssumption DEF StampPassword, ReadClock, IInv, TypeOK
<1>1. q \in Request
  <2>1. req[r] \in Request /\ {"setup", "set"} \subseteq RunningPCs
    BY DEF IInv, TypeOK, RunningPCs, CreationPCs
  <2>2. now + 1 \in 0 .. MaxStamp
    BY <1>0, StampAssumption
  <2> QED
    BY <2>1, <2>2 DEF Request
<1>2. req[r].pc \in {"stamp", "stampSet"} /\ req' = [req EXCEPT ![r] = q]
  BY DEF StampPassword, ReadClock
<1>3. /\ q.pc = (IF req[r].pc = "stamp" THEN "setup" ELSE "set")
      /\ q.user = req[r].user /\ q.at = now + 1 /\ q.older = req[r].older
      /\ q.checked = req[r].checked
  BY DEF IInv, TypeOK, Request
<1>4. UNCHANGED <<profile, password, session, token, issued, abandoned, replaced>>
  BY DEF StampPassword
<1> HIDE DEF q
<1>5. \A s \in Requests : req'[s] = IF s = r THEN q ELSE req[s]
  BY <1>2 DEF IInv, TypeOK
<1>6. TypeOK'
  BY <1>0, <1>1, <1>2, <1>4 DEF IInv, TypeOK
<1>7. (IssuedInv /\ NamesUnique /\ ReplacedInv /\ NoOrphans)'
  BY <1>4 DEF IInv, IssuedInv, NamesUnique, ReplacedInv, NoOrphans
<1>8. PasswordsPast'
  BY <1>0, <1>4 DEF IInv, TypeOK, Password, PasswordsPast
<1>9. PasswordSetUp'
  BY <1>2, <1>3, <1>4, <1>5 DEF IInv, PasswordSetUp, PasswordsOf, BeingCreated, CreationPCs
<1>10. RequestsInv'
  <2> SUFFICES ASSUME NEW s \in Requests
               PROVE  RequestInv(req[s])'
    BY DEF RequestsInv
  <2>1. CASE s = r
    <3>1. RequestInv(req[r]) /\ req[r].older \subseteq Password
      BY DEF IInv, RequestsInv, TypeOK, Request
    <3>2. req'[s] = q
      BY <2>1, <1>5
    <3>3. Locals(req[s])' /\ Checked(req[s])'
      BY <1>0, <1>2, <1>3, <3>1, <3>2 DEF RequestInv, Locals, Checked, UserPCs,
                                          CreationPCs, StampPCs
    <3>4. Older(req[s])'
      BY <1>0, <1>2, <1>3, <3>1, <3>2 DEF RequestInv, Older, Password
    <3> QED
      BY <3>3, <3>4 DEF RequestInv
  <2>2. CASE s # r
    <3>1. RequestInv(req[s]) /\ req[s] \in Request
      BY DEF IInv, RequestsInv, TypeOK
    <3>2. Locals(req[s])' /\ Older(req[s])' /\ Checked(req[s])'
      BY <1>0, <1>4, <1>5, <2>2, <3>1 DEF RequestInv, Locals, Older, Checked, Request, Password
    <3> QED
      BY <3>2 DEF RequestInv
  <2> QED
    BY <2>1, <2>2
<1> QED
  BY <1>6, <1>7, <1>8, <1>9, <1>10 DEF IInv

-----------------------------------------------------------------------------
(* Steps that change the tables.                                           *)

\* What an answer leaves as it was, whatever it does to sessions and tokens.
LEMMA AnswerKeeps ==
    ASSUME IInv, NEW r \in Requests, Answer(r), req[r].pc \notin CreationPCs,
           UNCHANGED <<profile, password, now, abandoned>>
    PROVE  /\ req' \in [Requests -> Request]
           /\ (NamesUnique /\ PasswordsPast /\ PasswordSetUp /\ RequestsInv)'
<1>1. \A s \in Requests : req'[s] = IF s = r THEN Idle ELSE req[s]
  BY DEF Answer, IInv, TypeOK
<1>2. req' \in [Requests -> Request]
  BY IdleType DEF Answer, IInv, TypeOK
<1>3. (NamesUnique /\ PasswordsPast)'
  BY DEF IInv, NamesUnique, PasswordsPast
<1>4. PasswordSetUp'
  BY <1>1 DEF IInv, PasswordSetUp, PasswordsOf, BeingCreated
<1>5. RequestsInv'
  <2> SUFFICES ASSUME NEW s \in Requests
               PROVE  RequestInv(req[s])'
    BY DEF RequestsInv
  <2>1. RequestInv(req'[s])
    BY <1>1, IdleInv DEF IInv, RequestsInv
  <2> QED
    BY <2>1 DEF RequestInv, Locals, Older, Checked
<1> QED
  BY <1>2, <1>3, <1>4, <1>5

\* A session is opened for a user there is.
LEMMA OpenSessionStep ==
    ASSUME IInv, NEW r \in Requests, OpenSession(r)
    PROVE  IInv'
<1> PICK s \in Sessions \ issued :
        IF profile[req[r].user] # Nil
        THEN /\ session' = [session EXCEPT ![s] = req[r].user]
             /\ issued' = issued \cup {s}
             /\ Answer(r)
        ELSE /\ Answer(r)
             /\ UNCHANGED <<session, issued>>
  BY DEF OpenSession
<1>1. /\ req[r].pc = "open" /\ Answer(r)
      /\ UNCHANGED <<profile, password, token, now, abandoned, replaced>>
  BY DEF OpenSession
<1>2. req[r].user \in Users
  BY <1>1 DEF IInv, RequestsInv, RequestInv, Locals, UserPCs
<1>3. /\ req' \in [Requests -> Request]
      /\ (NamesUnique /\ PasswordsPast /\ PasswordSetUp /\ RequestsInv)'
  BY <1>1, AnswerKeeps DEF CreationPCs
<1>4. TypeOK'
  BY <1>1, <1>2, <1>3 DEF IInv, TypeOK
<1>5. IssuedInv' /\ ReplacedInv'
  BY <1>1 DEF IInv, IssuedInv, ReplacedInv
<1>6. NoOrphans'
  BY <1>1 DEF IInv, TypeOK, NoOrphans
<1> QED
  BY <1>3, <1>4, <1>5, <1>6 DEF IInv

\* A token is created for a user there is.
LEMMA CreateTokenStep ==
    ASSUME IInv, NEW r \in Requests, CreateToken(r)
    PROVE  IInv'
<1> PICK t \in Tokens \ issued :
        IF profile[req[r].user] # Nil
        THEN /\ token' = [token EXCEPT ![t] = [user |-> req[r].user, revoked |-> FALSE]]
             /\ issued' = issued \cup {t}
        ELSE UNCHANGED <<token, issued>>
  BY DEF CreateToken
<1>1. /\ req[r].pc = "grant" /\ Answer(r)
      /\ UNCHANGED <<profile, password, session, now, abandoned, replaced>>
  BY DEF CreateToken
<1>2. req[r].user \in Users
  BY <1>1 DEF IInv, RequestsInv, RequestInv, Locals, UserPCs
<1>3. /\ req' \in [Requests -> Request]
      /\ (NamesUnique /\ PasswordsPast /\ PasswordSetUp /\ RequestsInv)'
  BY <1>1, AnswerKeeps DEF CreationPCs
<1>4. TypeOK'
  <2>1. [user |-> req[r].user, revoked |-> FALSE] \in Token
    BY <1>2 DEF Token
  <2>2. token' \in [Tokens -> Token \cup {Nil}] /\ issued' \subseteq issued \cup Tokens
    BY <2>1 DEF IInv, TypeOK
  <2> QED
    BY <1>1, <1>3, <2>2 DEF IInv, TypeOK
<1>5. IssuedInv' /\ ReplacedInv'
  BY <1>1 DEF IInv, TypeOK, IssuedInv, ReplacedInv
<1>6. NoOrphans'
  BY <1>1 DEF IInv, TypeOK, NoOrphans
<1> QED
  BY <1>3, <1>4, <1>5, <1>6 DEF IInv

\* A session that is gone refers to nobody.
LEMMA LogoutStep ==
    ASSUME IInv, NEW s \in Sessions, Logout(s)
    PROVE  IInv'
<1>1. session' = [session EXCEPT ![s] = Nil]
  BY DEF Logout
<1>2. UNCHANGED <<profile, password, token, issued, now, req, abandoned, replaced>>
  BY DEF Logout
<1>3. TypeOK' /\ NoOrphans'
  BY <1>1, <1>2 DEF IInv, TypeOK, NoOrphans
<1>4. (IssuedInv /\ NamesUnique /\ PasswordsPast /\ ReplacedInv)'
  BY <1>2 DEF IInv, IssuedInv, NamesUnique, PasswordsPast, ReplacedInv
<1>5. (PasswordSetUp /\ RequestsInv)'
  BY <1>2 DEF IInv, PasswordSetUp, PasswordsOf, BeingCreated, RequestsInv,
              RequestInv, Locals, Older, Checked
<1> QED
  BY <1>3, <1>4, <1>5 DEF IInv

\* A revoked token has the same user.
LEMMA RevokeTokenStep ==
    ASSUME IInv, NEW t \in Tokens, RevokeToken(t)
    PROVE  IInv'
<1>1. /\ token[t] \in Token
      /\ token' = [token EXCEPT ![t].revoked = TRUE]
  BY DEF RevokeToken, IInv, TypeOK
<1>2. UNCHANGED <<profile, password, session, issued, now, req, abandoned, replaced>>
  BY DEF RevokeToken
<1>3. token'[t] \in Token /\ token'[t].user = token[t].user
  BY <1>1 DEF IInv, TypeOK, Token
<1>4. \A u \in Tokens \ {t} : token'[u] = token[u]
  BY <1>1 DEF IInv, TypeOK
<1>5. TypeOK'
  BY <1>1, <1>2, <1>3 DEF IInv, TypeOK
<1>6. NoOrphans' /\ IssuedInv'
  BY <1>2, <1>3, <1>4 DEF RevokeToken, IInv, NoOrphans, IssuedInv
<1>7. (NamesUnique /\ PasswordsPast /\ ReplacedInv)'
  BY <1>2 DEF IInv, NamesUnique, PasswordsPast, ReplacedInv
<1>8. (PasswordSetUp /\ RequestsInv)'
  BY <1>2 DEF IInv, PasswordSetUp, PasswordsOf, BeingCreated, RequestsInv,
              RequestInv, Locals, Older, Checked
<1> QED
  BY <1>5, <1>6, <1>7, <1>8 DEF IInv

\* A new user has a name nobody has, and its creation is under way.
LEMMA InsertProfileStep ==
    ASSUME IInv, NEW r \in Requests, InsertProfile(r)
    PROVE  IInv'
<1>1. /\ req[r].pc = "insert" /\ req[r].name \in Names /\ req[r] \in Request
      /\ UNCHANGED <<password, session, token, now, abandoned, replaced>>
  BY DEF InsertProfile, IInv, TypeOK, RequestsInv, RequestInv, Locals
<1>2. ASSUME NEW u \in Users \ issued, NameFree(u, req[r].name),
             profile' = [profile EXCEPT ![u] = req[r].name],
             issued' = issued \cup {u},
             req' = [req EXCEPT ![r].user = u, ![r].pc = "stamp"]
      PROVE  IInv'
  <2> DEFINE q == [req[r] EXCEPT !.user = u, !.pc = "stamp"]
  <2>1. "stamp" \in RunningPCs /\ "stamp" \in CreationPCs
    BY DEF RunningPCs, CreationPCs
  <2>2. q \in Request /\ q.pc = "stamp" /\ q.user = u /\ q.checked = req[r].checked
    BY <1>1, <2>1 DEF Request
  <2>3. req' = [req EXCEPT ![r] = q]
    BY <1>2
  <2> HIDE DEF q
  <2>4. \A s \in Requests : req'[s] = IF s = r THEN q ELSE req[s]
    BY <2>3 DEF IInv, TypeOK
  <2>5. /\ profile[u] = Nil /\ profile'[u] # Nil /\ profile'[u] = req[r].name
        /\ \A v \in Users \ {u} : profile'[v] = profile[v]
    BY <1>1, <1>2, NilAssumption DEF IInv, TypeOK, IssuedInv
  <2>6. TypeOK'
    BY <1>1, <1>2, <2>2, <2>3 DEF IInv, TypeOK
  <2>7. IssuedInv'
    BY <1>1, <1>2, <2>5 DEF IInv, IssuedInv
  <2>8. NamesUnique'
    BY <1>2, <2>5 DEF IInv, NamesUnique, NameFree
  <2>9. NoOrphans'
    BY <1>1, <2>5 DEF IInv, TypeOK, NoOrphans, Password, Token
  <2>10. PasswordsPast'
    BY <1>1 DEF IInv, PasswordsPast
  <2>11. ReplacedInv'
    BY <1>1, <1>2, <2>5 DEF IInv, TypeOK, ReplacedInv, Password
  <2>12. PasswordSetUp'
    <3> SUFFICES ASSUME NEW v \in Users, (profile[v] # Nil /\ PasswordsOf(v) = {})'
                 PROVE  BeingCreated(v)' \/ v \in abandoned'
      BY DEF PasswordSetUp
    <3>1. CASE v = u
      BY <2>1, <2>2, <2>4, <3>1 DEF BeingCreated
    <3>2. CASE v # u
      BY <1>1, <2>1, <2>4, <2>5, <3>2 DEF IInv, PasswordSetUp, PasswordsOf, BeingCreated,
                                          CreationPCs
    <3> QED
      BY <3>1, <3>2
  <2>13. RequestsInv'
    <3> SUFFICES ASSUME NEW s \in Requests
                 PROVE  RequestInv(req[s])'
      BY DEF RequestsInv
    <3>1. CASE s = r
      BY <2>2, <2>4, <3>1 DEF RequestInv, Locals, Older, Checked, StampPCs
    <3>2. CASE s # r
      <4>1. RequestInv(req[s]) /\ req[s] \in Request /\ req'[s] = req[s]
        BY <2>4, <3>2 DEF IInv, RequestsInv, TypeOK
      <4>2. Locals(req[s])' /\ Older(req[s])'
        BY <1>1, <4>1 DEF RequestInv, Locals, Older
      <4>3. Checked(req[s])'
        BY <1>1, <2>5, <4>1, NilAssumption DEF RequestInv, Locals, Checked, Request
      <4> QED
        BY <4>2, <4>3 DEF RequestInv
    <3> QED
      BY <3>1, <3>2
  <2> QED
    BY <2>6, <2>7, <2>8, <2>9, <2>10, <2>11, <2>12, <2>13 DEF IInv
<1>3. ASSUME Answer(r), UNCHANGED <<profile, issued>>
      PROVE  IInv'
  BY <1>1, <1>3, AnswerStep DEF CreationPCs
<1> QED
  BY <1>2, <1>3 DEF InsertProfile

\* An insert of a password that is newer than those it replaces.
LEMMA InsertPasswordStep ==
    ASSUME IInv, NEW r \in Requests, req[r].pc \in StampPCs,
           NEW older \in SUBSET Password,
           \A row \in older : row.user = req[r].user /\ row.at < req[r].at,
           profile[req[r].user] # Nil,
           InsertPassword(r), Answer(r), replaced' = replaced \cup older,
           UNCHANGED <<profile, session, token, issued, now, abandoned>>
    PROVE  IInv'
<1> DEFINE u == req[r].user
           new == [user |-> u, at |-> req[r].at]
<1>1. u \in Users /\ req[r].at \in 1 .. now
  BY DEF IInv, RequestsInv, RequestInv, Locals, StampPCs, UserPCs, CreationPCs
<1>2. new \in Password /\ new.user = u /\ new.at = req[r].at
  BY <1>1, StampAssumption DEF IInv, TypeOK, Password
<1>3. password' = password \cup {new}
  BY DEF InsertPassword
<1> HIDE DEF u, new
<1>4. \A s \in Requests : req'[s] = IF s = r THEN Idle ELSE req[s]
  BY DEF Answer, IInv, TypeOK
<1>5. req' \in [Requests -> Request]
  BY IdleType DEF Answer, IInv, TypeOK
<1>6. TypeOK'
  BY <1>2, <1>3, <1>5 DEF IInv, TypeOK
<1>7. (IssuedInv /\ NamesUnique)'
  BY DEF IInv, IssuedInv, NamesUnique
<1>8. PasswordsPast' /\ NoOrphans'
  BY <1>1, <1>2, <1>3 DEF IInv, TypeOK, PasswordsPast, NoOrphans, u
<1>9. ReplacedInv'
  <2> SUFFICES ASSUME NEW row \in replaced'
               PROVE  \/ (profile[row.user] = Nil /\ row.user \in issued)'
                      \/ \E other \in password' : other.user = row.user /\ other.at > row.at
    BY DEF ReplacedInv
  <2>1. CASE row \in replaced
    BY <1>3, <2>1 DEF IInv, ReplacedInv
  <2>2. CASE row \in older
    <3>1. row.at \in Nat /\ new.at \in Nat /\ row.at < new.at /\ row.user = new.user
      BY <1>2, <2>2 DEF Password, u
    <3> QED
      BY <1>3, <3>1
  <2> QED
    BY <2>1, <2>2
<1>10. PasswordSetUp'
  <2> SUFFICES ASSUME NEW v \in Users, (profile[v] # Nil /\ PasswordsOf(v) = {})'
               PROVE  BeingCreated(v)' \/ v \in abandoned'
    BY DEF PasswordSetUp
  <2>1. v # u /\ PasswordsOf(v) = {}
    BY <1>2, <1>3 DEF PasswordsOf
  <2> QED
    BY <1>4, <2>1 DEF IInv, PasswordSetUp, BeingCreated, u
<1>11. RequestsInv'
  <2> SUFFICES ASSUME NEW s \in Requests
               PROVE  RequestInv(req[s])'
    BY DEF RequestsInv
  <2>1. RequestInv(req'[s])
    BY <1>4, IdleInv DEF IInv, RequestsInv
  <2> QED
    BY <2>1 DEF RequestInv, Locals, Older, Checked
<1> QED
  BY <1>6, <1>7, <1>8, <1>9, <1>10, <1>11 DEF IInv

\* The creation ends with a password.
LEMMA SetUpPasswordStep ==
    ASSUME IInv, NEW r \in Requests, SetUpPassword(r)
    PROVE  IInv'
<1>1. replaced' = replaced \cup {} /\ {} \in SUBSET Password
  BY DEF SetUpPassword
<1> QED
  BY <1>1, InsertPasswordStep DEF SetUpPassword, StampPCs

\* The passwords that a change replaces have its newer one over them.
LEMMA SetPasswordStep ==
    ASSUME IInv, NEW r \in Requests, SetPassword(r)
    PROVE  IInv'
<1>1. req[r].pc = "set" /\ req[r].older \in SUBSET Password
  BY DEF SetPassword, IInv, TypeOK, Request
<1>2. CASE profile[req[r].user] # Nil
  <2>1. \A row \in req[r].older : row.user = req[r].user /\ row.at < req[r].at
    BY <1>1 DEF IInv, RequestsInv, RequestInv, Older
  <2> QED
    BY <1>1, <1>2, <2>1, InsertPasswordStep DEF SetPassword, StampPCs
<1>3. CASE profile[req[r].user] = Nil
  BY <1>1, <1>3, AnswerStep DEF SetPassword, CreationPCs
<1> QED
  BY <1>2, <1>3

\* A user, and all that belongs to it, is removed; or is not there any more.
LEMMA RemoveUserStep ==
    ASSUME IInv, NEW u \in Users,
           \/ profile[u] # Nil /\ RemoveUser(u)
           \/ profile[u] = Nil /\ UNCHANGED <<profile, password, session, token>>,
           UNCHANGED <<issued, now, abandoned, replaced>>,
           req' \in [Requests -> Request],
           \A s \in Requests :
              \/ req'[s] = Idle /\ (req[s].pc \in CreationPCs => req[s].user = u)
              \/ req'[s] = Forget(req, u)[s]
    PROVE  IInv'
<1>1. /\ profile'[u] = Nil
      /\ \A v \in Users \ {u} : profile'[v] = profile[v]
      /\ profile' \in [Users -> Names \cup {Nil}]
  BY DEF IInv, TypeOK, RemoveUser
<1>2. /\ \A row \in password' : row \in password /\ row.user # u
      /\ \A row \in password : row.user # u => row \in password'
  BY DEF IInv, NoOrphans, RemoveUser, PasswordsOf
<1>3. /\ \A s \in Sessions : session'[s] = session[s] \/ session'[s] = Nil
      /\ \A s \in Sessions : session'[s] # u \/ session'[s] = Nil
      /\ session' \in [Sessions -> Users \cup {Nil}]
  BY NilAssumption DEF IInv, TypeOK, NoOrphans, RemoveUser
<1>4. /\ \A t \in Tokens : token'[t] = token[t] \/ token'[t] = Nil
      /\ \A t \in Tokens : token'[t] # Nil => token'[t].user # u
      /\ token' \in [Tokens -> Token \cup {Nil}]
  BY DEF IInv, TypeOK, NoOrphans, RemoveUser
<1>5. TypeOK'
  BY <1>1, <1>2, <1>3, <1>4 DEF IInv, TypeOK
<1>6. IssuedInv' /\ NamesUnique'
  BY <1>1, <1>4 DEF IInv, IssuedInv, NamesUnique
<1>7. NoOrphans'
  BY <1>1, <1>2, <1>3, <1>4 DEF IInv, TypeOK, NoOrphans, Password, Token
<1>8. PasswordsPast'
  BY <1>2 DEF IInv, PasswordsPast
<1>9. ReplacedInv'
  <2> SUFFICES ASSUME NEW row \in replaced
               PROVE  \/ (profile[row.user] = Nil /\ row.user \in issued)'
                      \/ \E other \in password' : other.user = row.user /\ other.at > row.at
    BY DEF ReplacedInv
  <2>1. row.user \in Users
    BY DEF IInv, TypeOK, Password
  <2>2. CASE row.user = u
    <3>1. u \in issued
      <4>1. CASE profile[u] # Nil
        BY <4>1 DEF IInv, IssuedInv
      <4>2. CASE profile[u] = Nil
        BY <2>2, <4>2 DEF IInv, ReplacedInv, NoOrphans
      <4> QED
        BY <4>1, <4>2
    <3> QED
      BY <1>1, <2>2, <3>1
  <2>3. CASE row.user # u
    BY <1>1, <1>2, <2>1, <2>3 DEF IInv, ReplacedInv
  <2> QED
    BY <2>2, <2>3
<1>10. ASSUME NEW s \in Requests, req'[s] = Forget(req, u)[s]
       PROVE  /\ req'[s].pc = req[s].pc /\ req'[s].user = req[s].user
              /\ req'[s].name = req[s].name /\ req'[s].at = req[s].at
              /\ req'[s].older = req[s].older
              /\ req'[s].checked = req[s].checked \/ req'[s].checked = Nil
              /\ req'[s].checked # u \/ req'[s].checked = Nil
  BY <1>10, NilAssumption DEF Forget, IInv, TypeOK, Request
<1>11. PasswordSetUp'
  <2> SUFFICES ASSUME NEW v \in Users, (profile[v] # Nil /\ PasswordsOf(v) = {})'
               PROVE  BeingCreated(v)' \/ v \in abandoned'
    BY DEF PasswordSetUp
  <2>1. v # u /\ profile[v] # Nil
    BY <1>1
  <2>2. PasswordsOf(v) = {}
    BY <1>2, <2>1 DEF PasswordsOf
  <2>3. CASE BeingCreated(v)
    BY <1>10, <2>1, <2>3 DEF BeingCreated
  <2> QED
    BY <2>1, <2>2, <2>3 DEF IInv, PasswordSetUp
<1>12. RequestsInv'
  <2> SUFFICES ASSUME NEW s \in Requests
               PROVE  RequestInv(req[s])'
    BY DEF RequestsInv
  <2>1. CASE req'[s] = Idle
    <3>1. RequestInv(req'[s])
      BY <2>1, IdleInv
    <3> QED
      BY <2>1 DEF RequestInv, Locals, Older, Checked, Idle, UserPCs, CreationPCs, StampPCs
  <2>2. CASE req'[s] = Forget(req, u)[s]
    <3>1. RequestInv(req[s]) /\ req[s] \in Request
      BY DEF IInv, RequestsInv, TypeOK
    <3>2. Locals(req[s])' /\ Older(req[s])'
      BY <1>10, <2>2, <3>1 DEF RequestInv, Locals, Older
    <3>3. Checked(req[s])'
      BY <1>1, <1>10, <2>2, <3>1 DEF RequestInv, Checked, Request
    <3> QED
      BY <3>2, <3>3 DEF RequestInv
  <2> QED
    BY <2>1, <2>2
<1> QED
  BY <1>5, <1>6, <1>7, <1>8, <1>9, <1>11, <1>12 DEF IInv

\* Requests that forget whom they checked are well typed.
LEMMA ForgetType ==
    ASSUME IInv, NEW u \in Users
    PROVE  Forget(req, u) \in [Requests -> Request]
BY DEF Forget, IInv, TypeOK, Request

\* Passwords, sessions and tokens go with their user, whose id is not used again.
LEMMA DeleteUserStep ==
    ASSUME IInv, NEW u \in Users, DeleteUser(u)
    PROVE  IInv'
BY ForgetType, RemoveUserStep DEF DeleteUser

\* So they do when a creation is undone.
LEMMA RollbackStep ==
    ASSUME IInv, NEW r \in Requests, Rollback(r)
    PROVE  IInv'
<1>1. req[r].user \in Users
  BY DEF Rollback, IInv, RequestsInv, RequestInv, Locals, UserPCs, CreationPCs
<1>2. Forget(req, req[r].user) \in [Requests -> Request]
  BY <1>1, ForgetType
<1>3. /\ req' \in [Requests -> Request]
      /\ req'[r] = Idle
      /\ \A s \in Requests \ {r} : req'[s] = Forget(req, req[r].user)[s]
  BY <1>2, IdleType DEF Rollback
<1> QED
  BY <1>1, <1>3, RemoveUserStep DEF Rollback

\* A login in progress makes no claim about a user renamed meanwhile.
LEMMA RenameUserStep ==
    ASSUME IInv, NEW u \in Users, NEW name \in Names, RenameUser(u, name)
    PROVE  IInv'
<1>1. /\ profile[u] # Nil /\ profile'[u] = name /\ name # Nil
      /\ \A v \in Users \ {u} : profile'[v] = profile[v]
      /\ profile' \in [Users -> Names \cup {Nil}]
  BY NilAssumption DEF RenameUser, IInv, TypeOK
<1>2. UNCHANGED <<password, session, token, issued, now, abandoned, replaced>>
  BY DEF RenameUser
<1>3. req' = Forget(req, u) /\ req' \in [Requests -> Request]
  BY ForgetType DEF RenameUser
<1>4. TypeOK'
  BY <1>1, <1>2, <1>3 DEF IInv, TypeOK
<1>5. IssuedInv' /\ ReplacedInv' /\ PasswordsPast'
  BY <1>1, <1>2 DEF IInv, TypeOK, Password, IssuedInv, ReplacedInv, PasswordsPast
<1>6. NamesUnique'
  BY <1>1 DEF RenameUser, NameFree, IInv, NamesUnique
<1>7. NoOrphans'
  BY <1>1, <1>2 DEF IInv, TypeOK, NoOrphans, Password, Token
<1>8. \A s \in Requests :
          /\ req'[s].pc = req[s].pc /\ req'[s].user = req[s].user
          /\ req'[s].name = req[s].name /\ req'[s].at = req[s].at
          /\ req'[s].older = req[s].older
          /\ req'[s].checked = req[s].checked \/ req'[s].checked = Nil
          /\ req'[s].checked # u \/ req'[s].checked = Nil
  BY <1>3, NilAssumption DEF Forget, IInv, TypeOK, Request
<1>9. PasswordSetUp'
  BY <1>1, <1>2, <1>8 DEF IInv, PasswordSetUp, PasswordsOf, BeingCreated
<1>10. RequestsInv'
  <2> SUFFICES ASSUME NEW s \in Requests
               PROVE  RequestInv(req[s])'
    BY DEF RequestsInv
  <2>1. RequestInv(req[s]) /\ req[s] \in Request
    BY DEF IInv, RequestsInv, TypeOK
  <2>2. Locals(req[s])' /\ Older(req[s])'
    BY <1>2, <1>8, <2>1 DEF RequestInv, Locals, Older
  <2>3. Checked(req[s])'
    BY <1>1, <1>8, <2>1 DEF RequestInv, Checked, Request
  <2> QED
    BY <2>2, <2>3 DEF RequestInv
<1> QED
  BY <1>4, <1>5, <1>6, <1>7, <1>9, <1>10 DEF IInv

\* A creation that is cut off leaves its user as abandoned.
LEMMA AbortRequestStep ==
    ASSUME IInv, NEW r \in Requests, AbortRequest(r)
    PROVE  IInv'
<1>1. /\ Answer(r)
      /\ abandoned' = IF req[r].pc \in CreationPCs
                      THEN abandoned \cup {req[r].user} ELSE abandoned
      /\ UNCHANGED <<profile, password, session, token, issued, now, replaced>>
  BY DEF AbortRequest
<1>2. \A s \in Requests : req'[s] = IF s = r THEN Idle ELSE req[s]
  BY <1>1 DEF Answer, IInv, TypeOK
<1>3. TypeOK'
  <2>1. req' \in [Requests -> Request]
    BY <1>1, IdleType DEF Answer, IInv, TypeOK
  <2>2. abandoned' \subseteq Users
    BY <1>1 DEF IInv, TypeOK, RequestsInv, RequestInv, Locals, UserPCs
  <2> QED
    BY <1>1, <2>1, <2>2 DEF IInv, TypeOK
<1>4. (IssuedInv /\ NamesUnique /\ PasswordsPast /\ ReplacedInv /\ NoOrphans)'
  BY <1>1 DEF IInv, IssuedInv, NamesUnique, PasswordsPast, ReplacedInv, NoOrphans
<1>5. PasswordSetUp'
  BY <1>1, <1>2 DEF IInv, PasswordSetUp, PasswordsOf, BeingCreated
<1>6. RequestsInv'
  <2> SUFFICES ASSUME NEW s \in Requests
               PROVE  RequestInv(req[s])'
    BY DEF RequestsInv
  <2>1. RequestInv(req'[s])
    BY <1>2, IdleInv DEF IInv, RequestsInv
  <2> QED
    BY <1>1, <2>1 DEF RequestInv, Locals, Older, Checked
<1> QED
  BY <1>3, <1>4, <1>5, <1>6 DEF IInv

-----------------------------------------------------------------------------
\* Every step keeps the inductive invariant.
LEMMA NextIInv == IInv /\ [Next]_vars => IInv'
<1> SUFFICES ASSUME IInv, [Next]_vars
             PROVE  IInv'
  OBVIOUS
<1>1. ASSUME NEW r \in Requests, NEW name \in Names,
             StartCreate(r, name) \/ CheckPassword(r, name)
      PROVE  IInv'
  BY <1>1, StartCreateStep, CheckPasswordStep
<1>2. ASSUME NEW r \in Requests, NEW u \in Users,
             StartSetPassword(r, u) \/ StartGrant(r, u)
      PROVE  IInv'
  BY <1>2, StartSetPasswordStep, StartGrantStep
<1>3. ASSUME NEW r \in Requests, NEW t \in Tokens, CheckToken(r, t)
      PROVE  IInv'
  BY <1>3, CheckTokenStep
<1>4. ASSUME NEW r \in Requests, CreateStep(r)
      PROVE  IInv'
  BY <1>4, InsertProfileStep, SetUpPasswordStep, FailSetUpStep, RollbackStep DEF CreateStep
<1>5. ASSUME NEW r \in Requests, StampPassword(r) \/ SetPassword(r)
      PROVE  IInv'
  BY <1>5, StampPasswordStep, SetPasswordStep
<1>6. ASSUME NEW r \in Requests, FindProfile(r) \/ OpenSession(r) \/ TouchToken(r)
      PROVE  IInv'
  BY <1>6, FindProfileStep, OpenSessionStep, TouchTokenStep
<1>7. ASSUME NEW r \in Requests, NEW s \in Sessions, StartCreateToken(r, s)
      PROVE  IInv'
  BY <1>7, StartCreateTokenStep
<1>8. ASSUME NEW r \in Requests, FindOwner(r) \/ CreateToken(r) \/ AbortRequest(r)
      PROVE  IInv'
  BY <1>8, FindOwnerStep, CreateTokenStep, AbortRequestStep
<1>9. ASSUME NEW u \in Users, NEW name \in Names, RenameUser(u, name)
      PROVE  IInv'
  BY <1>9, RenameUserStep
<1>10. ASSUME NEW u \in Users, DeleteUser(u)
       PROVE  IInv'
  BY <1>10, DeleteUserStep
<1>11. ASSUME NEW s \in Sessions, Logout(s)
       PROVE  IInv'
  BY <1>11, LogoutStep
<1>12. ASSUME NEW t \in Tokens, RevokeToken(t)
       PROVE  IInv'
  BY <1>12, RevokeTokenStep
<1>13. CASE UNCHANGED vars
  <2>1. (TypeOK /\ IssuedInv /\ NamesUnique /\ PasswordsPast /\ ReplacedInv /\ NoOrphans)'
    BY <1>13 DEF vars, IInv, TypeOK, IssuedInv, NamesUnique, PasswordsPast, ReplacedInv,
                 NoOrphans
  <2>2. (PasswordSetUp /\ RequestsInv)'
    BY <1>13 DEF vars, IInv, PasswordSetUp, PasswordsOf, BeingCreated, RequestsInv,
                 RequestInv, Locals, Older, Checked
  <2> QED
    BY <2>1, <2>2 DEF IInv
<1> QED
  BY <1>1, <1>2, <1>3, <1>4, <1>5, <1>6, <1>7, <1>8, <1>9, <1>10, <1>11, <1>12, <1>13
     DEF Next

\* No query breaks the inductive invariant: what outlives its user, and what a
\* request in flight knows of the rows it has read.
THEOREM Invariance == Spec => []IInv
BY InitIInv, NextIInv, PTL DEF Spec

\* Every variable keeps its type: no request comes to a statement without the
\* local that the statement needs.
THEOREM TypeCorrect == Spec => []TypeOK
<1>1. IInv => TypeOK
  BY DEF IInv
<1> QED
  BY <1>1, Invariance, PTL

\* No password, session or token outlives its user.
THEOREM NoOrphansHolds == Spec => []NoOrphans
<1>1. IInv => NoOrphans
  BY DEF IInv
<1> QED
  BY <1>1, Invariance, PTL

\* A user lacks a password only while it is being created, or after its
\* creation was cut off.
THEOREM PasswordSetUpHolds == Spec => []PasswordSetUp
<1>1. IInv => PasswordSetUp
  BY DEF IInv
<1> QED
  BY <1>1, Invariance, PTL

\* A login opens a session for the user whose password it has checked.
THEOREM EnteredAsCheckedHolds == Spec => []EnteredAsChecked
<1>1. IInv => EnteredAsChecked
  BY DEF IInv, RequestsInv, RequestInv, Checked, EnteredAsChecked
<1> QED
  BY <1>1, Invariance, PTL

\* A password that was replaced does not let its user in again.
THEOREM ReplacedForGoodHolds == Spec => []ReplacedForGood
<1>1. IInv => ReplacedForGood
  <2> SUFFICES ASSUME IInv, NEW u \in Users, NEW row \in Current(u) \cap replaced
               PROVE  FALSE
    BY DEF ReplacedForGood
  <2>1. row \in password /\ row.user = u /\ profile[u] # Nil
    BY DEF Current, PasswordsOf, IInv, NoOrphans
  <2>2. PICK other \in password : other.user = u /\ other.at > row.at
    BY <2>1 DEF IInv, ReplacedInv
  <2>3. other.at <= row.at
    BY <2>1, <2>2 DEF Current, PasswordsOf
  <2>4. other.at \in Nat /\ row.at \in Nat
    BY <2>1 DEF IInv, TypeOK, Password
  <2> QED
    BY <2>2, <2>3, <2>4
<1> QED
  BY <1>1, Invariance, PTL

\* No step brings a revoked token back.
THEOREM RevokedForGoodHolds == Spec => RevokedForGood
<1> DEFINE Kept == \A t \in Tokens :
                      token[t] # Nil /\ token[t].revoked /\ token'[t] # Nil
                         => token'[t].revoked
<1>1. ASSUME IInv, [Next]_vars
      PROVE  [Kept]_vars
  <2>1. ASSUME NEW r \in Requests, CreateToken(r)
        PROVE  Kept
    BY <1>1, <2>1 DEF CreateToken, IInv, TypeOK, IssuedInv
  <2>2. ASSUME NEW t \in Tokens, RevokeToken(t)
        PROVE  Kept
    BY <1>1, <2>2 DEF RevokeToken, IInv, TypeOK, Token
  <2>3. ASSUME NEW u \in Users, RemoveUser(u)
        PROVE  Kept
    BY <2>3 DEF RemoveUser
  <2>4. ASSUME UNCHANGED token
        PROVE  Kept
    BY <2>4
  <2>5. ASSUME NEW r \in Requests, Rollback(r)
        PROVE  Kept
    <3>1. req[r].user \in Users
      BY <1>1, <2>5 DEF Rollback, IInv, RequestsInv, RequestInv, Locals, UserPCs, CreationPCs
    <3> QED
      BY <2>3, <2>4, <2>5, <3>1 DEF Rollback
  <2>6. ASSUME NEW u \in Users, DeleteUser(u)
        PROVE  Kept
    BY <2>3, <2>6 DEF DeleteUser
  <2>7. CASE UNCHANGED vars
    BY <2>4, <2>7 DEF vars
  <2> HIDE DEF Kept
  <2> QED
    BY <1>1, <2>1, <2>2, <2>4, <2>5, <2>6, <2>7
       DEF Next, CreateStep, StartCreate, CheckPassword, StartSetPassword, CheckToken,
           InsertProfile, SetUpPassword, FailSetUp, StampPassword, SetPassword,
           FindProfile, OpenSession, TouchToken, StartCreateToken, StartGrant,
           FindOwner, AbortRequest, RenameUser, Logout
<1> QED
  BY <1>1, Invariance, PTL DEF Spec, RevokedForGood
=============================================================================
