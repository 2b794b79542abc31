---------------------------- MODULE UserAccounts ----------------------------
(***************************************************************************)
(* Users, their passwords, sessions and API tokens: the tables profile,    *)
(* password_authentication, session and api_token, the service that keeps  *)
(* them, the web handlers and CLI commands that call it, and the           *)
(* middleware that admits an agent by its token.                           *)
(*                                                                         *)
(* As everywhere on this server no transaction spans two statements: each  *)
(* statement is a step, and a request whose context has ended runs no      *)
(* further one.  Left out: scopes, names and lifetimes of tokens, the      *)
(* hashing of passwords, and requests refused before their first           *)
(* statement.                                                              *)
(***************************************************************************)
EXTENDS Naturals

CONSTANTS
    Users,      \* ids a new profile may get; bounds the creations
    Names,      \* values of the unique column profile.username
    Sessions,   \* ids a new session may get
    Tokens,     \* ids a new token may get
    Requests,   \* goroutines; a slot is used again after its answer
    MaxStamp,   \* bound on the readings of the clock for created_at
    Nil         \* an absent row, or a local not yet set

ASSUME NilAssumption == Nil \notin Users /\ Nil \notin Names /\ Nil \notin Tokens
ASSUME StampAssumption == MaxStamp \in Nat

VARIABLES
    profile,    \* profile[u]: the user name of row u, or Nil
    password,   \* the rows of password_authentication
    session,    \* session[s]: column profile_id of row s, or Nil
    token,      \* token[t]: row t, or Nil
    issued,     \* the ids already given to a row, in use or deleted
    now,        \* the last reading of the clock
    req,        \* req[r]: where request r stands and what it has read
    abandoned,  \* users whose creation ended between its two inserts with
                \* nothing undone
    replaced    \* password rows older than a change of password that was
                \* asked for after they were there and answered since

vars == <<profile, password, session, token, issued, now, req, abandoned, replaced>>

Password == [user : Users, at : 1 .. MaxStamp]
Token    == [user : Users, revoked : BOOLEAN]

CreationPCs == {"stamp", "setup", "rollback"}
RunningPCs  == CreationPCs \cup {"insert", "stampSet", "set", "find", "open",
                                "owner", "grant", "touch"}

\* checked: the user whose password a login has checked, as long as that user
\* is neither renamed nor deleted.
Request == [pc      : RunningPCs \cup {"idle"},
            user    : Users \cup {Nil},
            name    : Names \cup {Nil},
            token   : Tokens \cup {Nil},
            row     : Token \cup {Nil},
            at      : 0 .. MaxStamp,
            older   : SUBSET Password,
            checked : Users \cup {Nil}]

Idle == [pc |-> "idle", user |-> Nil, name |-> Nil, token |-> Nil, row |-> Nil,
         at |-> 0, older |-> {}, checked |-> Nil]

TypeOK ==
    /\ profile \in [Users -> Names \cup {Nil}]
    /\ password \subseteq Password
    /\ session \in [Sessions -> Users \cup {Nil}]
    /\ token \in [Tokens -> Token \cup {Nil}]
    /\ issued \subseteq Users \cup Sessions \cup Tokens
    /\ now \in 0 .. MaxStamp
    /\ req \in [Requests -> Request]
    /\ abandoned \subseteq Users
    /\ replaced \subseteq Password

Init ==
    /\ profile = [u \in Users |-> Nil]
    /\ password = {}
    /\ session = [s \in Sessions |-> Nil]
    /\ token = [t \in Tokens |-> Nil]
    /\ issued = {}
    /\ now = 0
    /\ req = [r \in Requests |-> Idle]
    /\ abandoned = {}
    /\ replaced = {}

-----------------------------------------------------------------------------
NameFree(u, name) == \A v \in Users \ {u} : profile[v] # name

PasswordsOf(u) == {row \in password : row.user = u}

\* Fault: order by created_at, without desc.
CurrentOldest(u) ==
    {row \in PasswordsOf(u) : \A other \in PasswordsOf(u) : row.at <= other.at}

\* The row GetPasswordAuthenticationByUsername finds: order by created_at
\* desc limit 1.
Current(u) ==
    {row \in PasswordsOf(u) : \A other \in PasswordsOf(u) : other.at <= row.at}

\* Fault: the sessions of a deleted user stay.
RemoveUserNotSessions(u) ==
    /\ profile' = [profile EXCEPT ![u] = Nil]
    /\ password' = password \ PasswordsOf(u)
    /\ token' = [t \in Tokens |->
                    IF token[t] # Nil /\ token[t].user = u THEN Nil ELSE token[t]]
    /\ UNCHANGED session

\* delete from profile: passwords, sessions and tokens reference it on
\* delete cascade.
RemoveUser(u) ==
    /\ profile' = [profile EXCEPT ![u] = Nil]
    /\ password' = password \ PasswordsOf(u)
    /\ session' = [s \in Sessions |-> IF session[s] = u THEN Nil ELSE session[s]]
    /\ token' = [t \in Tokens |->
                    IF token[t] # Nil /\ token[t].user = u THEN Nil ELSE token[t]]

\* Another statement is next.
Go(r, pc) == req' = [req EXCEPT ![r].pc = pc]

\* The answer frees the slot.
Answer(r) == req' = [req EXCEPT ![r] = Idle]

\* User u is no longer who was checked.
Forget(requests, u) ==
    [r \in Requests |-> IF requests[r].checked = u
                        THEN [requests[r] EXCEPT !.checked = Nil] ELSE requests[r]]

-----------------------------------------------------------------------------
(* CreateUser, from the administration page, the CLI's users create and    *)
(* its bootstrap.                                                          *)

StartCreate(r, name) ==
    /\ req[r].pc = "idle"
    /\ req' = [req EXCEPT ![r] = [Idle EXCEPT !.pc = "insert", !.name = name]]
    /\ UNCHANGED <<profile, password, session, token, issued, now, abandoned, replaced>>

\* CreateProfile; a name that is taken is an error.
InsertProfile(r) ==
    /\ req[r].pc = "insert"
    /\ \E u \in Users \ issued :
          IF NameFree(u, req[r].name)
          THEN /\ profile' = [profile EXCEPT ![u] = req[r].name]
               /\ issued' = issued \cup {u}
               /\ req' = [req EXCEPT ![r].user = u, ![r].pc = "stamp"]
          ELSE /\ Answer(r)
               /\ UNCHANGED <<profile, issued>>
    /\ UNCHANGED <<password, session, token, now, abandoned, replaced>>

\* CreatePasswordAuthentication reads the clock ...
ReadClock(r) ==
    /\ now < MaxStamp
    /\ now' = now + 1
    /\ req' = [req EXCEPT ![r].at = now + 1,
                          ![r].pc = IF @ = "stamp" THEN "setup" ELSE "set"]

StampPassword(r) ==
    /\ req[r].pc \in {"stamp", "stampSet"}
    /\ ReadClock(r)
    /\ UNCHANGED <<profile, password, session, token, issued, abandoned, replaced>>

\* ... and inserts; password_authentication references an existing profile.
InsertPassword(r) ==
    password' = password \cup {[user |-> req[r].user, at |-> req[r].at]}

SetUpPassword(r) ==
    /\ req[r].pc = "setup"
    /\ profile[req[r].user] # Nil
    /\ InsertPassword(r)
    /\ Answer(r)
    /\ UNCHANGED <<profile, session, token, issued, now, abandoned, replaced>>

\* Fault: the error is returned and the profile left.
FailSetUpReturn(r) ==
    /\ req[r].pc = "setup"
    /\ Answer(r)
    /\ UNCHANGED <<profile, password, session, token, issued, now, abandoned, replaced>>

\* The insert fails: the database says so, or the profile has been deleted.
FailSetUp(r) ==
    /\ req[r].pc = "setup"
    /\ Go(r, "rollback")
    /\ UNCHANGED <<profile, password, session, token, issued, now, abandoned, replaced>>

\* "Avoid leaving orphaned users": delete the profile, if it is still there.
Rollback(r) ==
    /\ req[r].pc = "rollback"
    /\ IF profile[req[r].user] # Nil
       THEN RemoveUser(req[r].user)
       ELSE UNCHANGED <<profile, password, session, token>>
    /\ req' = [Forget(req, req[r].user) EXCEPT ![r] = Idle]
    /\ UNCHANGED <<issued, now, abandoned, replaced>>

-----------------------------------------------------------------------------
(* SetPassword, UpdateUser, DeleteUser.                                    *)

StartSetPassword(r, u) ==
    /\ req[r].pc = "idle"
    /\ req' = [req EXCEPT ![r] = [Idle EXCEPT !.pc = "stampSet", !.user = u,
                                              !.older = PasswordsOf(u)]]
    /\ UNCHANGED <<profile, password, session, token, issued, now, abandoned, replaced>>

\* A change of password adds a row; no row is ever updated.
SetPassword(r) ==
    /\ req[r].pc = "set"
    /\ \/ /\ profile[req[r].user] # Nil
          /\ InsertPassword(r)
          /\ replaced' = replaced \cup req[r].older
          /\ Answer(r)
       \/ /\ profile[req[r].user] = Nil
          /\ Answer(r)
          /\ UNCHANGED <<password, replaced>>
    /\ UNCHANGED <<profile, session, token, issued, now, abandoned>>

\* UpdateUser reads the row first, but writes nothing of it back.
RenameUser(u, name) ==
    /\ profile[u] # Nil
    /\ NameFree(u, name)
    /\ profile' = [profile EXCEPT ![u] = name]
    /\ req' = Forget(req, u)
    /\ UNCHANGED <<password, session, token, issued, now, abandoned, replaced>>

\* The administration page, for another user than the session's own, or the
\* CLI's users delete.
DeleteUser(u) ==
    /\ profile[u] # Nil
    /\ RemoveUser(u)
    /\ req' = Forget(req, u)
    /\ UNCHANGED <<issued, now, abandoned, replaced>>

-----------------------------------------------------------------------------
(* Login and Logout.                                                       *)

\* ValidatePassword: there is a current password for the name, and it is the
\* one given.
CheckPassword(r, name) ==
    /\ req[r].pc = "idle"
    /\ \E u \in Users :
          /\ profile[u] = name
          /\ Current(u) # {}
          /\ req' = [req EXCEPT ![r] = [Idle EXCEPT !.pc = "find", !.name = name,
                                                    !.checked = u]]
    /\ UNCHANGED <<profile, password, session, token, issued, now, abandoned, replaced>>

\* Fault: the profile found is the first one.
FindFirstProfile(r) ==
    /\ req[r].pc = "find"
    /\ \E u \in Users :
          /\ profile[u] # Nil
          /\ req' = [req EXCEPT ![r].user = u, ![r].pc = "open"]
    /\ UNCHANGED <<profile, password, session, token, issued, now, abandoned, replaced>>

\* GetProfileByUsername, a query of its own.
FindProfile(r) ==
    /\ req[r].pc = "find"
    /\ \/ \E u \in Users :
             /\ profile[u] = req[r].name
             /\ req' = [req EXCEPT ![r].user = u, ![r].pc = "open"]
       \/ /\ \A u \in Users : profile[u] # req[r].name
          /\ Answer(r)
    /\ UNCHANGED <<profile, password, session, token, issued, now, abandoned, replaced>>

\* Fault: session.profile_id is not a foreign key.
OpenSessionUnchecked(r) ==
    /\ req[r].pc = "open"
    /\ \E s \in Sessions \ issued :
          /\ session' = [session EXCEPT ![s] = req[r].user]
          /\ issued' = issued \cup {s}
          /\ Answer(r)
    /\ UNCHANGED <<profile, password, token, now, abandoned, replaced>>

\* CreateSession; session references an existing profile.
OpenSession(r) ==
    /\ req[r].pc = "open"
    /\ \E s \in Sessions \ issued :
          IF profile[req[r].user] # Nil
          THEN /\ session' = [session EXCEPT ![s] = req[r].user]
               /\ issued' = issued \cup {s}
               /\ Answer(r)
          ELSE /\ Answer(r)
               /\ UNCHANGED <<session, issued>>
    /\ UNCHANGED <<profile, password, token, now, abandoned, replaced>>

Logout(s) ==
    /\ session[s] # Nil
    /\ session' = [session EXCEPT ![s] = Nil]
    /\ UNCHANGED <<profile, password, token, issued, now, req, abandoned, replaced>>

-----------------------------------------------------------------------------
(* API tokens.                                                             *)

\* The administration page: AuthMiddleware has found the session ...
StartCreateToken(r, s) ==
    /\ req[r].pc = "idle"
    /\ session[s] # Nil
    /\ req' = [req EXCEPT ![r] = [Idle EXCEPT !.pc = "owner", !.user = session[s]]]
    /\ UNCHANGED <<profile, password, session, token, issued, now, abandoned, replaced>>

\* ... and GetProfileByID finds its user.
FindOwner(r) ==
    /\ req[r].pc = "owner"
    /\ IF profile[req[r].user] # Nil THEN Go(r, "grant") ELSE Answer(r)
    /\ UNCHANGED <<profile, password, session, token, issued, now, abandoned, replaced>>

\* The register command of a host is for the session's user, the CLI's tokens
\* create for one that resolveUser finds.
StartGrant(r, u) ==
    /\ req[r].pc = "idle"
    /\ profile[u] # Nil
    /\ req' = [req EXCEPT ![r] = [Idle EXCEPT !.pc = "grant", !.user = u]]
    /\ UNCHANGED <<profile, password, session, token, issued, now, abandoned, replaced>>

\* CreateAPIToken; api_token references an existing profile.
CreateToken(r) ==
    /\ req[r].pc = "grant"
    /\ \E t \in Tokens \ issued :
          IF profile[req[r].user] # Nil
          THEN /\ token' = [token EXCEPT ![t] = [user |-> req[r].user, revoked |-> FALSE]]
               /\ issued' = issued \cup {t}
          ELSE UNCHANGED <<token, issued>>
    /\ Answer(r)
    /\ UNCHANGED <<profile, password, session, now, abandoned, replaced>>

\* RevokeAPIToken: where revoked_at is null.
RevokeToken(t) ==
    /\ token[t] # Nil
    /\ ~token[t].revoked
    /\ token' = [token EXCEPT ![t].revoked = TRUE]
    /\ UNCHANGED <<profile, password, session, issued, now, req, abandoned, replaced>>

\* The middleware looks the token up; a revoked one is answered 401.
CheckToken(r, t) ==
    /\ req[r].pc = "idle"
    /\ token[t] # Nil
    /\ ~token[t].revoked
    /\ req' = [req EXCEPT ![r] = [Idle EXCEPT !.pc = "touch", !.token = t, !.row = token[t]]]
    /\ UNCHANGED <<profile, password, session, token, issued, now, abandoned, replaced>>

\* Fault: the row that was read is written back with its last_used_at.
TouchTokenRow(r) ==
    /\ req[r].pc = "touch"
    /\ \/ /\ token[req[r].token] # Nil
          /\ token' = [token EXCEPT ![req[r].token] = req[r].row]
          /\ Answer(r)
       \/ /\ token[req[r].token] = Nil
          /\ Answer(r)
          /\ UNCHANGED token
    /\ UNCHANGED <<profile, password, session, issued, now, abandoned, replaced>>

\* UpdateLastUsedAt writes that column only; the request is then served.
TouchToken(r) ==
    /\ req[r].pc = "touch"
    /\ Answer(r)
    /\ UNCHANGED <<profile, password, session, token, issued, now, abandoned, replaced>>

-----------------------------------------------------------------------------
\* The caller disconnects, the command is interrupted or the server stops:
\* the statement that is under way fails and so does every later one, the
\* rollback of CreateUser too, which has the same context.
AbortRequest(r) ==
    /\ req[r].pc \in RunningPCs
    /\ Answer(r)
    /\ abandoned' = IF req[r].pc \in CreationPCs
                    THEN abandoned \cup {req[r].user} ELSE abandoned
    /\ UNCHANGED <<profile, password, session, token, issued, now, replaced>>

CreateStep(r) ==
    \/ InsertProfile(r)
    \/ SetUpPassword(r)
    \/ FailSetUp(r)
    \/ Rollback(r)

Next ==
    \/ \E r \in Requests, name \in Names : StartCreate(r, name) \/ CheckPassword(r, name)
    \/ \E r \in Requests, u \in Users : StartSetPassword(r, u)
    \/ \E r \in Requests, t \in Tokens : CheckToken(r, t)
    \/ \E r \in Requests : CreateStep(r)
    \/ \E r \in Requests : StampPassword(r) \/ SetPassword(r)
    \/ \E r \in Requests : FindProfile(r) \/ OpenSession(r) \/ TouchToken(r)
    \/ \E r \in Requests, s \in Sessions : StartCreateToken(r, s)
    \/ \E r \in Requests, u \in Users : StartGrant(r, u)
    \/ \E r \in Requests : FindOwner(r) \/ CreateToken(r)
    \/ \E r \in Requests : AbortRequest(r)
    \/ \E u \in Users, name \in Names : RenameUser(u, name)
    \/ \E u \in Users : DeleteUser(u)
    \/ \E s \in Sessions : Logout(s)
    \/ \E t \in Tokens : RevokeToken(t)

Spec == Init /\ [][Next]_vars

-----------------------------------------------------------------------------
(* Properties.                                                             *)

\* No password, session or token outlives its user, although a login, a
\* change of password or the creation of a token goes on while the user is
\* being deleted.
NoOrphans ==
    /\ \A row \in password : profile[row.user] # Nil
    /\ \A s \in Sessions : session[s] # Nil => profile[session[s]] # Nil
    /\ \A t \in Tokens : token[t] # Nil => profile[token[t].user] # Nil

BeingCreated(u) ==
    \E r \in Requests : req[r].pc \in CreationPCs /\ req[r].user = u

\* A user without a password, who can never log in and whose name is taken,
\* is one whose creation is under way or was cut off with nothing undone.
PasswordSetUp ==
    \A u \in Users :
        profile[u] # Nil /\ PasswordsOf(u) = {} => BeingCreated(u) \/ u \in abandoned

\* The comment in CreateUser: "Avoid leaving orphaned users when password
\* setup fails."
NoOrphanedUsers ==
    \A u \in Users : profile[u] # Nil /\ PasswordsOf(u) = {} => BeingCreated(u)

\* A login opens a session for the user whose password it has checked, although
\* it asks for the name twice, unless that user is renamed or deleted meanwhile.
EnteredAsChecked ==
    \A r \in Requests :
        req[r].pc = "open" /\ req[r].checked # Nil => req[r].user = req[r].checked

\* Once a change of password has been answered, no password that was there
\* before it was asked for lets its user in again, however the rows of
\* several changes were inserted.
ReplacedForGood == \A u \in Users : Current(u) \cap replaced = {}

\* No step brings a revoked token back, the use of a token by a request that
\* read it before it was revoked included.
RevokedForGood ==
    [][\A t \in Tokens :
          token[t] # Nil /\ token[t].revoked /\ token'[t] # Nil
              => token'[t].revoked]_vars
=============================================================================
