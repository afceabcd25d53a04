----------------------------- MODULE Accounts -----------------------------
(***************************************************************************)
(* Accounts and sessions: login, re-authentication, logout and the user    *)
(* management handlers of internal/web (handlers_api.go, handlers_users.go,*)
(* middleware.go), the session manager of internal/auth/session.go, and    *)
(* the users and sessions tables.                                          *)
(*                                                                         *)
(* net/http serves every request in a goroutine of its own and a handler   *)
(* makes several database calls, each its own statement, so handlers       *)
(* interleave between them.  Tables are functions from ids to columns.     *)
(***************************************************************************)
EXTENDS Naturals, FiniteSets

CONSTANTS
    Requests,           \* the requests served at the same time
    Names,              \* user names
    None,               \* no such row
    MaxUsers,           \* bound: accounts ever created
    MaxSessions,        \* bound: sessions ever created
    MaxTime,            \* bound: the clock
    IdleTimeout,        \* SessionIdleTimeout
    ElevationDuration   \* ElevationDuration

ASSUME NoneAssumption == None \notin Names
ASSUME BoundAssumption == MaxUsers \in Nat \ {0} /\ MaxSessions \in Nat /\ MaxTime \in Nat
ASSUME DurationAssumption == IdleTimeout \in Nat /\ ElevationDuration \in Nat

VARIABLES
    clock,      \* time.Now().Unix()
    name,       \* users.username of each id, None without a row
    role,       \* users.role
    userSeq,    \* sqlite_sequence of users
    sessUser,   \* sessions.user_id of each token, 0 without a row
    expires,    \* sessions.expires_at
    elevated,   \* sessions.elevated_until, 0 for NULL
    tokenSeq,   \* tokens handed out (NewToken never repeats one)
    pc,         \* where the handler of each request is
    user,       \* the user id it has read (Login) or will change
    token,      \* the session it runs under
    who,        \* the name whose password was verified by Login
    change,     \* what a user management request asks for
    owner       \* history: the name each session was logged in with

tables == <<name, role, userSeq, sessUser, expires, elevated, tokenSeq>>
locals == <<pc, user, token, who, change>>
vars == <<clock, tables, locals, owner>>

UserIDs == 1 .. MaxUsers
Tokens == 1 .. MaxSessions
Roles == {"admin", "standard"}
Requestable == Roles \cup {"delete", "other"} \* what a request may ask for, valid or not

TypeOK ==
    /\ clock \in 0 .. MaxTime
    /\ name \in [UserIDs -> Names \cup {None}]
    /\ role \in [UserIDs -> Roles]
    /\ userSeq \in 0 .. MaxUsers
    /\ sessUser \in [Tokens -> 0 .. MaxUsers]
    /\ expires \in [Tokens -> Nat]
    /\ elevated \in [Tokens -> Nat]
    /\ tokenSeq \in 0 .. MaxSessions
    /\ pc \in [Requests -> {"idle", "session", "revalidate", "hash", "elevate",
                            "user", "target", "guard", "write"}]
    /\ user \in [Requests -> 0 .. MaxUsers]
    /\ token \in [Requests -> 0 .. MaxSessions]
    /\ who \in [Requests -> Names \cup {None}]
    /\ change \in [Requests -> Roles \cup {"delete", "none"}]
    /\ owner \in [Tokens -> Names \cup {None}]

(* The first-run wizard has created one admin.                             *)
Init ==
    /\ clock = 0
    /\ \E n \in Names : name = [u \in UserIDs |-> IF u = 1 THEN n ELSE None]
    /\ role = [u \in UserIDs |-> "admin"] /\ userSeq = 1
    /\ sessUser = [t \in Tokens |-> 0] /\ tokenSeq = 0
    /\ expires = [t \in Tokens |-> 0] /\ elevated = [t \in Tokens |-> 0]
    /\ pc = [r \in Requests |-> "idle"]
    /\ user = [r \in Requests |-> 0] /\ token = [r \in Requests |-> 0]
    /\ who = [r \in Requests |-> None] /\ change = [r \in Requests |-> "none"]
    /\ owner = [t \in Tokens |-> None]

Goto(r, label) == pc' = [pc EXCEPT ![r] = label]

(* A request that is answered leaves nothing behind.                       *)
Answer(r) ==
    /\ Goto(r, "idle")
    /\ user' = [user EXCEPT ![r] = 0]
    /\ token' = [token EXCEPT ![r] = 0]
    /\ who' = [who EXCEPT ![r] = None]
    /\ change' = [change EXCEPT ![r] = "none"]

(* A database call fails, or the credentials are wrong: the handler        *)
(* answers with an error and changes nothing.                              *)
Refuse(r) ==
    /\ pc[r] # "idle"
    /\ Answer(r)
    /\ UNCHANGED <<clock, tables, owner>>

(***************************************************************************)
(* Login.                                                                  *)
(***************************************************************************)

(* UserByUsername finds the row and the password is right.                 *)
Login(r, u) ==
    /\ pc[r] = "idle"
    /\ name[u] # None
    /\ Goto(r, "session")
    /\ user' = [user EXCEPT ![r] = u]
    /\ who' = [who EXCEPT ![r] = name[u]]
    /\ UNCHANGED <<clock, tables, token, change, owner>>

(* Mutant: foreign_keys is off.                                            *)
CreateSessionUnchecked(r) ==
    /\ pc[r] = "session"
    /\ tokenSeq < MaxSessions
    /\ tokenSeq' = tokenSeq + 1
    /\ sessUser' = [sessUser EXCEPT ![tokenSeq + 1] = user[r]]
    /\ expires' = [expires EXCEPT ![tokenSeq + 1] = clock + IdleTimeout]
    /\ owner' = [owner EXCEPT ![tokenSeq + 1] = who[r]]
    /\ Answer(r)
    /\ UNCHANGED <<clock, name, role, userSeq, elevated>>

(* CreateSession; the foreign key refuses a user deleted in the meantime.  *)
CreateSession(r) ==
    /\ pc[r] = "session"
    /\ tokenSeq < MaxSessions
    /\ name[user[r]] # None
    /\ tokenSeq' = tokenSeq + 1
    /\ sessUser' = [sessUser EXCEPT ![tokenSeq + 1] = user[r]]
    /\ expires' = [expires EXCEPT ![tokenSeq + 1] = clock + IdleTimeout]
    /\ owner' = [owner EXCEPT ![tokenSeq + 1] = who[r]]
    /\ Answer(r)
    /\ UNCHANGED <<clock, name, role, userSeq, elevated>>

(* No session is looked at: the cookie's row is deleted.                   *)
Logout(r, t) ==
    /\ pc[r] = "idle"
    /\ sessUser' = [sessUser EXCEPT ![t] = 0]
    /\ UNCHANGED <<clock, name, role, userSeq, expires, elevated, tokenSeq, locals, owner>>

(***************************************************************************)
(* The gates of middleware.go.                                             *)
(***************************************************************************)

(* Validate: the row joined with its user, and not past its expiry.        *)
Valid(t) == sessUser[t] # 0 /\ expires[t] >= clock

IsElevated(t) == elevated[t] > clock

(* requireSession lets a request in.                                       *)
Enter(r, t) ==
    /\ pc[r] = "idle"
    /\ Valid(t)
    /\ token' = [token EXCEPT ![r] = t]

(* requireAdminElevated does.                                              *)
EnterAdmin(r, t) ==
    /\ Enter(r, t)
    /\ role[sessUser[t]] = "admin"
    /\ IsElevated(t)

(***************************************************************************)
(* Re-authentication.                                                      *)
(***************************************************************************)
Reauth(r, t) ==
    /\ Enter(r, t)
    /\ Goto(r, "revalidate")
    /\ UNCHANGED <<clock, tables, user, who, change, owner>>

(* Elevate validates the token again ...                                   *)
Revalidate(r) ==
    /\ pc[r] = "revalidate"
    /\ Valid(token[r])
    /\ Goto(r, "hash")
    /\ user' = [user EXCEPT ![r] = sessUser[token[r]]]
    /\ UNCHANGED <<clock, tables, token, who, change, owner>>

(* ... reads the hash, which the password matches ...                      *)
VerifyHash(r) ==
    /\ pc[r] = "hash"
    /\ name[user[r]] # None
    /\ Goto(r, "elevate")
    /\ UNCHANGED <<clock, tables, user, token, who, change, owner>>

(* ... and updates the row, if it is still there.                          *)
ElevateSession(r) ==
    /\ pc[r] = "elevate"
    /\ elevated' = IF sessUser[token[r]] = 0 THEN elevated
                   ELSE [elevated EXCEPT ![token[r]] = clock + ElevationDuration]
    /\ Answer(r)
    /\ UNCHANGED <<clock, name, role, userSeq, sessUser, expires, tokenSeq, owner>>

(***************************************************************************)
(* User management.                                                        *)
(***************************************************************************)
(* createUser, up to the hashing of the password.                          *)
CreateUserRequest(r, t, newRole) ==
    /\ EnterAdmin(r, t)
    /\ newRole \in Roles
    /\ Goto(r, "user")
    /\ change' = [change EXCEPT ![r] = newRole]
    /\ UNCHANGED <<clock, tables, user, who, owner>>

(* Mutant: id INTEGER PRIMARY KEY without AUTOINCREMENT: the id after the  *)
(* largest one in use.                                                     *)
NextUserIDReused == 1 + Cardinality({u \in UserIDs : \E v \in u .. MaxUsers : name[v] # None})

(* AUTOINCREMENT: an id is not used twice.                                 *)
NextUserID == userSeq + 1

(* CreateUser; a name that is taken is refused.                            *)
CreateUser(r, n) ==
    /\ pc[r] = "user"
    /\ NextUserID <= MaxUsers
    /\ \A u \in UserIDs : name[u] # n
    /\ userSeq' = NextUserID
    /\ name' = [name EXCEPT ![NextUserID] = n]
    /\ role' = [role EXCEPT ![NextUserID] = change[r]]
    /\ Answer(r)
    /\ UNCHANGED <<clock, sessUser, expires, elevated, tokenSeq, owner>>

(* updateUserRole and deleteUser refuse the caller's own id.               *)
ChangeUserRequest(r, t, u, c) ==
    /\ EnterAdmin(r, t)
    /\ c \in Roles \cup {"delete"}
    /\ u # sessUser[t]
    /\ Goto(r, "target")
    /\ user' = [user EXCEPT ![r] = u]
    /\ change' = [change EXCEPT ![r] = c]
    /\ UNCHANGED <<clock, tables, who, owner>>

(* UserByID; an admin that is demoted or deleted goes through the guard.   *)
LoadTarget(r) ==
    /\ pc[r] = "target"
    /\ name[user[r]] # None
    /\ Goto(r, IF role[user[r]] = "admin" /\ change[r] # "admin" THEN "guard" ELSE "write")
    /\ UNCHANGED <<clock, tables, user, token, who, change, owner>>

Admins == {u \in UserIDs : name[u] # None /\ role[u] = "admin"}

(* CountAdmins, in a statement of its own.                                 *)
GuardLastAdmin(r) ==
    /\ pc[r] = "guard"
    /\ Cardinality(Admins) > 1
    /\ Goto(r, "write")
    /\ UNCHANGED <<clock, tables, user, token, who, change, owner>>

UpdateUserRole(r) ==
    /\ pc[r] = "write"
    /\ change[r] # "delete"
    /\ role' = IF name[user[r]] = None THEN role ELSE [role EXCEPT ![user[r]] = change[r]]
    /\ Answer(r)
    /\ UNCHANGED <<clock, name, userSeq, sessUser, expires, elevated, tokenSeq, owner>>

(* DeleteUser, and with it the user's sessions (ON DELETE CASCADE).        *)
DeleteUser(r) ==
    /\ pc[r] = "write"
    /\ change[r] = "delete"
    /\ name' = [name EXCEPT ![user[r]] = None]
    /\ sessUser' = [t \in Tokens |-> IF sessUser[t] = user[r] THEN 0 ELSE sessUser[t]]
    /\ Answer(r)
    /\ UNCHANGED <<clock, role, userSeq, expires, elevated, tokenSeq, owner>>

Tick ==
    /\ clock < MaxTime
    /\ clock' = clock + 1
    /\ UNCHANGED <<tables, locals, owner>>

Handle(r) ==
    \/ Refuse(r) \/ CreateSession(r) \/ Revalidate(r) \/ VerifyHash(r) \/ ElevateSession(r)
    \/ LoadTarget(r) \/ GuardLastAdmin(r) \/ UpdateUserRole(r) \/ DeleteUser(r)
    \/ \E n \in Names : CreateUser(r, n)

Receive(r) ==
    \/ \E u \in UserIDs : Login(r, u)
    \/ \E t \in Tokens : Logout(r, t) \/ Reauth(r, t)
    \/ \E t \in Tokens, c \in Requestable : CreateUserRequest(r, t, c)
    \/ \E t \in Tokens, u \in UserIDs, c \in Requestable : ChangeUserRequest(r, t, u, c)

Next == Tick \/ \E r \in Requests : Handle(r) \/ Receive(r)
Spec == Init /\ [][Next]_vars

-----------------------------------------------------------------------------
(* Every session belongs to an account that exists: a login that races the *)
(* deletion of its account leaves no session behind.                       *)
SessionsOwned == \A t \in Tokens : sessUser[t] # 0 => name[sessUser[t]] # None

(* A session is the session of the person whose password was checked, also *)
(* when the account is deleted and another one created between the check   *)
(* and the insertion of the session.                                       *)
SessionsKeepOwner ==
    \A t \in Tokens : sessUser[t] # 0 => name[sessUser[t]] = owner[t]

(* At least one admin account exists, so that settings and users can still *)
(* be managed (guardLastAdmin).                                            *)
AdminRemains == Admins # {}

-----------------------------------------------------------------------------
(***************************************************************************)
(* The inductive invariant behind SessionsOwned and SessionsKeepOwner: an  *)
(* id above userSeq has never been used, and the account a Login has read  *)
(* is still that person's or is gone for good.                             *)
(***************************************************************************)
LoginInv ==
    \A r \in Requests : pc[r] = "session" =>
        /\ user[r] \in 1 .. userSeq
        /\ name[user[r]] \in {who[r], None}

IDInv ==
    /\ \A u \in UserIDs : u > userSeq => name[u] = None
    /\ \A t \in Tokens : sessUser[t] <= userSeq
    /\ \A r \in Requests : pc[r] \in {"hash", "target", "guard", "write"} => user[r] # 0
    /\ \A r \in Requests : pc[r] \in {"revalidate", "hash", "elevate"} => token[r] # 0
    /\ \A r \in Requests : pc[r] = "user" => change[r] \in Roles
    /\ \A r \in Requests : pc[r] = "write" => change[r] # "none"
    /\ \A r \in Requests : pc[r] \in {"target", "guard"} => change[r] # "none"

IInv == TypeOK /\ IDInv /\ LoginInv /\ SessionsOwned /\ SessionsKeepOwner
=============================================================================
