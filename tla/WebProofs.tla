----------------------------- MODULE WebProofs -----------------------------
(***************************************************************************)
(* Proofs about the web interface: its two sides, and its accounts.        *)
(*                                                                         *)
(* WebClient, for any alerts, page size, ranges, and number of calls and   *)
(* forms: the list or graph shown is that of the last choice, alerts that  *)
(* look acknowledged are, forms report what happened, and the dialog is    *)
(* open while an action waits for it.                                      *)
(*                                                                         *)
(* Series, for any retentions: a graph of the last day has no holes.       *)
(*                                                                         *)
(* Accounts, for any number of requests, accounts and sessions: sessions   *)
(* are owned and keep their owner.                                         *)
(***************************************************************************)
EXTENDS WebClient, Series, Accounts, TLAPS

(***************************************************************************)
(* Accounts: the invariant IInv is inductive.                              *)
(***************************************************************************)

(* The tables' part of the invariant, and the handlers' part.              *)
TablesTyped ==
    /\ clock \in 0 .. MaxTime
    /\ name \in [UserIDs -> Names \cup {None}]
    /\ role \in [UserIDs -> Roles]
    /\ userSeq \in 0 .. MaxUsers
    /\ sessUser \in [Tokens -> 0 .. MaxUsers]
    /\ expires \in [Tokens -> Nat]
    /\ elevated \in [Tokens -> Nat]
    /\ tokenSeq \in 0 .. MaxSessions
    /\ owner \in [Tokens -> Names \cup {None}]

Labels == {"idle", "session", "revalidate", "hash", "elevate", "user", "target", "guard", "write"}

LocalsTyped ==
    /\ pc \in [Requests -> Labels]
    /\ user \in [Requests -> 0 .. MaxUsers]
    /\ token \in [Requests -> 0 .. MaxSessions]
    /\ who \in [Requests -> Names \cup {None}]
    /\ change \in [Requests -> Roles \cup {"delete", "none"}]

(* What one handler has in its locals.                                     *)
LocalInv(r) ==
    /\ pc[r] = "session" => user[r] \in 1 .. userSeq /\ name[user[r]] \in {who[r], None}
    /\ pc[r] \in {"hash", "target", "guard", "write"} => user[r] # 0
    /\ pc[r] \in {"revalidate", "hash", "elevate"} => token[r] # 0
    /\ pc[r] = "user" => change[r] \in Roles
    /\ pc[r] \in {"target", "guard", "write"} => change[r] # "none"

TablesInv ==
    /\ TablesTyped
    /\ \A u \in UserIDs : u > userSeq => name[u] = None
    /\ \A t \in Tokens : sessUser[t] <= userSeq
    /\ SessionsOwned
    /\ SessionsKeepOwner

(* IInv, split by what the actions disturb.                                *)
LEMMA Split == IInv <=> TablesInv /\ LocalsTyped /\ \A r \in Requests : LocalInv(r)
BY Zenon DEF IInv, TypeOK, IDInv, LoginInv, TablesInv, TablesTyped, LocalsTyped, LocalInv, Labels

(* A handler moves to a label with new values of its locals; the others    *)
(* stay.                                                                   *)
Moves(r, a, u, t, w, c) ==
    /\ pc' = [pc EXCEPT ![r] = a] /\ user' = [user EXCEPT ![r] = u] /\ token' = [token EXCEPT ![r] = t]
    /\ who' = [who EXCEPT ![r] = w] /\ change' = [change EXCEPT ![r] = c]

Others(r) ==
    \A s \in Requests \ {r} : /\ pc'[s] = pc[s] /\ user'[s] = user[s] /\ token'[s] = token[s]
                               /\ who'[s] = who[s] /\ change'[s] = change[s]

(* No account is given another name, and no id is used again.              *)
KeepsNames ==
    /\ userSeq \in Nat /\ userSeq' \in Nat /\ userSeq <= userSeq'
    /\ \A u \in 1 .. userSeq : name'[u] \in {name[u], None}

(* IInv is inductive: one step per kind of request.                        *)
LEMMA Inductive == IInv /\ [Next]_vars => IInv'
(* Ids are counted from 1, and 0 stands for no row.                        *)
<1>NonZero. ASSUME NEW m \in Nat, NEW x \in 0 .. m, x # 0 PROVE x \in 1 .. m
    BY <1>NonZero
<1>NextID.
    ASSUME NEW n \in Nat, NEW m \in Nat, n + 1 <= m
    PROVE  n + 1 \in 1 .. m /\ n + 1 \in 0 .. m /\ n + 1 \in Nat /\ n <= n + 1
    BY <1>NextID
(* A move to values of the right types.                                    *)
<1>Moved.
    ASSUME LocalsTyped, NEW r \in Requests, NEW a \in Labels, NEW u \in 0 .. MaxUsers,
           NEW t \in 0 .. MaxSessions, NEW w \in Names \cup {None}, NEW c \in Roles \cup {"delete", "none"},
           Moves(r, a, u, t, w, c)
    PROVE  /\ LocalsTyped' /\ Others(r)
           /\ pc'[r] = a /\ user'[r] = u /\ token'[r] = t /\ who'[r] = w /\ change'[r] = c
  <2> USE <1>Moved
  <2>1. pc' \in [Requests -> Labels] /\ pc'[r] = a /\ \A s \in Requests \ {r} : pc'[s] = pc[s]
    BY Zenon DEF Moves, LocalsTyped
  <2>2. user' \in [Requests -> 0 .. MaxUsers] /\ user'[r] = u /\ \A s \in Requests \ {r} : user'[s] = user[s]
    BY Zenon DEF Moves, LocalsTyped
  <2>3. token' \in [Requests -> 0 .. MaxSessions] /\ token'[r] = t /\ \A s \in Requests \ {r} : token'[s] = token[s]
    BY Zenon DEF Moves, LocalsTyped
  <2>4. who' \in [Requests -> Names \cup {None}] /\ who'[r] = w /\ \A s \in Requests \ {r} : who'[s] = who[s]
    BY Zenon DEF Moves, LocalsTyped
  <2>5. /\ change' \in [Requests -> Roles \cup {"delete", "none"}] /\ change'[r] = c
        /\ \A s \in Requests \ {r} : change'[s] = change[s]
    BY Zenon DEF Moves, LocalsTyped
  <2> QED BY <2>1, <2>2, <2>3, <2>4, <2>5, Zenon DEF LocalsTyped, Others
(* The values a handler has, and that leaving one alone keeps it.          *)
<1>HasLocals.
    ASSUME LocalsTyped, NEW r \in Requests
    PROVE  /\ user[r] \in 0 .. MaxUsers /\ token[r] \in 0 .. MaxSessions /\ who[r] \in Names \cup {None}
           /\ change[r] \in Roles \cup {"delete", "none"}
           /\ user = [user EXCEPT ![r] = user[r]] /\ token = [token EXCEPT ![r] = token[r]]
           /\ who = [who EXCEPT ![r] = who[r]] /\ change = [change EXCEPT ![r] = change[r]]
    BY <1>HasLocals, Zenon DEF LocalsTyped
(* A handler that moves and leaves the tables alone keeps the invariant    *)
(* when its own locals are right.                                          *)
<1>LocalStep.
    ASSUME TablesInv, LocalsTyped, \A r \in Requests : LocalInv(r), NEW r \in Requests,
           UNCHANGED <<clock, tables, owner>>, LocalsTyped', LocalInv(r)', Others(r)
    PROVE  TablesInv' /\ LocalsTyped' /\ \A s \in Requests : LocalInv(s)'
  <2> USE <1>LocalStep
  <2>1. TablesInv' BY DEF tables, TablesInv, TablesTyped, SessionsOwned, SessionsKeepOwner
  <2>2. ASSUME NEW s \in Requests \ {r} PROVE LocalInv(s)' BY DEF tables, LocalInv, Others
  <2> QED BY <2>1, <2>2
(* An answered request has nothing in its locals.                          *)
<1>Answered.
    ASSUME LocalsTyped, NEW r \in Requests, Answer(r)
    PROVE  LocalsTyped' /\ pc'[r] = "idle" /\ Others(r)
  <2> USE <1>Answered
  <2>1. 0 \in 0 .. MaxUsers /\ 0 \in 0 .. MaxSessions BY BoundAssumption
  <2>2. Moves(r, "idle", 0, 0, None, "none") BY DEF Answer, Goto, Moves
  <2>3. "idle" \in Labels BY DEF Labels
  <2> QED BY <2>1, <2>2, <2>3, <1>Moved, Zenon
(* A step that changes no name keeps the names.                            *)
<1>SameNames. ASSUME TablesInv, UNCHANGED <<name, userSeq>> PROVE KeepsNames
  <2> USE <1>SameNames
  <2>1. userSeq \in Nat BY BoundAssumption DEF TablesInv, TablesTyped
  <2> QED BY <2>1 DEF KeepsNames
(* A handler that answers after changing the tables: the other handlers'   *)
(* names must still be right.                                              *)
<1>AnswerStep.
    ASSUME LocalsTyped, \A r \in Requests : LocalInv(r), NEW r \in Requests, Answer(r), TablesInv',
           KeepsNames
    PROVE  TablesInv' /\ LocalsTyped' /\ \A s \in Requests : LocalInv(s)'
  <2> USE <1>AnswerStep
  <2>1. LocalInv(r)' BY <1>Answered DEF LocalInv
  <2>2. ASSUME NEW s \in Requests \ {r} PROVE LocalInv(s)' BY <1>Answered DEF LocalInv, LocalsTyped, KeepsNames, Others
  <2> QED BY <2>1, <2>2, <1>Answered
(* The handlers that only read the tables.                                 *)
<1>ReadingStep.
    ASSUME TablesInv, LocalsTyped, \A r \in Requests : LocalInv(r), NEW r \in Requests,
           \/ Refuse(r) \/ Revalidate(r) \/ VerifyHash(r) \/ LoadTarget(r) \/ GuardLastAdmin(r)
           \/ \E u \in UserIDs : Login(r, u)
           \/ \E t \in Tokens : Reauth(r, t)
           \/ \E t \in Tokens, c \in Requestable : CreateUserRequest(r, t, c)
           \/ \E t \in Tokens, u \in UserIDs, c \in Requestable : ChangeUserRequest(r, t, u, c)
    PROVE  TablesInv' /\ LocalsTyped' /\ \A s \in Requests : LocalInv(s)'
  <2> USE <1>ReadingStep
  <2> USE DEF UserIDs, Tokens
  <2>0. LocalInv(r) OBVIOUS
  <2>a. UserIDs \subseteq 0 .. MaxUsers /\ Tokens \subseteq 0 .. MaxSessions /\ 0 \notin UserIDs /\ 0 \notin Tokens
    BY BoundAssumption
  <2>c. /\ "session" \in Labels /\ "revalidate" \in Labels /\ "hash" \in Labels /\ "elevate" \in Labels
        /\ "user" \in Labels /\ "target" \in Labels /\ "guard" \in Labels /\ "write" \in Labels
    BY DEF Labels
  <2>1. CASE Refuse(r)
    <3>1. LocalInv(r)' BY <2>1, <1>Answered, Zenon DEF Refuse, LocalInv
    <3> QED BY <2>1, <3>1, <1>Answered, <1>LocalStep, Zenon DEF Refuse
  <2>2. CASE Revalidate(r)
    <3>1. token[r] # 0 BY <2>0, <2>2, Zenon DEF Revalidate, LocalInv
    <3>2. token[r] \in Tokens BY <3>1, <1>HasLocals, <1>NonZero, BoundAssumption
    <3>3. sessUser[token[r]] \in 0 .. MaxUsers /\ sessUser[token[r]] # 0
      BY <2>2, <3>2, Zenon DEF Revalidate, Valid, TablesInv, TablesTyped
    <3>4. Moves(r, "hash", sessUser[token[r]], token[r], who[r], change[r]) BY <2>2, <1>HasLocals DEF Revalidate, Goto, Moves
    <3>5. /\ LocalsTyped' /\ Others(r)
          /\ pc'[r] = "hash" /\ user'[r] = sessUser[token[r]] /\ token'[r] = token[r] /\ who'[r] = who[r] /\ change'[r] = change[r]
      BY <3>3, <3>4, <2>c, <1>HasLocals, <1>Moved, ZenonT(60)
    <3>6. LocalInv(r)' BY <3>1, <3>3, <3>5, Zenon DEF LocalInv
    <3> QED BY <2>2, <3>5, <3>6, <1>LocalStep, Zenon DEF Revalidate
  <2>3. CASE VerifyHash(r)
    <3>4. Moves(r, "elevate", user[r], token[r], who[r], change[r]) BY <2>3, <1>HasLocals DEF VerifyHash, Goto, Moves
    <3>5. /\ LocalsTyped' /\ Others(r)
          /\ pc'[r] = "elevate" /\ user'[r] = user[r] /\ token'[r] = token[r] /\ who'[r] = who[r] /\ change'[r] = change[r]
      BY <3>4, <2>c, <1>HasLocals, <1>Moved, ZenonT(60)
    <3>6. LocalInv(r)' BY <2>0, <2>3, <3>5, Zenon DEF VerifyHash, LocalInv
    <3> QED BY <2>3, <3>5, <3>6, <1>LocalStep, Zenon DEF VerifyHash
  <2>4. CASE LoadTarget(r)
    <3> DEFINE label == IF role[user[r]] = "admin" /\ change[r] # "admin" THEN "guard" ELSE "write"
    <3> HIDE DEF label
    <3>1. label \in {"guard", "write"} BY Zenon DEF label
    <3>2. label \in Labels BY <2>c, <3>1
    <3>3. /\ user[r] \in 0 .. MaxUsers /\ token[r] \in 0 .. MaxSessions /\ who[r] \in Names \cup {None}
          /\ change[r] \in Roles \cup {"delete", "none"}
      BY <1>HasLocals, Zenon
    <3>4. Moves(r, label, user[r], token[r], who[r], change[r]) BY <2>4, <1>HasLocals DEF label, LoadTarget, Goto, Moves
    <3>5. /\ LocalsTyped' /\ Others(r)
          /\ pc'[r] = label /\ user'[r] = user[r] /\ token'[r] = token[r] /\ who'[r] = who[r] /\ change'[r] = change[r]
      BY <3>2, <3>3, <3>4, <1>Moved, ZenonT(60)
    <3>6. LocalInv(r)' BY <2>0, <2>4, <3>1, <3>5, Zenon DEF LoadTarget, LocalInv
    <3> QED BY <2>4, <3>5, <3>6, <1>LocalStep, Zenon DEF LoadTarget
  <2>5. CASE GuardLastAdmin(r)
    <3>4. Moves(r, "write", user[r], token[r], who[r], change[r]) BY <2>5, <1>HasLocals DEF GuardLastAdmin, Goto, Moves
    <3>5. /\ LocalsTyped' /\ Others(r)
          /\ pc'[r] = "write" /\ user'[r] = user[r] /\ token'[r] = token[r] /\ who'[r] = who[r] /\ change'[r] = change[r]
      BY <3>4, <2>c, <1>HasLocals, <1>Moved, ZenonT(60)
    <3>6. LocalInv(r)' BY <2>0, <2>5, <3>5, Zenon DEF GuardLastAdmin, LocalInv
    <3> QED BY <2>5, <3>5, <3>6, <1>LocalStep, Zenon DEF GuardLastAdmin
  <2>6. ASSUME NEW u \in UserIDs, Login(r, u)
        PROVE  TablesInv' /\ LocalsTyped' /\ \A s \in Requests : LocalInv(s)'
    <3>1. name[u] \in Names \cup {None} /\ name[u] # None /\ u \in 0 .. MaxUsers
      BY <2>6, <2>a DEF Login, TablesInv, TablesTyped
    <3>2. u <= userSeq /\ userSeq \in Nat BY <2>6, BoundAssumption DEF Login, TablesInv, TablesTyped
    <3>4. Moves(r, "session", u, token[r], name[u], change[r]) BY <2>6, <1>HasLocals DEF Login, Goto, Moves
    <3>5. /\ LocalsTyped' /\ Others(r)
          /\ pc'[r] = "session" /\ user'[r] = u /\ token'[r] = token[r] /\ who'[r] = name[u] /\ change'[r] = change[r]
      BY <3>1, <3>4, <2>c, <1>HasLocals, <1>Moved
    <3>6. UNCHANGED <<name, userSeq>> BY <2>6 DEF Login, tables
    <3>7. u \in 1 .. userSeq BY <3>2
    <3>8. LocalInv(r)'
      <4>1. user'[r] \in 1 .. userSeq' /\ name'[user'[r]] = who'[r] BY <3>5, <3>6, <3>7, Zenon
      <4> QED BY <3>5, <4>1, Zenon DEF LocalInv
    <3> QED BY <2>6, <3>5, <3>8, <1>LocalStep, Zenon DEF Login
  <2>7. ASSUME NEW t \in Tokens, Reauth(r, t)
        PROVE  TablesInv' /\ LocalsTyped' /\ \A s \in Requests : LocalInv(s)'
    <3>1. t \in 0 .. MaxSessions /\ t # 0 BY <2>a
    <3>4. Moves(r, "revalidate", user[r], t, who[r], change[r]) BY <2>7, <1>HasLocals DEF Reauth, Enter, Goto, Moves
    <3>5. /\ LocalsTyped' /\ Others(r)
          /\ pc'[r] = "revalidate" /\ user'[r] = user[r] /\ token'[r] = t /\ who'[r] = who[r] /\ change'[r] = change[r]
      BY <3>1, <3>4, <2>c, <1>HasLocals, <1>Moved, ZenonT(60)
    <3>6. LocalInv(r)' BY <3>1, <3>5, Zenon DEF LocalInv
    <3> QED BY <2>7, <3>5, <3>6, <1>LocalStep, Zenon DEF Reauth
  <2>8. ASSUME NEW t \in Tokens, NEW c \in Requestable, CreateUserRequest(r, t, c)
        PROVE  TablesInv' /\ LocalsTyped' /\ \A s \in Requests : LocalInv(s)'
    <3>1. t \in 0 .. MaxSessions /\ c \in Roles BY <2>8, <2>a DEF CreateUserRequest
    <3>4. Moves(r, "user", user[r], t, who[r], c) BY <2>8, <1>HasLocals DEF CreateUserRequest, EnterAdmin, Enter, Goto, Moves
    <3>5. /\ LocalsTyped' /\ Others(r)
          /\ pc'[r] = "user" /\ user'[r] = user[r] /\ token'[r] = t /\ who'[r] = who[r] /\ change'[r] = c
      BY <3>1, <3>4, <2>c, <1>HasLocals, <1>Moved, Zenon
    <3>6. LocalInv(r)' BY <3>1, <3>5, Zenon DEF LocalInv
    <3> QED BY <2>8, <3>5, <3>6, <1>LocalStep, Zenon DEF CreateUserRequest
  <2>9. ASSUME NEW t \in Tokens, NEW u \in UserIDs, NEW c \in Requestable, ChangeUserRequest(r, t, u, c)
        PROVE  TablesInv' /\ LocalsTyped' /\ \A s \in Requests : LocalInv(s)'
    <3>1. t \in 0 .. MaxSessions /\ u \in 0 .. MaxUsers /\ u # 0 BY <2>a
    <3>2. c \in Roles \cup {"delete"} /\ c # "none" BY <2>9 DEF ChangeUserRequest, Roles
    <3>4. Moves(r, "target", u, t, who[r], c) BY <2>9, <1>HasLocals DEF ChangeUserRequest, EnterAdmin, Enter, Goto, Moves
    <3>5. /\ LocalsTyped' /\ Others(r)
          /\ pc'[r] = "target" /\ user'[r] = u /\ token'[r] = t /\ who'[r] = who[r] /\ change'[r] = c
      BY <3>1, <3>2, <3>4, <2>c, <1>HasLocals, <1>Moved, Zenon
    <3>6. LocalInv(r)' BY <3>1, <3>2, <3>5, Zenon DEF LocalInv
    <3> QED BY <2>9, <3>5, <3>6, <1>LocalStep, Zenon DEF ChangeUserRequest
  <2> QED BY <2>1, <2>2, <2>3, <2>4, <2>5, <2>6, <2>7, <2>8, <2>9
(* The handlers that write a table.                                        *)
<1>WritingStep.
    ASSUME TablesInv, LocalsTyped, \A r \in Requests : LocalInv(r), NEW r \in Requests,
           \/ CreateSession(r) \/ ElevateSession(r) \/ UpdateUserRole(r) \/ DeleteUser(r)
           \/ \E n \in Names : CreateUser(r, n)
    PROVE  TablesInv' /\ LocalsTyped' /\ \A s \in Requests : LocalInv(s)'
  <2> USE <1>WritingStep
  <2> USE DEF UserIDs, Tokens
  <2>0. LocalInv(r) OBVIOUS
  <2>a. userSeq \in Nat /\ userSeq <= MaxUsers /\ MaxUsers \in Nat /\ tokenSeq \in Nat /\ clock \in Nat
    BY BoundAssumption DEF TablesInv, TablesTyped
  <2>b. user[r] \in 0 .. MaxUsers /\ who[r] \in Names \cup {None} BY DEF LocalsTyped
  <2>1. CASE CreateSession(r)
    <3>1. user[r] \in 1 .. userSeq /\ name[user[r]] = who[r] /\ who[r] # None
      BY <2>0, <2>1, Zenon DEF CreateSession, LocalInv
    <3>2. TablesTyped'
      <4>1. tokenSeq' \in 0 .. MaxSessions /\ clock + IdleTimeout \in Nat
        BY <2>1, <2>a, BoundAssumption, DurationAssumption DEF CreateSession
      <4>2. sessUser' \in [Tokens -> 0 .. MaxUsers] BY <2>1, <2>b, Zenon DEF CreateSession, TablesInv, TablesTyped
      <4>3. expires' \in [Tokens -> Nat] BY <2>1, <4>1, Zenon DEF CreateSession, TablesInv, TablesTyped
      <4>4. elevated' \in [Tokens -> Nat] BY <2>1, Zenon DEF CreateSession, TablesInv, TablesTyped
      <4>5. owner' \in [Tokens -> Names \cup {None}] BY <2>1, <2>b, Zenon DEF CreateSession, TablesInv, TablesTyped
      <4>6. UNCHANGED <<clock, name, role, userSeq>> BY <2>1, Zenon DEF CreateSession
      <4> QED BY <4>1, <4>2, <4>3, <4>4, <4>5, <4>6 DEF TablesInv, TablesTyped
    <3>3. \A t \in Tokens : \/ t # tokenSeq + 1 /\ sessUser'[t] = sessUser[t] /\ owner'[t] = owner[t]
                            \/ t = tokenSeq + 1 /\ sessUser'[t] = user[r] /\ owner'[t] = who[r]
      BY <2>1, Zenon DEF CreateSession, TablesInv, TablesTyped
    <3>4. TablesInv'
      <4>1. UNCHANGED <<name, userSeq>> BY <2>1, Zenon DEF CreateSession
      <4>2. ASSUME NEW t \in Tokens PROVE sessUser'[t] <= userSeq
        <5>1. sessUser[t] <= userSeq /\ user[r] <= userSeq BY <2>a, <3>1 DEF TablesInv
        <5>2. sessUser'[t] = sessUser[t] \/ sessUser'[t] = user[r] BY <3>3, Zenon
        <5> QED BY <5>1, <5>2
      <4>3. SessionsOwned' BY <3>1, <3>3, <4>1, Zenon DEF TablesInv, SessionsOwned
      <4>4. SessionsKeepOwner' BY <3>1, <3>3, <4>1, Zenon DEF TablesInv, SessionsKeepOwner
      <4> QED BY <3>2, <4>1, <4>2, <4>3, <4>4 DEF TablesInv
    <3>5. KeepsNames BY <2>1, <1>SameNames, Zenon DEF CreateSession
    <3> QED BY <2>1, <3>4, <3>5, <1>AnswerStep, Zenon DEF CreateSession
  <2>2. CASE ElevateSession(r)
    <3>1. elevated' \in [Tokens -> Nat]
      <4>1. clock + ElevationDuration \in Nat BY <2>a, DurationAssumption
      <4>2. elevated \in [Tokens -> Nat] BY DEF TablesInv, TablesTyped
      <4>3. elevated' = elevated \/ elevated' = [elevated EXCEPT ![token[r]] = clock + ElevationDuration]
        BY <2>2, Zenon DEF ElevateSession
      <4> QED BY <4>1, <4>2, <4>3
    <3>2. TablesInv'
      BY <2>2, <3>1, Zenon DEF ElevateSession, TablesInv, TablesTyped, SessionsOwned, SessionsKeepOwner
    <3>3. KeepsNames BY <2>2, <1>SameNames, Zenon DEF ElevateSession
    <3> QED BY <2>2, <3>2, <3>3, <1>AnswerStep, Zenon DEF ElevateSession
  <2>3. CASE UpdateUserRole(r)
    <3>1. change[r] \in Roles BY <2>0, <2>3 DEF UpdateUserRole, LocalInv, LocalsTyped
    <3>2. role' \in [UserIDs -> Roles] BY <2>3, <3>1, Zenon DEF UpdateUserRole, TablesInv, TablesTyped
    <3>3. TablesInv'
      BY <2>3, <3>2, Zenon DEF UpdateUserRole, TablesInv, TablesTyped, SessionsOwned, SessionsKeepOwner
    <3>4. KeepsNames BY <2>3, <1>SameNames, Zenon DEF UpdateUserRole
    <3> QED BY <2>3, <3>3, <3>4, <1>AnswerStep, Zenon DEF UpdateUserRole
  <2>4. CASE DeleteUser(r)
    <3>1. user[r] \in UserIDs
      <4>1. user[r] # 0 BY <2>0, <2>4, Zenon DEF DeleteUser, LocalInv
      <4> QED BY <2>a, <2>b, <4>1, <1>NonZero, Zenon
    <3>2. /\ \A u \in UserIDs : name'[u] = IF u = user[r] THEN None ELSE name[u]
          /\ \A t \in Tokens : sessUser'[t] = IF sessUser[t] = user[r] THEN 0 ELSE sessUser[t]
      BY <2>4, <3>1, Zenon DEF DeleteUser, TablesInv, TablesTyped
    <3>3. TablesTyped'
      <4>1. name' \in [UserIDs -> Names \cup {None}] BY <2>4, Zenon DEF DeleteUser, TablesInv, TablesTyped
      <4>2. 0 \in 0 .. MaxUsers BY <2>a
      <4>3. sessUser' \in [Tokens -> 0 .. MaxUsers] BY <2>4, <4>2, Zenon DEF DeleteUser, TablesInv, TablesTyped
      <4>4. UNCHANGED <<clock, role, userSeq, expires, elevated, tokenSeq, owner>> BY <2>4, Zenon DEF DeleteUser
      <4> QED BY <4>1, <4>3, <4>4 DEF TablesInv, TablesTyped
    <3>4. TablesInv'
      <4>1. UNCHANGED <<userSeq, owner>> BY <2>4, Zenon DEF DeleteUser
      <4>2. \A t \in Tokens : sessUser'[t] # 0 => /\ sessUser'[t] = sessUser[t] /\ sessUser[t] # 0
                                                 /\ name'[sessUser[t]] = name[sessUser[t]]
        <5> SUFFICES ASSUME NEW t \in Tokens, sessUser'[t] # 0
                     PROVE  /\ sessUser'[t] = sessUser[t] /\ sessUser[t] # 0
                            /\ name'[sessUser[t]] = name[sessUser[t]]
          BY Zenon
        <5>1. sessUser[t] \in 0 .. MaxUsers BY DEF TablesInv, TablesTyped
        <5>2. sessUser'[t] = sessUser[t] /\ sessUser[t] # user[r] BY <3>2
        <5>3. sessUser[t] \in UserIDs BY <2>a, <5>1, <5>2
        <5> QED BY <3>2, <5>2, <5>3, Zenon
      <4>3. SessionsOwned' BY <4>2 DEF TablesInv, SessionsOwned
      <4>4. SessionsKeepOwner' BY <4>1, <4>2 DEF TablesInv, SessionsKeepOwner
      <4>5. \A u \in UserIDs : u > userSeq' => name'[u] = None BY <3>2, <4>1, Zenon DEF TablesInv
      <4>6. ASSUME NEW t \in Tokens PROVE sessUser'[t] <= userSeq'
        <5>1. sessUser[t] <= userSeq /\ 0 <= userSeq BY DEF TablesInv, TablesTyped
        <5>2. sessUser'[t] \in {0, sessUser[t]} BY <3>2, Zenon
        <5> QED BY <4>1, <5>1, <5>2
      <4> QED BY <3>3, <4>3, <4>4, <4>5, <4>6, Zenon DEF TablesInv
    <3>5. KeepsNames
      <4>1. userSeq' = userSeq BY <2>4, Zenon DEF DeleteUser
      <4>2. 1 .. userSeq \subseteq UserIDs BY <2>a
      <4> QED BY <2>a, <3>2, <4>1, <4>2 DEF KeepsNames
    <3> QED BY <2>4, <3>4, <3>5, <1>AnswerStep, Zenon DEF DeleteUser
  <2>5. ASSUME NEW n \in Names, CreateUser(r, n)
        PROVE  TablesInv' /\ LocalsTyped' /\ \A s \in Requests : LocalInv(s)'
    <3>0. userSeq' = userSeq + 1 /\ userSeq + 1 <= MaxUsers BY <2>5, Zenon DEF CreateUser, NextUserID
    <3>1. /\ userSeq + 1 \in UserIDs /\ userSeq + 1 \in 0 .. MaxUsers
          /\ userSeq + 1 \in Nat /\ userSeq <= userSeq + 1
      BY <2>a, <3>0, <1>NextID
    <3>2. change[r] \in Roles BY <2>0, <2>5, Zenon DEF CreateUser, LocalInv
    <3>3. \A u \in UserIDs : name'[u] = IF u = userSeq + 1 THEN n ELSE name[u]
      BY <2>5, <3>1, Zenon DEF CreateUser, NextUserID, TablesInv, TablesTyped
    <3>4. TablesTyped'
      <4>1. name' \in [UserIDs -> Names \cup {None}] BY <2>5, Zenon DEF CreateUser, TablesInv, TablesTyped
      <4>2. role' \in [UserIDs -> Roles] BY <2>5, <3>2, Zenon DEF CreateUser, TablesInv, TablesTyped
      <4>3. userSeq' \in 0 .. MaxUsers BY <3>0, <3>1, Zenon
      <4>4. UNCHANGED <<clock, sessUser, expires, elevated, tokenSeq, owner>> BY <2>5, Zenon DEF CreateUser
      <4> QED BY <4>1, <4>2, <4>3, <4>4 DEF TablesInv, TablesTyped
    <3>5. TablesInv'
      <4>1. UNCHANGED <<sessUser, owner>> /\ userSeq' = userSeq + 1 /\ userSeq \in Nat
        BY <2>5, <2>a, <3>0 DEF CreateUser
      <4>2. \A t \in Tokens : /\ sessUser[t] <= userSeq /\ sessUser[t] \in 0 .. MaxUsers
                              /\ sessUser[t] # 0 => name'[sessUser[t]] = name[sessUser[t]]
        <5> SUFFICES ASSUME NEW t \in Tokens
                     PROVE  /\ sessUser[t] <= userSeq /\ sessUser[t] \in 0 .. MaxUsers
                            /\ sessUser[t] # 0 => name'[sessUser[t]] = name[sessUser[t]]
          OBVIOUS
        <5>1. sessUser[t] <= userSeq /\ sessUser[t] \in 0 .. MaxUsers BY DEF TablesInv, TablesTyped
        <5>2. sessUser[t] # 0 => sessUser[t] \in UserIDs /\ sessUser[t] # userSeq + 1 BY <2>a, <5>1
        <5> QED BY <3>3, <5>1, <5>2
      <4>3. SessionsOwned' BY <4>1, <4>2 DEF TablesInv, SessionsOwned
      <4>4. SessionsKeepOwner' BY <4>1, <4>2 DEF TablesInv, SessionsKeepOwner
      <4>5. ASSUME NEW u \in UserIDs, u > userSeq' PROVE name'[u] = None
        <5>1. u > userSeq /\ u # userSeq + 1 BY <2>a, <3>0, <4>5
        <5>2. name[u] = None BY <5>1 DEF TablesInv
        <5> QED BY <3>3, <5>1, <5>2
      <4>6. \A t \in Tokens : sessUser'[t] <= userSeq' BY <4>1, <4>2
      <4> QED BY <3>4, <4>3, <4>4, <4>5, <4>6, Zenon DEF TablesInv
    <3>6. KeepsNames
      <4>1. \A u \in 1 .. userSeq : u \in UserIDs /\ u # userSeq + 1 BY <2>a
      <4>2. \A u \in 1 .. userSeq : name'[u] \in {name[u], None} BY <3>3, <4>1
      <4> QED BY <2>a, <3>0, <3>1, <4>2, Zenon DEF KeepsNames
    <3> QED BY <2>5, <3>5, <3>6, <1>AnswerStep, Zenon DEF CreateUser
  <2> QED BY <2>1, <2>2, <2>3, <2>4, <2>5
<1>Inductive. IInv /\ [Next]_vars => IInv'
  <2> SUFFICES ASSUME TablesInv, LocalsTyped, \A r \in Requests : LocalInv(r), [Next]_vars
               PROVE  TablesInv' /\ LocalsTyped' /\ \A s \in Requests : LocalInv(s)'
    <3>1. IInv' <=> TablesInv' /\ LocalsTyped' /\ \A r \in Requests : LocalInv(r)'
      BY Zenon DEF IInv, TypeOK, IDInv, LoginInv, TablesInv, TablesTyped, LocalsTyped, LocalInv, Labels
    <3> QED BY <3>1, Split
  <2>1. CASE UNCHANGED <<tables, locals, owner>> /\ clock' \in 0 .. MaxTime
    BY <2>1, Zenon DEF tables, locals, TablesInv, TablesTyped, LocalsTyped, LocalInv, SessionsOwned, SessionsKeepOwner
  <2>2. CASE Tick
    <3>1. clock' \in 0 .. MaxTime BY <2>2, BoundAssumption DEF Tick, TablesInv, TablesTyped
    <3> QED BY <2>1, <2>2, <3>1 DEF Tick
  <2>3. ASSUME NEW r \in Requests, NEW t \in Tokens, Logout(r, t)
        PROVE  TablesInv' /\ LocalsTyped' /\ \A s \in Requests : LocalInv(s)'
    <3>1. \A v \in Tokens : sessUser'[v] \in {0, sessUser[v]}
      BY <2>3 DEF Logout, TablesInv, TablesTyped
    <3>2. TablesTyped' BY <2>3, BoundAssumption DEF Logout, TablesInv, TablesTyped
    <3>3. UNCHANGED <<name, userSeq, owner>> BY <2>3 DEF Logout
    <3>4. \A v \in Tokens : sessUser'[v] <= userSeq'
      <4>1. 0 <= userSeq /\ \A v \in Tokens : sessUser[v] <= userSeq BY BoundAssumption DEF TablesInv, TablesTyped
      <4> QED BY <3>1, <3>3, <4>1
    <3>5. SessionsOwned' BY <3>1, <3>3, Zenon DEF TablesInv, SessionsOwned
    <3>6. SessionsKeepOwner' BY <3>1, <3>3 DEF TablesInv, SessionsKeepOwner
    <3>7. TablesInv' BY <3>2, <3>3, <3>4, <3>5, <3>6, Zenon DEF TablesInv
    <3> QED BY <2>3, <3>7 DEF Logout, locals, LocalsTyped, LocalInv
  <2>4. CASE UNCHANGED vars
    BY <2>1, <2>4 DEF vars, TablesInv, TablesTyped
  <2> QED BY <2>2, <2>3, <2>4, <1>ReadingStep, <1>WritingStep DEF Next, Handle, Receive
<1> QED
    BY <1>Inductive

(* The first admin, and no session or request yet.                         *)
LEMMA Initial == Init => IInv
<1> SUFFICES ASSUME Init PROVE IInv OBVIOUS
<1>1. PICK n \in Names : name = [u \in UserIDs |-> IF u = 1 THEN n ELSE None] BY DEF Init
<1>2. \A u \in UserIDs : u > 1 => name[u] = None BY <1>1 DEF UserIDs
<1>3. 0 \in 0 .. MaxTime /\ 0 \in 0 .. MaxUsers /\ 1 \in 0 .. MaxUsers /\ 0 \in 0 .. MaxSessions
  BY BoundAssumption
<1>4. name \in [UserIDs -> Names \cup {None}] BY <1>1
<1>5. TablesTyped BY <1>3, <1>4 DEF Init, TablesTyped, Roles
<1>6. LocalsTyped BY <1>3 DEF Init, LocalsTyped, Labels
<1>7. \A t \in Tokens : sessUser[t] = 0 BY DEF Init
<1>8. userSeq = 1 BY DEF Init
<1>9. TablesInv
  <2>1. \A t \in Tokens : sessUser[t] <= userSeq BY <1>7, <1>8
  <2>2. SessionsOwned /\ SessionsKeepOwner BY <1>7, Zenon DEF SessionsOwned, SessionsKeepOwner
  <2> QED BY <1>2, <1>5, <1>8, <2>1, <2>2 DEF TablesInv
<1>10. \A r \in Requests : pc[r] = "idle" BY DEF Init
<1>11. \A r \in Requests : LocalInv(r) BY <1>10 DEF LocalInv
<1> QED BY <1>6, <1>9, <1>11, Split

(* SessionsOwned for every behaviour: the foreign key and ON DELETE        *)
(* CASCADE leave no session without an account, however logins and         *)
(* deletions interleave (auth/session.go, store/users.go).                 *)
THEOREM SessionsAlwaysOwned == Spec => []SessionsOwned
<1>1. IInv => SessionsOwned BY DEF IInv
<1> QED BY <1>1, Initial, Inductive, PTL DEF Spec

(* SessionsKeepOwner for every behaviour: an id is never used twice, so a  *)
(* session is that of the person whose password Login has verified.        *)
THEOREM SessionsAlwaysKeepOwner == Spec => []SessionsKeepOwner
<1>1. IInv => SessionsKeepOwner BY DEF IInv
<1> QED BY <1>1, Initial, Inductive, PTL DEF Spec

(* TypeOK for every behaviour: in particular no request stores a role that *)
(* is neither admin nor standard (web/handlers_users.go).                  *)
THEOREM AlwaysTyped == Spec => []TypeOK
<1>1. IInv => TypeOK BY DEF IInv
<1> QED BY <1>1, Initial, Inductive, PTL DEF Spec

(***************************************************************************)
(* The parts of the invariant of WebClient.                                *)
(***************************************************************************)
Load == [n : Nat, control : Selections \cup Filter, status : {"sent", "served"},
         items : SUBSET Item]
Shown == [n : Nat, control : Selections \cup Filter, items : SUBSET Item]
Ack == [id : Alerts, n : Nat, status : {"sent", "served"}]
AckAll == [kind : Kinds \cup {""}, status : {"idle", "sent", "served", "reload"}, n : Nat]
Attempt == [op : Nat, n : Nat, right : BOOLEAN, res : Answers]

TabInv ==
    /\ page \in {"host", "alerts", "settings", "login"}
    /\ control \in Selections \cup Filter /\ (page = "alerts" => control \in Filter)
    /\ calls \in Nat /\ loads \subseteq Load /\ shown \in Shown
    /\ raised \in 0 .. Len(Kind) /\ acks \subseteq Ack /\ ackAll \in AckAll

FormInv ==
    /\ ops \in Seq(Op) /\ applied \in Seq(Nat) /\ Len(applied) = Len(ops)
    /\ modal \in BOOLEAN /\ reauths \subseteq Attempt
    /\ \A r \in reauths : r.op \in DOMAIN ops

(* The last call carries the choice, and is out or shown.                  *)
LoadInv ==
    /\ \A l \in loads : l.n <= calls /\ (l.n = calls => l.control = control)
    /\ shown.n <= calls
    /\ spoilt \cap {"reordered", "failed"} = {} =>
          \/ \E l \in loads : l.n = calls
          \/ shown.n = calls /\ shown.control = control

True(items) == \A item \in items : item.acked => item.id \in acked

(* What is on its way to the tab is as true as what is shown, and what is  *)
(* on its way to the server is meant.                                      *)
AckInv ==
    /\ acked \subseteq meant
    /\ True(shown.items) /\ \A l \in loads : True(l.items)
    /\ \A k \in acks : k.id \in meant /\ (k.status = "served" => k.id \in acked)
    /\ ackAll.status = "sent" => {a \in Alerts : ackAll.kind \in {"", Kind[a]}} \subseteq meant

(* An action o that has been carried out n times, after some faults.       *)
Honest(o, n, faults) ==
    /\ n \in {0, 1}
    /\ o.phase = "sent" => n = 0 /\ o.res = ""
    /\ o.phase = "served" => (n = 1 <=> o.res = "ok")
    /\ o.phase = "prompt" => n = 0 /\ o.try = 1
    /\ o.phase = "saved" => n = 1
    /\ o.phase = "cancelled" => n = 0
    /\ o.phase = "failed" /\ "lost" \notin faults => n = 0

OpInv == \A i \in DOMAIN ops : Honest(ops[i], applied[i], spoilt)

(* Without overlap one action waits at most, every password that is out    *)
(* was given to it, and it has the dialog.                                 *)
PromptInv ==
    "overlap" \notin spoilt =>
        /\ \A i, j \in Prompting : i = j
        /\ \A i \in Prompting, r \in reauths : r.op = i
        /\ page = "settings" /\ Prompting # {} => modal

(***************************************************************************)
(* Series: prune deletes nothing a tier is to keep, and only a range too   *)
(* long for the other tiers is read from the days.                         *)
(***************************************************************************)
SeriesInv ==
    /\ now \in Nat /\ cutoff \in [Tiers -> Int]
    /\ \A k \in Tiers : cutoff[k] <= 0 \/ cutoff[k] <= now - Keep[k]
    /\ range \in Nat \X Nat /\ range[2] <= now /\ tier \in Tiers
    /\ tier = "d1" => range[2] - range[1] > MaxSpan["h1"]

(* Whatever prunes fail or run late, hostSeries answers for any part of    *)
(* the last day from a tier that still has all of it, for any setting of   *)
(* how long the days are kept.                                             *)
THEOREM TheLastDayIsComplete == SeriesSpec => []LastDayComplete
(* prune never deletes what a tier is to keep.                             *)
<1>PruneKeeps.
    ASSUME SeriesInv, NEW failed, Prune(failed)
    PROVE  SeriesInv'
  <2> USE <1>PruneKeeps
  <2>1. Keep \in [Tiers -> Int]
      BY KeepAssumption
  <2>2. ASSUME NEW k \in Tiers
        PROVE  /\ cutoff'[k] \in Int
               /\ cutoff'[k] <= 0 \/ cutoff'[k] <= now - Keep[k]
    <3>1. cutoff[k] \in Int /\ now - Keep[k] \in Int
        BY <2>1 DEF SeriesInv
    <3>2. cutoff'[k] \in {cutoff[k], now - Keep[k]}
        BY DEF Prune, Later
    <3> QED
        BY <3>1, <3>2 DEF SeriesInv
  <2>3. cutoff' \in [Tiers -> Int]
    <3>1. cutoff' = [k \in Tiers |-> cutoff'[k]]
        BY DEF Prune
    <3> QED
        BY <2>2, <3>1
  <2> QED
      BY <2>2, <2>3 DEF SeriesInv, Prune
(* Every step keeps that.                                                  *)
<1>NextSeriesInv. SeriesInv /\ [SeriesNext]_seriesVars => SeriesInv'
  <2> SUFFICES ASSUME SeriesInv, [SeriesNext]_seriesVars PROVE SeriesInv'
      OBVIOUS
  <2>1. CASE Advance
    <3>1. Keep \in [Tiers -> Int] /\ "raw" \in Tiers
        BY KeepAssumption DEF Tiers
    <3>2. now' = now + 1 /\ cutoff' = cutoff /\ range' = <<0, 0>> /\ tier' = "raw"
        BY <2>1 DEF Advance
    <3>3. range' \in Nat \X Nat /\ range'[2] <= now' /\ tier' # "d1"
        BY <3>2 DEF SeriesInv
    <3>4. \A k \in Tiers : cutoff'[k] <= 0 \/ cutoff'[k] <= now' - Keep[k]
        BY <3>1, <3>2 DEF SeriesInv
    <3> QED
        BY <3>1, <3>2, <3>3, <3>4 DEF SeriesInv
  <2>2. CASE \E failed \in SUBSET Tiers : Prune(failed)
      BY <2>2, <1>PruneKeeps
  <2>3. CASE \E from, to \in 0 .. now : HostSeries(from, to)
    <3>1. PICK from, to \in 0 .. now : HostSeries(from, to)
        BY <2>3
    <3>2. ChooseTier(from, to) \in Tiers
        BY DEF ChooseTier, Tiers
    <3>3. ChooseTier(from, to) = "d1" => ~(to - from <= MaxSpan["h1"])
        BY DEF ChooseTier
    <3>4. MaxSpan["h1"] \in Nat /\ now \in Nat
        BY KeepAssumption DEF SeriesInv, Tiers
    <3>5. range' = <<from, to>> /\ tier' = ChooseTier(from, to) /\ UNCHANGED <<now, cutoff>>
        BY <3>1 DEF HostSeries
    <3> QED
        BY <3>2, <3>3, <3>4, <3>5 DEF SeriesInv
  <2>4. CASE UNCHANGED seriesVars
      BY <2>4 DEF seriesVars, SeriesInv
  <2> QED
      BY <2>1, <2>2, <2>3, <2>4 DEF SeriesNext
(* What the other tiers have deleted is older than the day the flows are   *)
(* kept, and the days are not read for a part of it.                       *)
<1>NoHoles. SeriesInv => LastDayComplete
  <2> SUFFICES ASSUME SeriesInv, range[1] >= now - Keep["raw"],
                      NEW t \in range[1] .. range[2], ~Held(tier, t)
               PROVE  FALSE
      BY DEF LastDayComplete, Holes
  <2>1. Keep["raw"] \in Nat /\ MaxSpan["h1"] \in Nat /\ Keep["raw"] <= MaxSpan["h1"]
      BY KeepAssumption DEF Tiers
  <2>2. range[1] \in Nat /\ range[2] \in Nat /\ range[2] <= now /\ now \in Nat
      BY DEF SeriesInv
  <2>3. tier # "d1"
      BY <2>1, <2>2 DEF SeriesInv
  <2>4. tier \in Tiers /\ Keep[tier] \in Int /\ Keep["raw"] <= Keep[tier]
      BY <2>1, <2>3, KeepAssumption DEF SeriesInv, Tiers
  <2>5. cutoff[tier] \in Int /\ (cutoff[tier] <= 0 \/ cutoff[tier] <= now - Keep[tier])
      BY <2>4 DEF SeriesInv
  <2>6. ~(t >= cutoff[tier])
      BY DEF Held
  <2> QED
      BY <2>1, <2>2, <2>4, <2>5, <2>6
<1>TheLastDayIsComplete. SeriesSpec => []LastDayComplete
  <2>1. SeriesInit => SeriesInv
      BY DEF SeriesInit, SeriesInv, Tiers
  <2> QED
      BY <2>1, <1>NextSeriesInv, <1>NoHoles, PTL DEF SeriesSpec
<1> QED
    BY <1>TheLastDayIsComplete

(***************************************************************************)
(* WebClient: the steps, by what they change.                              *)
(***************************************************************************)
ListStep ==
    \/ \E c \in Controls : SetControl(c)
    \/ \E l \in loads : ServeLoad(l) \/ LoadAnswered(l)
                        \/ LoadFails(l) \/ LoadUnauthenticated(l)
AlertStep ==
    \/ InsertAlert
    \/ \E a \in Alerts : ClickAck(a)
    \/ \E k \in acks : AcknowledgeAlert(k) \/ AckAnswered(k) \/ AckFails(k)
    \/ ConfirmAckAll \/ ServeAckAll \/ AckAllAnswered \/ AckAllFails
FormStep ==
    \/ Submit
    \/ \E i \in DOMAIN ops : PutSettings(i) \/ PutAnswered(i) \/ PutLost(i)
    \/ \E n \in 1 .. MaxPasswords, right \in BOOLEAN : SubmitPassword(n, right)
    \/ \E r \in reauths : ServeReauth(r) \/ ReauthAnswered(r)
    \/ OnCancel \/ Expire

(* These are all the steps.                                                *)
LEMMA Steps == WebNext => ListStep \/ AlertStep \/ FormStep
BY Zenon DEF WebNext, ListStep, AlertStep, FormStep

(* Loading leaves the alerts and the forms alone.                          *)
LEMMA ListFrame ==
    ASSUME ListStep
    PROVE  /\ UNCHANGED <<alerting, saving>>
           /\ page' = page \/ page' = "login"
           /\ "lost" \in spoilt' <=> "lost" \in spoilt
           /\ "overlap" \in spoilt' <=> "overlap" \in spoilt
<1>1. CASE \E c \in Controls : SetControl(c)
    BY <1>1 DEF SetControl
<1>2. ASSUME NEW l \in loads, ServeLoad(l) PROVE UNCHANGED <<alerting, saving, page, spoilt>>
    BY <1>2 DEF ServeLoad
<1>3. ASSUME NEW l \in loads, LoadAnswered(l)
      PROVE  /\ UNCHANGED <<alerting, saving, page>>
             /\ spoilt' \in {spoilt, spoilt \cup {"reordered"}}
    BY <1>3 DEF LoadAnswered
<1>4. ASSUME NEW l \in loads, LoadFails(l)
      PROVE  UNCHANGED <<alerting, saving, page>> /\ spoilt' = spoilt \cup {"failed"}
    BY <1>4 DEF LoadFails
<1>5. ASSUME NEW l \in loads, LoadUnauthenticated(l)
      PROVE  /\ UNCHANGED <<alerting, saving>> /\ page' = "login"
             /\ spoilt' = spoilt \cup {"failed"}
    BY <1>5 DEF LoadUnauthenticated
<1> QED
    BY <1>1, <1>2, <1>3, <1>4, <1>5 DEF ListStep

(* Acknowledging leaves the page and the forms alone.                      *)
LEMMA AlertFrame ==
    ASSUME AlertStep
    PROVE  UNCHANGED <<saving, page, control, spoilt>>
<1>1. CASE InsertAlert
    BY <1>1 DEF InsertAlert, listed
<1>2. ASSUME NEW a \in Alerts, ClickAck(a) PROVE UNCHANGED <<saving, page, control, spoilt>>
    BY <1>2 DEF ClickAck, listed
<1>3. ASSUME NEW k \in acks, AcknowledgeAlert(k) \/ AckAnswered(k) \/ AckFails(k)
      PROVE  UNCHANGED <<saving, page, control, spoilt>>
    BY <1>3 DEF AcknowledgeAlert, AckAnswered, AckFails, listed
<1>4. CASE ConfirmAckAll \/ ServeAckAll
    BY <1>4, Zenon DEF ConfirmAckAll, ServeAckAll, listed
<1>5. CASE AckAllAnswered \/ AckAllFails
    BY <1>5 DEF AckAllAnswered, AckAllFails, listed
<1> QED
    BY <1>1, <1>2, <1>3, <1>4, <1>5 DEF AlertStep

(* The forms leave the lists and the alerts alone.                         *)
LEMMA FormFrame ==
    ASSUME FormStep
    PROVE  /\ UNCHANGED <<listed, alerting>>
           /\ page' = page \/ page' = "login"
           /\ spoilt \subseteq spoilt'
           /\ spoilt' \cap {"reordered", "failed"} = spoilt \cap {"reordered", "failed"}
<1>1. CASE Submit
    BY <1>1, Zenon DEF Submit
<1>2. ASSUME NEW i \in DOMAIN ops, PutSettings(i) PROVE UNCHANGED <<listed, alerting, page, spoilt>>
    BY <1>2 DEF PutSettings
<1>3. ASSUME NEW i \in DOMAIN ops, PutAnswered(i)
      PROVE  /\ UNCHANGED <<listed, alerting, page>>
             /\ spoilt' \in {spoilt, spoilt \cup {"overlap"}}
    BY <1>3 DEF PutAnswered
<1>4. ASSUME NEW i \in DOMAIN ops, PutLost(i)
      PROVE  /\ UNCHANGED <<listed, alerting, page>>
             /\ spoilt' \in {spoilt, spoilt \cup {"lost"}}
    BY <1>4 DEF PutLost
<1>5. ASSUME NEW n, NEW right, SubmitPassword(n, right)
      PROVE  UNCHANGED <<listed, alerting, page, spoilt>>
    BY <1>5, Zenon DEF SubmitPassword
<1>6. ASSUME NEW r \in reauths, ServeReauth(r) \/ ReauthAnswered(r)
      PROVE  UNCHANGED <<listed, alerting, spoilt>> /\ (page' = page \/ page' = "login")
    BY <1>6, Zenon DEF ServeReauth, ReauthAnswered
<1>7. CASE OnCancel \/ Expire
    BY <1>7 DEF OnCancel, Expire
<1> QED
    BY <1>1, <1>2, <1>3, <1>4, <1>5, <1>6, <1>7 DEF FormStep

(***************************************************************************)
(* The list and the graph.                                                 *)
(***************************************************************************)

(* The ids of the alerts are numbers.                                      *)
LEMMA AlertIds ==
    ASSUME TabInv
    PROVE  Alerts = 1 .. Len(Kind) /\ Len(Kind) \in Nat /\ 1 .. raised \subseteq Alerts
<1>1. Alerts = 1 .. Len(Kind) /\ Len(Kind) \in Nat
    BY WebAssumption DEF Alerts
<1> QED
    BY <1>1 DEF TabInv

(* The server lists alerts as they are.                                    *)
LEMMA ListedItems ==
    ASSUME TabInv, NEW f, NEW item \in ListAlerts(f)
    PROVE  item \in Item /\ (item.acked => item.id \in acked)
<1>1. PICK a \in 1 .. raised : item = [id |-> a, acked |-> a \in acked]
    BY Zenon DEF ListAlerts
<1>2. a \in Alerts
    BY AlertIds
<1>3. (a \in acked) \in BOOLEAN
    OBVIOUS
<1>4. item \in Item
    BY <1>1, <1>2, <1>3, Zenon DEF Item
<1>5. item.id = a /\ (item.acked <=> a \in acked)
    BY <1>1, Zenon
<1> QED
    BY <1>4, <1>5

(* A call of load with a choice.                                           *)
LEMMA CallIsLoad ==
    ASSUME NEW n \in Nat, NEW c \in Selections \cup Filter
    PROVE  /\ Call(n, c) \in Load /\ Call(n, c).n = n /\ Call(n, c).control = c
           /\ Call(n, c).items = {}
BY Zenon DEF Call, Load

(* Whatever can be chosen on the page.                                     *)
LEMMA ControlsAre ==
    ASSUME page \in {"host", "alerts"}, NEW c \in Controls
    PROVE  c \in Selections \cup Filter /\ (page = "alerts" => c \in Filter)
BY DEF Controls

(* An answer on its way.                                                   *)
LEMMA ServedLoad ==
    ASSUME TabInv, NEW l \in loads, ServeLoad(l)
    PROVE  \E m \in Load : /\ loads' = (loads \ {l}) \cup {m}
                           /\ m.n = l.n /\ m.control = l.control
                           /\ m.items = {} \/ m.items = ListAlerts(l.control)
<1> DEFINE items == IF page = "alerts" THEN ListAlerts(l.control) ELSE {}
           m == [l EXCEPT !.status = "served", !.items = items]
<1>1. items \subseteq Item /\ (items = {} \/ items = ListAlerts(l.control))
    BY ListedItems, Zenon
<1>2. loads' = (loads \ {l}) \cup {m}
    BY DEF ServeLoad
<1> HIDE DEF items
<1>3. l \in Load
    BY DEF TabInv
<1>4. m \in Load /\ m.n = l.n /\ m.control = l.control /\ m.items = items
    BY <1>1, <1>3, Zenon DEF Load
<1> QED
    BY <1>1, <1>2, <1>4, Zenon

(* A marked item is an item.                                               *)
LEMMA MarkedShown ==
    ASSUME TabInv, NEW k \in acks
    PROVE  /\ [shown EXCEPT !.items = Marked(@, k.id)] \in Shown
           /\ [shown EXCEPT !.items = Marked(@, k.id)].n = shown.n
           /\ [shown EXCEPT !.items = Marked(@, k.id)].control = shown.control
           /\ [shown EXCEPT !.items = Marked(@, k.id)].items = Marked(shown.items, k.id)
<1>1. k.id \in Alerts /\ shown \in Shown
    BY DEF TabInv, Ack
<1>2. [id |-> k.id, acked |-> TRUE] \in Item
    BY <1>1 DEF Item
<1>3. Marked(shown.items, k.id) \subseteq Item
    BY <1>1, <1>2, Zenon DEF Marked, Shown
<1> QED
    BY <1>1, <1>3 DEF Shown

(* So they are kept by every step.                                         *)
LEMMA NextTabInv == TabInv /\ [WebNext]_webVars => TabInv'
(* The types of the lists after a step that loads.                         *)
<1>ListTabInv. TabInv /\ ListStep => TabInv'
  <2> SUFFICES ASSUME TabInv, ListStep PROVE TabInv'
      OBVIOUS
  <2>1. UNCHANGED <<raised, acks, ackAll>> /\ (page' = page \/ page' = "login")
      BY ListFrame DEF alerting
  <2>2. CASE \E c \in Controls : SetControl(c)
    <3>1. PICK c \in Controls : SetControl(c)
        BY <2>2
    <3>2. c \in Selections \cup Filter /\ (page = "alerts" => c \in Filter)
        BY <3>1, ControlsAre DEF SetControl
    <3>3. calls + 1 \in Nat
        BY DEF TabInv
    <3>4. Call(calls + 1, c) \in Load
        BY <3>2, <3>3, CallIsLoad
    <3> QED
        BY <2>1, <3>1, <3>2, <3>3, <3>4 DEF SetControl, TabInv
  <2>3. ASSUME NEW l \in loads, ServeLoad(l) PROVE TabInv'
    <3>1. loads' \subseteq Load
        BY <2>3, ServedLoad DEF TabInv
    <3> QED
        BY <2>1, <2>3, <3>1 DEF ServeLoad, TabInv
  <2>4. ASSUME NEW l \in loads, LoadAnswered(l) PROVE TabInv'
    <3>1. l \in Load
        BY DEF TabInv
    <3>2. Render(l) \in Shown
        BY <3>1 DEF Render, Load, Shown
    <3> QED
        BY <2>1, <2>4, <3>2 DEF LoadAnswered, TabInv
  <2>5. ASSUME NEW l \in loads, LoadFails(l) PROVE TabInv'
      BY <2>1, <2>5 DEF LoadFails, TabInv
  <2>6. ASSUME NEW l \in loads, LoadUnauthenticated(l) PROVE TabInv'
    <3>1. [shown EXCEPT !.items = {}] \in Shown
        BY DEF TabInv, Shown
    <3> QED
        BY <2>1, <2>6, <3>1 DEF LoadUnauthenticated, TabInv
  <2> QED
      BY <2>2, <2>3, <2>4, <2>5, <2>6 DEF ListStep
(* And after a step that acknowledges.                                     *)
<1>AlertTabInv. TabInv /\ AlertStep => TabInv'
  <2> SUFFICES ASSUME TabInv, AlertStep PROVE TabInv'
      OBVIOUS
  <2>1. UNCHANGED <<page, control>>
      BY AlertFrame
  <2>2. CASE InsertAlert
    <3>1. raised' \in 0 .. Len(Kind)
        BY <2>2, AlertIds DEF InsertAlert, TabInv
    <3> QED
        BY <2>1, <2>2, <3>1 DEF InsertAlert, TabInv, listed
  <2>3. ASSUME NEW a \in Alerts, ClickAck(a) PROVE TabInv'
    <3>1. [id |-> a, n |-> shown.n, status |-> "sent"] \in Ack
        BY DEF TabInv, Ack, Shown
    <3> QED
        BY <2>1, <2>3, <3>1, Zenon DEF ClickAck, TabInv, listed
  <2>4. ASSUME NEW k \in acks, AcknowledgeAlert(k) PROVE TabInv'
    <3>1. [k EXCEPT !.status = "served"] \in Ack
        BY DEF TabInv, Ack
    <3> QED
        BY <2>1, <2>4, <3>1 DEF AcknowledgeAlert, TabInv, listed
  <2>5. ASSUME NEW k \in acks, AckAnswered(k) PROVE TabInv'
    <3>1. shown' \in Shown
        BY <2>5, MarkedShown DEF AckAnswered, TabInv
    <3> QED
        BY <2>1, <2>5, <3>1 DEF AckAnswered, TabInv
  <2>6. ASSUME NEW k \in acks, AckFails(k) PROVE TabInv'
      BY <2>1, <2>6 DEF AckFails, TabInv, listed
  <2>7. CASE ConfirmAckAll
    <3>1. control.kind \in Kinds \cup {""}
        BY <2>7, Zenon DEF ConfirmAckAll, TabInv, Filter
    <3>2. [kind |-> control.kind, status |-> "sent", n |-> 0] \in AckAll
        BY <3>1, Zenon DEF AckAll
    <3> QED
        BY <2>1, <2>7, <3>2, Zenon DEF ConfirmAckAll, TabInv, listed
  <2>8. CASE ServeAckAll
    <3>1. [ackAll EXCEPT !.status = "served"] \in AckAll
        BY Zenon DEF TabInv, AckAll
    <3> QED
        BY <2>1, <2>8, <3>1 DEF ServeAckAll, TabInv, listed
  <2>9. CASE AckAllAnswered
    <3>1. calls + 1 \in Nat
        BY DEF TabInv
    <3>2. Call(calls + 1, control) \in Load
        BY <3>1, CallIsLoad, Zenon DEF TabInv
    <3>3. [Idle EXCEPT !.status = "reload", !.n = calls + 1] \in AckAll
        BY <3>1, Zenon DEF Idle, AckAll
    <3> QED
        BY <2>1, <2>9, <3>1, <3>2, <3>3 DEF AckAllAnswered, TabInv
  <2>10. CASE AckAllFails
    <3>1. Idle \in AckAll
        BY DEF Idle, AckAll
    <3> QED
        BY <2>1, <2>10, <3>1 DEF AckAllFails, TabInv, listed
  <2> QED
      BY <2>2, <2>3, <2>4, <2>5, <2>6, <2>7, <2>8, <2>9, <2>10 DEF AlertStep
<1>NextTabInv. TabInv /\ [WebNext]_webVars => TabInv'
  <2> SUFFICES ASSUME TabInv, [WebNext]_webVars PROVE TabInv'
      OBVIOUS
  <2>1. CASE FormStep
      BY <2>1, FormFrame DEF TabInv, listed, alerting
  <2>2. CASE UNCHANGED webVars
      BY <2>2 DEF TabInv, webVars
  <2> QED
      BY <2>1, <2>2, Steps, <1>ListTabInv, <1>AlertTabInv
<1> QED
    BY <1>NextTabInv

(* Each page starts with its call out, or needs none.                      *)
LEMMA InitTab == WebInit => TabInv /\ LoadInv /\ AckInv
<1> SUFFICES ASSUME WebInit PROVE TabInv /\ LoadInv /\ AckInv
    OBVIOUS
<1>1. NoFilter \in Filter
    BY DEF NoFilter, Filter
<1>2. control \in Selections \cup Filter /\ (page = "alerts" => control \in Filter)
    BY <1>1 DEF WebInit
<1>3. calls \in {0, 1} /\ \A n \in 1 .. calls : n = calls /\ n \in Nat
    BY DEF WebInit
<1>4. /\ loads \subseteq Load
      /\ \A l \in loads : l.n = calls /\ l.control = control /\ l.items = {}
  <2>1. loads = {Call(n, control) : n \in 1 .. calls}
      BY Zenon DEF WebInit
  <2>2. ASSUME NEW n \in 1 .. calls
        PROVE  /\ Call(n, control) \in Load /\ Call(n, control).n = calls
               /\ Call(n, control).control = control /\ Call(n, control).items = {}
    <3>1. n = calls /\ n \in Nat
        BY <1>3, Zenon
    <3> QED
        BY <1>2, <3>1, CallIsLoad, Zenon
  <2> QED
      BY <2>1, <2>2, Zenon
<1>5. shown \in Shown /\ shown.n = 0 /\ shown.control = control /\ shown.items = {}
    BY <1>2, Zenon DEF WebInit, Shown
<1>6. Len(Kind) \in Nat /\ Idle \in AckAll /\ Idle.status = "idle"
    BY WebAssumption DEF Idle, AckAll
<1>7. TabInv
  <2>1. calls \in Nat /\ 0 \in 0 .. Len(Kind)
      BY <1>3, <1>6
  <2> QED
      BY <2>1, <1>2, <1>4, <1>5, <1>6, Zenon DEF WebInit, TabInv
<1>8. calls = 1 => \E l \in loads : l.n = calls
  <2> SUFFICES ASSUME calls = 1 PROVE Call(1, control) \in loads
      BY <1>4
  <2>1. 1 \in 1 .. calls
      OBVIOUS
  <2>2. loads = {Call(n, control) : n \in 1 .. calls}
      BY DEF WebInit
  <2> QED
      BY <2>1, <2>2, Zenon
<1>9. LoadInv
    BY <1>3, <1>4, <1>5, <1>8 DEF LoadInv
<1>10. AckInv
    BY <1>4, <1>5, <1>6, Zenon DEF WebInit, AckInv, True
<1> QED
    BY <1>7, <1>9, <1>10

(* When no call is out and no answer was overtaken or failed, the tab      *)
(* shows the range or filter chosen last, for any number of choices.       *)
THEOREM TheChoiceIsShown == WebSpec => []ShownIsCurrent
(* A new call carries the choice.                                          *)
<1>CalledAgain.
    ASSUME TabInv, TabInv', LoadInv, calls' = calls + 1, control' \in Selections \cup Filter,
           loads' = loads \cup {Call(calls + 1, control')}, shown' = shown
    PROVE  LoadInv'
  <2> USE <1>CalledAgain
  <2>1. calls \in Nat /\ shown.n \in Nat /\ \A l \in loads : l.n \in Nat
      BY DEF TabInv, Load, Shown
  <2>2. Call(calls + 1, control').n = calls + 1 /\ Call(calls + 1, control').control = control'
    <3>1. PICK n \in Nat : n = calls + 1
        BY <2>1
    <3>2. PICK c \in Selections \cup Filter : c = control'
        BY Zenon
    <3>3. Call(n, c).n = n /\ Call(n, c).control = c
        BY CallIsLoad, Zenon
    <3> QED
        BY <3>1, <3>2, <3>3, Zenon
  <2>3. \A l \in loads : l.n <= calls' /\ l.n # calls'
      BY <2>1 DEF LoadInv
  <2>4. \A l \in loads' : l.n <= calls' /\ (l.n = calls' => l.control = control')
      BY <2>1, <2>2, <2>3
  <2>5. \E l \in loads' : l.n = calls'
      BY <2>2
  <2>6. shown'.n <= calls'
      BY <2>1 DEF LoadInv
  <2> QED
      BY <2>4, <2>5, <2>6 DEF LoadInv
(* Loading keeps the last call out or shown.                               *)
<1>ListLoadInv. TabInv /\ TabInv' /\ LoadInv /\ ListStep => LoadInv'
  <2> SUFFICES ASSUME TabInv, TabInv', LoadInv, ListStep PROVE LoadInv'
      OBVIOUS
  <2>1. calls \in Nat /\ shown.n \in Nat /\ \A l \in loads : l.n \in Nat
      BY DEF TabInv, Load, Shown
  <2>2. CASE \E c \in Controls : SetControl(c)
    <3>1. PICK c \in Controls : SetControl(c)
        BY <2>2
    <3>2. /\ control' = c /\ calls' = calls + 1 /\ shown' = shown
          /\ loads' = loads \cup {Call(calls + 1, c)}
        BY <3>1 DEF SetControl
    <3>3. c \in Selections \cup Filter
        BY <3>1, ControlsAre DEF SetControl
    <3> QED
        BY <3>2, <3>3, <1>CalledAgain
  <2>3. ASSUME NEW l \in loads, ServeLoad(l) PROVE LoadInv'
    <3>1. PICK m \in Load : /\ loads' = (loads \ {l}) \cup {m}
                            /\ m.n = l.n /\ m.control = l.control
        BY <2>3, ServedLoad
    <3>2. UNCHANGED <<control, calls, shown, spoilt>>
        BY <2>3 DEF ServeLoad
    <3>3. \A k \in loads' : k.n <= calls /\ (k.n = calls => k.control = control)
        BY <3>1 DEF LoadInv
    <3>4. (\E k \in loads : k.n = calls) => \E k \in loads' : k.n = calls
        BY <3>1
    <3> QED
        BY <3>2, <3>3, <3>4 DEF LoadInv
  <2>4. ASSUME NEW l \in loads, LoadAnswered(l) PROVE LoadInv'
    <3>1. /\ loads' = loads \ {l} /\ shown' = Render(l) /\ UNCHANGED <<control, calls>>
          /\ spoilt' = spoilt \cup (IF l.n < shown.n THEN {"reordered"} ELSE {})
        BY <2>4 DEF LoadAnswered
    <3>2. shown'.n = l.n /\ shown'.control = l.control
        BY <3>1 DEF Render
    <3>3. l.n <= calls /\ (l.n = calls => l.control = control)
        BY DEF LoadInv
    <3>4. ASSUME spoilt' \cap {"reordered", "failed"} = {}
          PROVE  (\E k \in loads' : k.n = calls) \/ l.n = calls
      <4>1. ~(l.n < shown.n) /\ spoilt \cap {"reordered", "failed"} = {}
          BY <3>1, <3>4
      <4>2. CASE \E k \in loads : k.n = calls
          BY <3>1, <4>2
      <4>3. CASE shown.n = calls
          BY <2>1, <3>3, <4>1, <4>3
      <4> QED
          BY <4>1, <4>2, <4>3 DEF LoadInv
    <3> QED
        BY <3>1, <3>2, <3>3, <3>4, Zenon DEF LoadInv
  <2>5. ASSUME NEW l \in loads, LoadFails(l) PROVE LoadInv'
    <3>1. loads' \subseteq loads /\ UNCHANGED <<control, calls, shown>> /\ "failed" \in spoilt'
        BY <2>5 DEF LoadFails
    <3> QED
        BY <3>1 DEF LoadInv
  <2>6. ASSUME NEW l \in loads, LoadUnauthenticated(l) PROVE LoadInv'
    <3>1. /\ loads' = {} /\ UNCHANGED <<control, calls>> /\ "failed" \in spoilt'
          /\ shown' = [shown EXCEPT !.items = {}]
        BY <2>6 DEF LoadUnauthenticated
    <3>2. shown'.n = shown.n
        BY <3>1 DEF TabInv, Shown
    <3> QED
        BY <3>1, <3>2 DEF LoadInv
  <2> QED
      BY <2>2, <2>3, <2>4, <2>5, <2>6 DEF ListStep
(* And so does acknowledging, which may load the list again.               *)
<1>AlertLoadInv. TabInv /\ TabInv' /\ LoadInv /\ AlertStep => LoadInv'
  <2> SUFFICES ASSUME TabInv, TabInv', LoadInv, AlertStep PROVE LoadInv'
      OBVIOUS
  <2>1. UNCHANGED <<control, spoilt>>
      BY AlertFrame
  <2>2. CASE UNCHANGED listed
      BY <2>1, <2>2 DEF LoadInv, listed
  <2>3. ASSUME NEW k \in acks, AckAnswered(k) PROVE LoadInv'
    <3>1. shown'.n = shown.n /\ shown'.control = shown.control
        BY <2>3, MarkedShown DEF AckAnswered
    <3> QED
        BY <2>1, <2>3, <3>1 DEF AckAnswered, LoadInv
  <2>4. CASE AckAllAnswered
    <3>1. /\ calls' = calls + 1 /\ control' = control /\ shown' = shown
          /\ loads' = loads \cup {Call(calls + 1, control')}
        BY <2>4 DEF AckAllAnswered
    <3> QED
        BY <3>1, <1>CalledAgain DEF TabInv
  <2>5. (\E k \in acks : AckAnswered(k)) \/ AckAllAnswered \/ UNCHANGED listed
    <3>1. ASSUME NEW a \in Alerts, ClickAck(a) PROVE UNCHANGED listed
        BY <3>1, Zenon DEF ClickAck
    <3>2. ASSUME NEW k \in acks, AcknowledgeAlert(k) \/ AckFails(k) PROVE UNCHANGED listed
        BY <3>2 DEF AcknowledgeAlert, AckFails
    <3>3. InsertAlert \/ ConfirmAckAll \/ ServeAckAll \/ AckAllFails => UNCHANGED listed
        BY Zenon DEF InsertAlert, ConfirmAckAll, ServeAckAll, AckAllFails
    <3> QED
        BY <3>1, <3>2, <3>3 DEF AlertStep
  <2> QED
      BY <2>2, <2>3, <2>4, <2>5
(* Every step does.                                                        *)
<1>NextLoadInv. TabInv /\ TabInv' /\ LoadInv /\ [WebNext]_webVars => LoadInv'
  <2> SUFFICES ASSUME TabInv, TabInv', LoadInv, [WebNext]_webVars PROVE LoadInv'
      OBVIOUS
  <2>1. CASE FormStep
      BY <2>1, FormFrame DEF LoadInv, listed
  <2>2. CASE UNCHANGED webVars
      BY <2>2, Zenon DEF LoadInv, webVars
  <2> QED
      BY <2>1, <2>2, Steps, <1>ListLoadInv, <1>AlertLoadInv
<1>TheChoiceIsShown. WebSpec => []ShownIsCurrent
  <2>1. LoadInv => ShownIsCurrent
      BY DEF LoadInv, ShownIsCurrent
  <2> QED
      BY <2>1, InitTab, NextTabInv, <1>NextLoadInv, PTL DEF WebSpec
<1> QED
    BY <1>TheChoiceIsShown

(***************************************************************************)
(* Acknowledging.                                                          *)
(***************************************************************************)

(* An alert that the list shows as acknowledged is so in the database, and *)
(* none is that was not clicked or of a kind that was confirmed, for any   *)
(* alerts, calls and order of the answers.                                 *)
THEOREM AcknowledgementsAreTrue == WebSpec => []AcksAreTrue
(* Loading renders and brings only what is true.                           *)
<1>ListAckInv. TabInv /\ AckInv /\ ListStep => AckInv'
  <2> SUFFICES ASSUME TabInv, AckInv, ListStep PROVE AckInv'
      OBVIOUS
  <2>1. UNCHANGED <<raised, acked, acks, ackAll, meant>>
      BY ListFrame DEF alerting
  <2>2. True(shown.items) /\ \A l \in loads : True(l.items)
      BY Zenon DEF AckInv
  <2>3. True({}) /\ \A f : True(ListAlerts(f))
      BY ListedItems DEF True
  <2>4. SUFFICES True(shown'.items) /\ \A l \in loads' : True(l.items)
      BY <2>1, Zenon DEF AckInv, True
  <2>5. CASE \E c \in Controls : SetControl(c)
    <3>1. PICK c \in Controls : SetControl(c)
        BY <2>5
    <3>2. Call(calls + 1, c).items = {}
        BY DEF Call
    <3> QED
        BY <2>2, <2>3, <3>1, <3>2, Zenon DEF SetControl
  <2>6. ASSUME NEW l \in loads, ServeLoad(l)
        PROVE  True(shown'.items) /\ \A k \in loads' : True(k.items)
    <3>1. PICK m \in Load : /\ loads' = (loads \ {l}) \cup {m}
                            /\ m.items = {} \/ m.items = ListAlerts(l.control)
        BY <2>6, ServedLoad, Zenon
    <3> QED
        BY <2>2, <2>3, <2>6, <3>1 DEF ServeLoad
  <2>7. ASSUME NEW l \in loads, LoadAnswered(l)
        PROVE  True(shown'.items) /\ \A k \in loads' : True(k.items)
      BY <2>2, <2>7, Zenon DEF LoadAnswered, Render
  <2>8. ASSUME NEW l \in loads, LoadFails(l)
        PROVE  True(shown'.items) /\ \A k \in loads' : True(k.items)
      BY <2>2, <2>8, Zenon DEF LoadFails
  <2>9. ASSUME NEW l \in loads, LoadUnauthenticated(l)
        PROVE  True(shown'.items) /\ \A k \in loads' : True(k.items)
    <3>1. shown'.items = {}
        BY <2>9 DEF LoadUnauthenticated, TabInv, Shown
    <3> QED
        BY <2>3, <2>9, <3>1 DEF LoadUnauthenticated
  <2> QED
      BY <2>5, <2>6, <2>7, <2>8, <2>9, Zenon DEF ListStep
(* The buttons acknowledge what was meant, and mark what has been          *)
(* acknowledged.                                                           *)
<1>AlertAckInv. TabInv /\ AckInv /\ AlertStep => AckInv'
  <2> SUFFICES ASSUME TabInv, AckInv, AlertStep PROVE AckInv'
      OBVIOUS
  <2>1. CASE InsertAlert
      BY <2>1, Zenon DEF InsertAlert, listed, AckInv, True
  <2>2. ASSUME NEW a \in Alerts, ClickAck(a) PROVE AckInv'
    <3> DEFINE k0 == [id |-> a, n |-> shown.n, status |-> "sent"]
    <3>1. k0.id = a /\ k0.status = "sent"
        OBVIOUS
    <3>2. acks' = acks \cup {k0} /\ meant' = meant \cup {a} /\ UNCHANGED <<shown, loads, acked, ackAll>>
        BY <2>2, Zenon DEF ClickAck, listed
    <3> HIDE DEF k0
    <3> QED
        BY <3>1, <3>2, Zenon DEF AckInv, True
  <2>3. ASSUME NEW k \in acks, AcknowledgeAlert(k) PROVE AckInv'
    <3> DEFINE k1 == [k EXCEPT !.status = "served"]
    <3>1. k1.id = k.id
        BY DEF TabInv, Ack
    <3>2. /\ acks' = (acks \ {k}) \cup {k1} /\ acked' = acked \cup {k.id}
          /\ UNCHANGED <<shown, loads, meant, ackAll>>
        BY <2>3 DEF AcknowledgeAlert, listed
    <3> HIDE DEF k1
    <3> QED
        BY <3>1, <3>2, Zenon DEF AckInv, True
  <2>4. ASSUME NEW k \in acks, AckAnswered(k) PROVE AckInv'
    <3>1. /\ acks' = acks \ {k} /\ UNCHANGED <<loads, acked, meant, ackAll>>
          /\ k.id \in acked
        BY <2>4, Zenon DEF AckAnswered, AckInv
    <3>2. shown'.items \in {shown.items, Marked(shown.items, k.id)}
        BY <2>4, MarkedShown DEF AckAnswered
    <3>3. True(shown'.items)
      <4>1. [id |-> k.id, acked |-> TRUE].id = k.id
          OBVIOUS
      <4>2. True(shown.items)
          BY Zenon DEF AckInv
      <4> QED
          BY <3>1, <3>2, <4>1, <4>2, Zenon DEF Marked, True
    <3> QED
        BY <3>1, <3>3, Zenon DEF AckInv, True
  <2>5. ASSUME NEW k \in acks, AckFails(k) PROVE AckInv'
      BY <2>5, Zenon DEF AckFails, listed, AckInv, True
  <2>6. CASE ConfirmAckAll
    <3>1. ackAll'.kind = control.kind
        BY <2>6, Zenon DEF ConfirmAckAll
    <3>2. /\ meant' = meant \cup {a \in Alerts : control.kind \in {"", Kind[a]}}
          /\ UNCHANGED <<shown, loads, acked, acks>>
        BY <2>6, Zenon DEF ConfirmAckAll, listed
    <3> QED
        BY <3>1, <3>2, Zenon DEF AckInv, True
  <2>7. CASE ServeAckAll
    <3>1. AcknowledgeAllAlerts(ackAll.kind) \subseteq {a \in Alerts : ackAll.kind \in {"", Kind[a]}}
        BY AlertIds, Zenon DEF AcknowledgeAllAlerts
    <3>2. AcknowledgeAllAlerts(ackAll.kind) \subseteq meant
        BY <2>7, <3>1, Zenon DEF ServeAckAll, AckInv
    <3>3. ackAll'.status = "served"
        BY <2>7, Zenon DEF ServeAckAll, TabInv, AckAll
    <3>4. /\ acked' = acked \cup AcknowledgeAllAlerts(ackAll.kind)
          /\ UNCHANGED <<shown, loads, acks, meant>>
        BY <2>7 DEF ServeAckAll, listed
    <3> QED
        BY <3>2, <3>3, <3>4, Zenon DEF AckInv, True
  <2>8. CASE AckAllAnswered
    <3>1. Call(calls + 1, control).items = {}
        BY DEF Call
    <3>2. ackAll'.status = "reload"
        BY <2>8 DEF AckAllAnswered, Idle
    <3>3. /\ loads' = loads \cup {Call(calls + 1, control)}
          /\ UNCHANGED <<shown, acked, acks, meant>>
        BY <2>8 DEF AckAllAnswered
    <3> QED
        BY <3>1, <3>2, <3>3, Zenon DEF AckInv, True
  <2>9. CASE AckAllFails
    <3>1. ackAll'.status = "idle"
        BY <2>9, Zenon DEF AckAllFails, Idle
    <3> QED
        BY <2>9, <3>1, Zenon DEF AckAllFails, listed, AckInv, True
  <2> QED
      BY <2>1, <2>2, <2>3, <2>4, <2>5, <2>6, <2>7, <2>8, <2>9 DEF AlertStep
(* Every step keeps the acknowledgements true.                             *)
<1>NextAckInv. TabInv /\ AckInv /\ [WebNext]_webVars => AckInv'
  <2> SUFFICES ASSUME TabInv, AckInv, [WebNext]_webVars PROVE AckInv'
      OBVIOUS
  <2>1. CASE FormStep
      BY <2>1, FormFrame, Zenon DEF AckInv, True, listed, alerting
  <2>2. CASE UNCHANGED webVars
      BY <2>2, Zenon DEF AckInv, True, webVars
  <2> QED
      BY <2>1, <2>2, Steps, <1>ListAckInv, <1>AlertAckInv
<1>AcknowledgementsAreTrue. WebSpec => []AcksAreTrue
  <2>1. AckInv => AcksAreTrue
      BY Zenon DEF AckInv, AcksAreTrue, True
  <2> QED
      BY <2>1, InitTab, NextTabInv, <1>NextAckInv, PTL DEF WebSpec
<1> QED
    BY <1>AcknowledgementsAreTrue

(***************************************************************************)
(* The forms.                                                              *)
(***************************************************************************)

(* And so do the others.                                                   *)
LEMMA NextForms ==
    FormInv /\ OpInv /\ PromptInv /\ [WebNext]_webVars => FormInv' /\ OpInv' /\ PromptInv'
(* A step of one action.                                                   *)
<1>OpStep.
    ASSUME FormInv, OpInv, NEW i \in DOMAIN ops, NEW o \in Op, NEW n,
           ops' = [ops EXCEPT ![i] = o], applied' = [applied EXCEPT ![i] = n],
           Honest(o, n, spoilt'), spoilt \subseteq spoilt'
    PROVE  /\ ops' \in Seq(Op) /\ DOMAIN ops' = DOMAIN ops
           /\ applied' \in Seq(Nat) /\ Len(applied') = Len(ops')
           /\ ops'[i] = o /\ \A j \in DOMAIN ops : j # i => ops'[j] = ops[j]
           /\ OpInv'
  <2> USE <1>OpStep
  <2>1. /\ ops \in Seq(Op) /\ applied \in Seq(Nat) /\ Len(applied) = Len(ops)
        /\ DOMAIN ops = 1 .. Len(ops) /\ DOMAIN applied = 1 .. Len(ops) /\ Len(ops) \in Nat
      BY DEF FormInv
  <2>2. n \in Nat
    <3>1. n \in {0, 1}
        BY Zenon DEF Honest
    <3> QED
        BY <3>1
  <2>3. ops' \in Seq(Op) /\ Len(ops') = Len(ops) /\ DOMAIN ops' = DOMAIN ops
      BY <2>1
  <2>4. applied' \in Seq(Nat) /\ Len(applied') = Len(ops')
      BY <2>1, <2>2, <2>3
  <2>5. ops'[i] = o /\ \A j \in DOMAIN ops : j # i => ops'[j] = ops[j]
      BY <2>1
  <2>6. applied'[i] = n /\ \A j \in DOMAIN ops : j # i => applied'[j] = applied[j]
      BY <2>1
  <2>7. ASSUME NEW j \in DOMAIN ops' PROVE Honest(ops'[j], applied'[j], spoilt')
    <3>1. CASE j = i
        BY <2>5, <2>6, <3>1
    <3>2. CASE j # i
      <4>1. Honest(ops[j], applied[j], spoilt)
          BY <2>3 DEF OpInv
      <4>2. Honest(ops[j], applied[j], spoilt')
          BY <4>1, Zenon DEF Honest
      <4> QED
          BY <2>3, <2>5, <2>6, <3>2, <4>2
    <3> QED
        BY <3>1, <3>2
  <2> QED
      BY <2>3, <2>4, <2>5, <2>7, Zenon DEF OpInv
(* The state of an action.                                                 *)
<1>OpIs.
    ASSUME FormInv, OpInv, NEW i \in DOMAIN ops
    PROVE  /\ ops[i] \in Op /\ applied[i] \in Nat
           /\ applied = [applied EXCEPT ![i] = applied[i]]
           /\ Honest(ops[i], applied[i], spoilt)
    BY <1>OpIs DEF FormInv, OpInv
(* What a step of an action that is sent, answered or lost needs to show.  *)
<1>OpSteps.
    ASSUME FormInv, OpInv, NEW i \in DOMAIN ops, NEW o \in Op, NEW n,
           ops' = [ops EXCEPT ![i] = o], applied' = [applied EXCEPT ![i] = n],
           Honest(o, n, spoilt'), spoilt \subseteq spoilt',
           modal' \in BOOLEAN, reauths' \subseteq Attempt,
           \A r \in reauths' : r.op \in DOMAIN ops
    PROVE  FormInv' /\ OpInv'
  <2> USE <1>OpSteps
  <2>1. /\ ops' \in Seq(Op) /\ DOMAIN ops' = DOMAIN ops
        /\ applied' \in Seq(Nat) /\ Len(applied') = Len(ops') /\ OpInv'
      BY <1>OpStep, Zenon
  <2> QED
      BY <2>1 DEF FormInv
(* A sequence with one more element.                                       *)
<1>Appended.
    ASSUME NEW S, NEW s \in Seq(S), NEW e \in S
    PROVE  Append(s, e) \in Seq(S) /\ Len(Append(s, e)) = Len(s) + 1
    OBVIOUS
<1>AppendedAt.
    ASSUME NEW S, NEW s \in Seq(S), NEW e \in S
    PROVE  (\A j \in 1 .. Len(s) : Append(s, e)[j] = s[j]) /\ Append(s, e)[Len(s) + 1] = e
  <2>1. ASSUME NEW j \in 1 .. Len(s) PROVE Append(s, e)[j] = s[j]
      BY <1>AppendedAt, <2>1
  <2>2. Append(s, e)[Len(s) + 1] = e
      BY <1>AppendedAt
  <2> QED
      BY <2>1, <2>2, Zenon
(* A form is submitted.                                                    *)
<1>SubmitKeeps.
    ASSUME FormInv, OpInv, Submit
    PROVE  /\ FormInv' /\ OpInv'
           /\ DOMAIN ops \subseteq DOMAIN ops'
           /\ \A j \in DOMAIN ops : ops'[j] = ops[j]
           /\ \A j \in DOMAIN ops' : j \in DOMAIN ops \/ ops'[j].phase = "sent"
  <2> USE <1>SubmitKeeps
  <2> DEFINE o == [try |-> 1, phase |-> "sent", res |-> ""]
  <2>1. o \in Op /\ o.phase = "sent" /\ o.res = ""
      BY DEF Op
  <2>2. ops' = Append(ops, o) /\ applied' = Append(applied, 0) /\ UNCHANGED <<modal, reauths, spoilt>>
      BY Zenon DEF Submit
  <2> HIDE DEF o
  <2>3. /\ ops \in Seq(Op) /\ applied \in Seq(Nat) /\ Len(applied) = Len(ops) /\ Len(ops) \in Nat
        /\ DOMAIN ops = 1 .. Len(ops)
      BY DEF FormInv
  <2>4. /\ ops' \in Seq(Op) /\ applied' \in Seq(Nat)
        /\ Len(ops') = Len(ops) + 1 /\ Len(applied') = Len(ops) + 1
        /\ DOMAIN ops' = 1 .. Len(ops) + 1
    <3>1. ops' \in Seq(Op) /\ Len(ops') = Len(ops) + 1
        BY <2>1, <2>2, <2>3, <1>Appended, Zenon
    <3>2. applied' \in Seq(Nat) /\ Len(applied') = Len(ops) + 1
        BY <2>2, <2>3
    <3>3. DOMAIN ops' = 1 .. Len(ops')
        BY <3>1
    <3> QED
        BY <3>1, <3>2, <3>3
  <2>5. /\ \A j \in DOMAIN ops : ops'[j] = ops[j] /\ applied'[j] = applied[j]
        /\ ops'[Len(ops) + 1] = o /\ applied'[Len(ops) + 1] = 0
    <3>1. 0 \in Nat
        OBVIOUS
    <3>2. /\ \A j \in 1 .. Len(ops) : Append(ops, o)[j] = ops[j]
          /\ Append(ops, o)[Len(ops) + 1] = o
        BY <2>1, <2>3, <1>AppendedAt, Zenon
    <3>3. /\ \A j \in 1 .. Len(applied) : Append(applied, 0)[j] = applied[j]
          /\ Append(applied, 0)[Len(applied) + 1] = 0
        BY <2>3, <3>1, <1>AppendedAt, Zenon
    <3> QED
        BY <2>2, <2>3, <3>2, <3>3, Zenon
  <2>6. \A j \in DOMAIN ops' : j \in DOMAIN ops \/ j = Len(ops) + 1
      BY <2>3, <2>4
  <2>7. DOMAIN ops \subseteq DOMAIN ops'
      BY <2>3, <2>4
  <2>8. Honest(o, 0, spoilt)
      BY <2>1, Zenon DEF Honest
  <2>9. OpInv'
      BY <2>2, <2>5, <2>6, <2>8, Zenon DEF OpInv
  <2>10. FormInv'
      BY <2>2, <2>4, <2>7 DEF FormInv
  <2> QED
      BY <2>1, <2>5, <2>6, <2>7, <2>9, <2>10, Zenon
(* putSettings.                                                            *)
<1>PutKeeps.
    ASSUME FormInv, OpInv, NEW i \in DOMAIN ops, PutSettings(i)
    PROVE  /\ FormInv' /\ OpInv' /\ DOMAIN ops' = DOMAIN ops
           /\ ops'[i].phase = "served" /\ \A j \in DOMAIN ops : j # i => ops'[j] = ops[j]
  <2> USE <1>PutKeeps
  <2> DEFINE o == [ops[i] EXCEPT !.phase = "served", !.res = Verdict]
             n == IF Verdict = "ok" THEN applied[i] + 1 ELSE applied[i]
  <2>1. /\ ops[i] \in Op /\ applied[i] \in Nat /\ applied = [applied EXCEPT ![i] = applied[i]]
        /\ Honest(ops[i], applied[i], spoilt)
      BY <1>OpIs
  <2>2. Verdict \in {"ok", "reauth_required", "unauthenticated"}
      BY DEF Verdict
  <2>3. o \in Op /\ o.phase = "served" /\ o.res = Verdict
      BY <2>1, <2>2, Zenon DEF Op
  <2>4. ops[i].phase = "sent" /\ applied[i] = 0
      BY <2>1, Zenon DEF PutSettings, Honest
  <2>5. Honest(o, n, spoilt)
      BY <2>2, <2>3, <2>4 DEF Honest
  <2>6. ops' = [ops EXCEPT ![i] = o]
      BY Zenon DEF PutSettings
  <2>7. applied' = [applied EXCEPT ![i] = n]
      BY <2>1, Zenon DEF PutSettings
  <2>8. UNCHANGED <<modal, reauths, spoilt>>
      BY DEF PutSettings
  <2> HIDE DEF o, n
  <2>9. /\ DOMAIN ops' = DOMAIN ops
        /\ ops'[i] = o /\ \A j \in DOMAIN ops : j # i => ops'[j] = ops[j]
      BY <2>3, <2>5, <2>6, <2>7, <2>8, <1>OpStep
  <2>10. FormInv' /\ OpInv'
      BY <2>3, <2>5, <2>6, <2>7, <2>8, <1>OpSteps, Zenon DEF FormInv
  <2> QED
      BY <2>3, <2>9, <2>10, Zenon
(* Its answer.                                                             *)
<1>AnswerKeeps.
    ASSUME FormInv, OpInv, NEW i \in DOMAIN ops, PutAnswered(i)
    PROVE  /\ FormInv' /\ OpInv' /\ DOMAIN ops' = DOMAIN ops
           /\ ops[i].phase = "served" /\ (ops'[i].phase = "prompt" => Prompts(i))
           /\ \A j \in DOMAIN ops : j # i => ops'[j] = ops[j]
  <2> USE <1>AnswerKeeps
  <2> DEFINE ph == IF ops[i].res = "ok" THEN "saved"
                   ELSE IF Prompts(i) THEN "prompt" ELSE "failed"
             o == [ops[i] EXCEPT !.phase = ph]
  <2>1. /\ ops[i] \in Op /\ applied[i] \in Nat /\ applied = [applied EXCEPT ![i] = applied[i]]
        /\ Honest(ops[i], applied[i], spoilt)
      BY <1>OpIs
  <2>2. /\ ph \in {"saved", "prompt", "failed"}
        /\ ph = "saved" <=> ops[i].res = "ok"
        /\ ph = "prompt" => ops[i].try = 1 /\ Prompts(i)
      BY Zenon DEF Prompts
  <2>3. ops' = [ops EXCEPT ![i] = o]
      BY DEF PutAnswered
  <2> HIDE DEF ph
  <2>4. o \in Op /\ o.phase = ph /\ o.try = ops[i].try
      BY <2>1, <2>2, Zenon DEF Op
  <2>5. ops[i].phase = "served"
      BY DEF PutAnswered
  <2>6. applied[i] = 1 <=> ph = "saved"
      BY <2>1, <2>2, <2>5, Zenon DEF Honest
  <2>7. applied[i] \in {0, 1}
      BY <2>1, Zenon DEF Honest
  <2> HIDE DEF o
  <2>8. Honest(o, applied[i], spoilt')
      BY <2>2, <2>4, <2>6, <2>7, Zenon DEF Honest
  <2>9. /\ UNCHANGED <<reauths, applied>> /\ spoilt \subseteq spoilt'
        /\ modal' \in BOOLEAN
      BY DEF PutAnswered, FormInv
  <2>10. applied' = [applied EXCEPT ![i] = applied[i]]
      BY <2>1, <2>9
  <2>11. /\ DOMAIN ops' = DOMAIN ops
         /\ ops'[i] = o /\ \A j \in DOMAIN ops : j # i => ops'[j] = ops[j]
      BY <2>3, <2>4, <2>8, <2>9, <2>10, <1>OpStep, Zenon
  <2>12. FormInv' /\ OpInv'
      BY <2>3, <2>4, <2>8, <2>9, <2>10, <1>OpSteps, Zenon DEF FormInv
  <2> QED
      BY <2>2, <2>4, <2>5, <2>11, <2>12, Zenon
(* Or the lack of one.                                                     *)
<1>LostKeeps.
    ASSUME FormInv, OpInv, NEW i \in DOMAIN ops, PutLost(i)
    PROVE  /\ FormInv' /\ OpInv' /\ DOMAIN ops' = DOMAIN ops
           /\ ops'[i].phase = "failed" /\ \A j \in DOMAIN ops : j # i => ops'[j] = ops[j]
  <2> USE <1>LostKeeps
  <2> DEFINE o == [ops[i] EXCEPT !.phase = "failed"]
  <2>1. /\ ops[i] \in Op /\ applied[i] \in Nat /\ applied = [applied EXCEPT ![i] = applied[i]]
        /\ Honest(ops[i], applied[i], spoilt)
      BY <1>OpIs
  <2>2. o \in Op /\ o.phase = "failed"
      BY <2>1, Zenon DEF Op
  <2>3. ops' = [ops EXCEPT ![i] = o]
      BY DEF PutLost
  <2> HIDE DEF o
  <2>4. /\ UNCHANGED <<modal, reauths, applied>> /\ spoilt \subseteq spoilt'
        /\ ops[i].res = "ok" => "lost" \in spoilt'
        /\ ops[i].phase \in {"sent", "served"}
      BY DEF PutLost
  <2>5. applied[i] \in {0, 1} /\ (ops[i].res # "ok" => applied[i] = 0)
      BY <2>1, <2>4, Zenon DEF Honest
  <2>6. Honest(o, applied[i], spoilt')
      BY <2>2, <2>4, <2>5, Zenon DEF Honest
  <2>7. applied' = [applied EXCEPT ![i] = applied[i]]
      BY <2>1, <2>4
  <2>8. /\ DOMAIN ops' = DOMAIN ops
        /\ ops'[i] = o /\ \A j \in DOMAIN ops : j # i => ops'[j] = ops[j]
      BY <2>2, <2>3, <2>4, <2>6, <2>7, <1>OpStep, Zenon
  <2>9. FormInv' /\ OpInv'
      BY <2>2, <2>3, <2>4, <2>6, <2>7, <1>OpSteps, Zenon DEF FormInv
  <2> QED
      BY <2>2, <2>8, <2>9, Zenon
(* A password that is right sends the action again.                        *)
<1>ResumeKeeps.
    ASSUME FormInv, OpInv, NEW i \in DOMAIN ops, ops' = Resume(i),
           UNCHANGED <<applied, spoilt>>
    PROVE  /\ ops' \in Seq(Op) /\ DOMAIN ops' = DOMAIN ops /\ OpInv'
           /\ applied' \in Seq(Nat) /\ Len(applied') = Len(ops')
           /\ ops'[i].phase # "prompt" /\ \A j \in DOMAIN ops : j # i => ops'[j] = ops[j]
  <2> USE <1>ResumeKeeps
  <2>1. CASE ops[i].phase # "prompt"
    <3>1. ops' = ops
        BY <2>1 DEF Resume
    <3> QED
        BY <2>1, <3>1, Zenon DEF FormInv, OpInv
  <2>2. CASE ops[i].phase = "prompt"
    <3> DEFINE o == [ops[i] EXCEPT !.phase = "sent", !.try = ops[i].try + 1, !.res = ""]
    <3>1. /\ ops[i] \in Op /\ applied[i] \in Nat /\ applied = [applied EXCEPT ![i] = applied[i]]
          /\ Honest(ops[i], applied[i], spoilt)
        BY <1>OpIs
    <3>2. ops[i].try = 1 /\ applied[i] = 0
        BY <2>2, <3>1 DEF Honest
    <3>3. ops[i].try + 1 \in 1 .. 2
        BY <3>2
    <3>4. o \in Op /\ o.phase = "sent" /\ o.res = ""
        BY <3>1, <3>3, Zenon DEF Op
    <3>5. ops' = [ops EXCEPT ![i] = o]
        BY <2>2, Zenon DEF Resume
    <3> HIDE DEF o
    <3>6. Honest(o, applied[i], spoilt')
        BY <3>2, <3>4, Zenon DEF Honest
    <3>7. applied' = [applied EXCEPT ![i] = applied[i]]
        BY <3>1
    <3>8. /\ ops' \in Seq(Op) /\ DOMAIN ops' = DOMAIN ops /\ OpInv'
          /\ applied' \in Seq(Nat) /\ Len(applied') = Len(ops')
          /\ ops'[i] = o /\ \A j \in DOMAIN ops : j # i => ops'[j] = ops[j]
        BY <3>4, <3>5, <3>6, <3>7, <1>OpStep, Zenon
    <3> QED
        BY <3>4, <3>8, Zenon
  <2> QED
      BY <2>1, <2>2, Zenon
(* Cancel settles every action that waits.                                 *)
<1>CancelKeeps.
    ASSUME FormInv, OpInv, OnCancel
    PROVE  FormInv' /\ OpInv' /\ Prompting' = {}
  <2> USE <1>CancelKeeps
  <2>1. /\ ops \in Seq(Op) /\ applied \in Seq(Nat) /\ Len(applied) = Len(ops) /\ Len(ops) \in Nat
        /\ DOMAIN ops = 1 .. Len(ops)
      BY DEF FormInv
  <2>2. DOMAIN ops' = DOMAIN ops /\ UNCHANGED <<reauths, applied, spoilt>> /\ modal' = FALSE
      BY DEF OnCancel
  <2>3. ASSUME NEW i \in DOMAIN ops
        PROVE  /\ ops'[i] \in Op /\ ops'[i].phase # "prompt"
               /\ Honest(ops'[i], applied[i], spoilt)
    <3>1. ops[i] \in Op /\ Honest(ops[i], applied[i], spoilt)
        BY <1>OpIs
    <3>2. CASE ops[i].phase # "prompt"
      <4>1. ops'[i] = ops[i]
          BY <3>2 DEF OnCancel, Prompting
      <4> QED
          BY <3>1, <3>2, <4>1, Zenon
    <3>3. CASE ops[i].phase = "prompt"
      <4>1. ops'[i] = [ops[i] EXCEPT !.phase = "cancelled"]
          BY <3>3 DEF OnCancel, Prompting
      <4>2. ops'[i] \in Op /\ ops'[i].phase = "cancelled"
          BY <3>1, <4>1, Zenon DEF Op
      <4>3. applied[i] = 0
          BY <3>1, <3>3, Zenon DEF Honest
      <4> QED
          BY <4>2, <4>3, Zenon DEF Honest
    <3> QED
        BY <3>2, <3>3, Zenon
  <2>4. ops' \in Seq(Op) /\ Len(ops') = Len(ops)
    <3>1. ops' \in [1 .. Len(ops) -> Op]
        BY <2>1, <2>3 DEF OnCancel
    <3> QED
        BY <2>1, <3>1
  <2>5. Prompting' = {}
      BY <2>2, <2>3, Zenon DEF Prompting
  <2>6. OpInv'
      BY <2>2, <2>3, Zenon DEF OpInv
  <2> QED
      BY <2>1, <2>2, <2>4, <2>5, <2>6, Zenon DEF FormInv
(* The dialog is submitted.                                                *)
<1>PasswordKeeps.
    ASSUME FormInv, OpInv, PromptInv, NEW n \in Nat, NEW right \in BOOLEAN,
           SubmitPassword(n, right)
    PROVE  FormInv' /\ OpInv' /\ PromptInv'
  <2> USE <1>PasswordKeeps
  <2>1. /\ UNCHANGED <<page, ops, modal, applied, spoilt>>
        /\ reauths' = reauths \cup
              {[op |-> i, n |-> n, right |-> right, res |-> ""] : i \in Prompting}
      BY Zenon DEF SubmitPassword
  <2>2. Prompting \subseteq DOMAIN ops /\ DOMAIN ops \subseteq Nat
      BY DEF Prompting, FormInv
  <2>3. ASSUME NEW r \in reauths', r \notin reauths
        PROVE  r \in Attempt /\ r.op \in Prompting
    <3>1. PICK i \in Prompting : r = [op |-> i, n |-> n, right |-> right, res |-> ""]
        BY <2>1, <2>3, Zenon
    <3>2. i \in Nat /\ "" \in Answers
        BY <2>2 DEF Answers
    <3>3. r \in Attempt
        BY <3>1, <3>2, Zenon DEF Attempt
    <3>4. r.op = i
        BY <3>1, Zenon
    <3> QED
        BY <3>3, <3>4
  <2>4. FormInv'
      BY <2>1, <2>2, <2>3, Zenon DEF FormInv
  <2>5. OpInv'
      BY <2>1, Zenon DEF OpInv
  <2>6. Prompting' = Prompting
      BY <2>1, Zenon DEF Prompting
  <2>7. PromptInv'
      BY <2>1, <2>3, <2>6, Zenon DEF PromptInv
  <2> QED
      BY <2>4, <2>5, <2>7
(* reauth.                                                                 *)
<1>ReauthKeeps.
    ASSUME FormInv, OpInv, PromptInv, NEW r \in reauths, ServeReauth(r)
    PROVE  FormInv' /\ OpInv' /\ PromptInv'
  <2> USE <1>ReauthKeeps
  <2> DEFINE v == IF session = "gone" THEN "unauthenticated"
                  ELSE IF r.right THEN "ok" ELSE "invalid_credentials"
             q == [r EXCEPT !.res = v]
  <2>1. reauths' = (reauths \ {r}) \cup {q} /\ UNCHANGED <<page, ops, modal, applied, spoilt>>
      BY Zenon DEF ServeReauth
  <2>2. v \in Answers
      BY DEF Answers
  <2> HIDE DEF v
  <2>3. r \in Attempt
      BY DEF FormInv
  <2>4. q \in Attempt /\ q.op = r.op
      BY <2>2, <2>3 DEF Attempt
  <2> HIDE DEF q
  <2>5. FormInv'
      BY <2>1, <2>4, Zenon DEF FormInv
  <2>6. OpInv'
      BY <2>1, Zenon DEF OpInv
  <2>7. Prompting' = Prompting
      BY <2>1, Zenon DEF Prompting
  <2>8. PromptInv'
      BY <2>1, <2>4, <2>7 DEF PromptInv
  <2> QED
      BY <2>5, <2>6, <2>8
(* Its answer: the dialog closes when the one action that waits goes on,   *)
(* or with the page.                                                       *)
<1>ReauthAnswerKeeps.
    ASSUME FormInv, OpInv, PromptInv, NEW r \in reauths, ReauthAnswered(r)
    PROVE  FormInv' /\ OpInv' /\ PromptInv'
  <2> USE <1>ReauthAnswerKeeps
  <2>1. /\ reauths' = reauths \ {r} /\ UNCHANGED <<applied, spoilt>>
        /\ modal' = (modal /\ ~Hides(r))
        /\ ops' = (IF r.res = "ok" THEN Resume(r.op) ELSE ops)
        /\ page' = (IF r.res = "unauthenticated" THEN "login" ELSE page)
      BY DEF ReauthAnswered
  <2>2. r.op \in DOMAIN ops /\ modal' \in BOOLEAN
      BY <2>1, Zenon DEF FormInv
  <2>3. CASE r.res = "ok"
    <3>1. ops' = Resume(r.op)
        BY <2>1, <2>3
    <3>2. /\ ops' \in Seq(Op) /\ DOMAIN ops' = DOMAIN ops /\ OpInv'
          /\ applied' \in Seq(Nat) /\ Len(applied') = Len(ops')
          /\ ops'[r.op].phase # "prompt" /\ \A j \in DOMAIN ops : j # r.op => ops'[j] = ops[j]
        BY <2>1, <2>2, <3>1, <1>ResumeKeeps, Zenon
    <3>3. FormInv'
        BY <2>1, <2>2, <3>2, Zenon DEF FormInv
    <3>4. Prompting' \subseteq Prompting /\ r.op \notin Prompting'
        BY <3>2, Zenon DEF Prompting
    <3>5. "overlap" \notin spoilt => Prompting' = {}
        BY <3>4 DEF PromptInv
    <3>6. PromptInv'
        BY <2>1, <3>5 DEF PromptInv
    <3> QED
        BY <3>2, <3>3, <3>6, Zenon
  <2>4. CASE r.res # "ok"
    <3>1. ops' = ops
        BY <2>1, <2>4
    <3>2. Prompting' = Prompting
        BY <3>1 DEF Prompting
    <3>3. page' = "settings" => modal' = modal /\ page' = page
        BY <2>1, <2>4, Zenon DEF Hides, FormInv
    <3>4. PromptInv'
        BY <2>1, <3>2, <3>3 DEF PromptInv
    <3>5. FormInv' /\ OpInv'
        BY <2>1, <2>2, <3>1, Zenon DEF FormInv, OpInv
    <3> QED
        BY <3>4, <3>5
  <2> QED
      BY <2>3, <2>4
(* A step of one action after which no other waits than before.            *)
<1>PromptStays.
    ASSUME PromptInv, Prompting' \subseteq Prompting, reauths' \subseteq reauths,
           modal => modal', page' = page, spoilt \subseteq spoilt'
    PROVE  PromptInv'
    BY <1>PromptStays DEF PromptInv
(* What an action does, unless it comes to wait.                           *)
<1>OpPrompts.
    ASSUME NEW i \in DOMAIN ops, DOMAIN ops' = DOMAIN ops, ops'[i].phase # "prompt",
           \A j \in DOMAIN ops : j # i => ops'[j] = ops[j]
    PROVE  Prompting' \subseteq Prompting
    BY <1>OpPrompts DEF Prompting
(* Every step of the forms keeps all three.                                *)
<1>FormSteps. FormInv /\ OpInv /\ PromptInv /\ FormStep => FormInv' /\ OpInv' /\ PromptInv'
  <2> SUFFICES ASSUME FormInv, OpInv, PromptInv, FormStep PROVE FormInv' /\ OpInv' /\ PromptInv'
      OBVIOUS
  <2>1. CASE Submit
    <3>1. /\ FormInv' /\ OpInv' /\ DOMAIN ops \subseteq DOMAIN ops'
          /\ \A j \in DOMAIN ops : ops'[j] = ops[j]
          /\ \A j \in DOMAIN ops' : j \in DOMAIN ops \/ ops'[j].phase = "sent"
        BY <2>1, <1>SubmitKeeps, Zenon
    <3>2. Prompting' \subseteq Prompting
        BY <3>1, Zenon DEF Prompting
    <3>3. PromptInv'
        BY <2>1, <3>2, <1>PromptStays, Zenon DEF Submit
    <3> QED
        BY <3>1, <3>3, Zenon
  <2>2. ASSUME NEW i \in DOMAIN ops, PutSettings(i) PROVE FormInv' /\ OpInv' /\ PromptInv'
    <3>1. /\ FormInv' /\ OpInv' /\ DOMAIN ops' = DOMAIN ops
          /\ ops'[i].phase = "served" /\ \A j \in DOMAIN ops : j # i => ops'[j] = ops[j]
        BY <2>2, <1>PutKeeps, Zenon
    <3>2. Prompting' \subseteq Prompting
        BY <3>1, <1>OpPrompts, Zenon
    <3>3. PromptInv'
        BY <2>2, <3>2, <1>PromptStays DEF PutSettings
    <3> QED
        BY <3>1, <3>3
  <2>3. ASSUME NEW i \in DOMAIN ops, PutAnswered(i) PROVE FormInv' /\ OpInv' /\ PromptInv'
    <3>1. /\ FormInv' /\ OpInv' /\ DOMAIN ops' = DOMAIN ops
          /\ ops[i].phase = "served" /\ (ops'[i].phase = "prompt" => Prompts(i))
          /\ \A j \in DOMAIN ops : j # i => ops'[j] = ops[j]
        BY <2>3, <1>AnswerKeeps, Zenon
    <3>2. /\ UNCHANGED <<page, reauths>> /\ modal' = (modal \/ Prompts(i))
          /\ spoilt' = spoilt \cup
                (IF Prompts(i) /\ (Prompting # {} \/ reauths # {}) THEN {"overlap"} ELSE {})
        BY <2>3 DEF PutAnswered
    <3>3. CASE ~Prompts(i)
      <4>1. Prompting' \subseteq Prompting
          BY <3>1, <3>3, <1>OpPrompts, Zenon
      <4>2. modal => modal'
          BY <3>2, Zenon
      <4> QED
          BY <3>1, <3>2, <4>1, <4>2, <1>PromptStays, Zenon
    <3>4. CASE Prompts(i) /\ Prompting = {} /\ reauths = {}
      <4>1. Prompting' \subseteq {i}
          BY <3>1, <3>4, Zenon DEF Prompting
      <4>2. modal'
          BY <3>2, <3>4, Zenon
      <4>3. reauths' = {}
          BY <3>2, <3>4
      <4> QED
          BY <3>1, <4>1, <4>2, <4>3, Zenon DEF PromptInv
    <3>5. CASE Prompts(i) /\ (Prompting # {} \/ reauths # {})
      <4>1. "overlap" \in spoilt'
          BY <3>2, <3>5
      <4> QED
          BY <3>1, <4>1, Zenon DEF PromptInv
    <3> QED
        BY <3>3, <3>4, <3>5
  <2>4. ASSUME NEW i \in DOMAIN ops, PutLost(i) PROVE FormInv' /\ OpInv' /\ PromptInv'
    <3>1. /\ FormInv' /\ OpInv' /\ DOMAIN ops' = DOMAIN ops
          /\ ops'[i].phase = "failed" /\ \A j \in DOMAIN ops : j # i => ops'[j] = ops[j]
        BY <2>4, <1>LostKeeps, Zenon
    <3>2. Prompting' \subseteq Prompting
        BY <3>1, <1>OpPrompts, Zenon
    <3>3. UNCHANGED <<page, modal, reauths>> /\ spoilt \subseteq spoilt'
        BY <2>4 DEF PutLost
    <3>4. PromptInv'
        BY <3>2, <3>3, <1>PromptStays
    <3> QED
        BY <3>1, <3>4
  <2>5. ASSUME NEW n \in 1 .. MaxPasswords, NEW right \in BOOLEAN, SubmitPassword(n, right)
        PROVE  FormInv' /\ OpInv' /\ PromptInv'
    <3>1. n \in Nat
        OBVIOUS
    <3> QED
        BY <2>5, <3>1, <1>PasswordKeeps
  <2>6. ASSUME NEW r \in reauths, ServeReauth(r) \/ ReauthAnswered(r)
        PROVE  FormInv' /\ OpInv' /\ PromptInv'
      BY <2>6, <1>ReauthKeeps, <1>ReauthAnswerKeeps
  <2>7. CASE OnCancel
    <3>1. FormInv' /\ OpInv' /\ Prompting' = {}
        BY <2>7, <1>CancelKeeps
    <3> QED
        BY <3>1 DEF PromptInv
  <2>8. CASE Expire
    <3>1. UNCHANGED <<page, ops, modal, reauths, applied, spoilt>>
        BY <2>8 DEF Expire
    <3> QED
        BY <3>1, Zenon DEF FormInv, OpInv, PromptInv, Prompting
  <2> QED
      BY <2>1, <2>2, <2>3, <2>4, <2>5, <2>6, <2>7, <2>8, Zenon DEF FormStep
<1>NextForms.
    FormInv /\ OpInv /\ PromptInv /\ [WebNext]_webVars => FormInv' /\ OpInv' /\ PromptInv'
  <2> SUFFICES ASSUME FormInv, OpInv, PromptInv, [WebNext]_webVars
               PROVE  FormInv' /\ OpInv' /\ PromptInv'
      OBVIOUS
  <2>1. CASE ListStep \/ AlertStep \/ UNCHANGED webVars
    <3>1. /\ UNCHANGED <<ops, modal, reauths, applied>> /\ (page' = page \/ page' = "login")
          /\ "lost" \in spoilt' <=> "lost" \in spoilt
          /\ "overlap" \in spoilt' <=> "overlap" \in spoilt
        BY <2>1, ListFrame, AlertFrame, Zenon DEF saving, webVars
    <3>2. Prompting' = Prompting
        BY <3>1 DEF Prompting
    <3>3. FormInv'
        BY <3>1, Zenon DEF FormInv
    <3>4. OpInv'
        BY <3>1, Zenon DEF OpInv, Honest
    <3>5. PromptInv'
        BY <3>1, <3>2 DEF PromptInv
    <3> QED
        BY <3>3, <3>4, <3>5
  <2> QED
      BY <2>1, Steps, <1>FormSteps
<1> QED
    BY <1>NextForms

(* No form has been submitted at first.                                    *)
LEMMA InitForms == WebInit => FormInv /\ OpInv /\ PromptInv
<1> SUFFICES ASSUME WebInit PROVE FormInv /\ OpInv /\ PromptInv
    OBVIOUS
<1>1. ops = <<>> /\ applied = <<>> /\ reauths = {} /\ modal = FALSE /\ DOMAIN ops = {}
    BY DEF WebInit
<1>2. FormInv
  <2>1. ops \in Seq(Op) /\ applied \in Seq(Nat) /\ Len(applied) = Len(ops)
      BY <1>1
  <2>2. modal \in BOOLEAN /\ reauths \subseteq Attempt /\ \A r \in reauths : r.op \in DOMAIN ops
      BY <1>1, Zenon
  <2> QED
      BY <2>1, <2>2, Zenon DEF FormInv
<1>3. OpInv
    BY <1>1 DEF OpInv
<1>4. Prompting = {}
    BY <1>1 DEF Prompting
<1>5. PromptInv
    BY <1>4 DEF PromptInv
<1> QED
    BY <1>2, <1>3, <1>5

(* For any number of forms and passwords and whatever comes late or not at *)
(* all, withElevation has an action carried out once at most, and reports  *)
(* what has become of it unless the answer was lost.                       *)
THEOREM FormsReportTheTruth == WebSpec => []ReportIsTrue
<1>1. ASSUME OpInv PROVE ReportIsTrue
  <2> SUFFICES ASSUME NEW i \in DOMAIN ops
               PROVE  /\ applied[i] <= 1
                      /\ ops[i].phase = "saved" => applied[i] = 1
                      /\ ops[i].phase = "cancelled" => applied[i] = 0
                      /\ ops[i].phase = "failed" /\ "lost" \notin spoilt => applied[i] = 0
      BY Zenon DEF ReportIsTrue
  <2>1. Honest(ops[i], applied[i], spoilt)
      BY <1>1, Zenon DEF OpInv
  <2>2. applied[i] \in {0, 1}
      BY <2>1, Zenon DEF Honest
  <2>3. applied[i] <= 1
      BY <2>2
  <2> QED
      BY <2>1, <2>3, Zenon DEF Honest
<1> QED
    BY <1>1, InitForms, NextForms, PTL DEF WebSpec

(* The dialog of promptForReauth is open while an action waits for the     *)
(* password, unless the prompts of two actions have overlapped.            *)
THEOREM ThePromptIsVisible == WebSpec => []PromptIsVisible
<1>1. PromptInv => PromptIsVisible
    BY DEF PromptInv, PromptIsVisible
<1> QED
    BY <1>1, InitForms, NextForms, PTL DEF WebSpec
=============================================================================
