------------------------------- MODULE Accounts -------------------------------
(***************************************************************************)
(* Users, sessions and the requests that use them: the middleware, setup,  *)
(* login, logout and user handlers of internal/logserver/server.go over    *)
(* the users and sessions tables of internal/store.                        *)
(*                                                                         *)
(* Requests run in goroutines of their own; every call of the store is a   *)
(* step, and between two steps of a request others may come.  Requests are *)
(* numbered as they arrive.  The user and the token request q creates have *)
(* q as their ID: crypto/rand never repeats one.  Bodies that do not       *)
(* decode, wrong passwords and errors of the store end a request; hashes   *)
(* are left out.                                                           *)
(***************************************************************************)
EXTENDS Database, FiniteSets, Sequences

CONSTANTS
  Names,        \* user names
  MaxRequests,  \* bound: requests
  MaxServing,   \* bound: requests under way at once
  Established   \* users of a database in use: [ID -> [name, role]]

ASSUME AccountsAssumption ==
  /\ MaxRequests \in Nat /\ MaxServing \in Nat
  /\ DOMAIN Established \cap (0 .. MaxRequests) = {}

VARIABLES
  users,     \* [ID -> [name, role]]
  sessions,  \* [token -> [user, expired]]
  requests,  \* the requests so far, in the order of arrival
  given      \* tokens clients hold, from the cookies of setup and login

accountVars == <<users, sessions, requests, given>>

Request == 1 .. Len(requests)
None == 0

Added(f, x, v) == [y \in DOMAIN f \cup {x} |-> IF y = x THEN v ELSE f[y]]
Removed(f, S) == [y \in DOMAIN f \ S |-> f[y]]

\* A fresh installation, or one in use where everybody is logged in.
AccountsInit ==
  /\ users \in {<< >>, Established}
  /\ sessions = [t \in DOMAIN users |-> [user |-> t, expired |-> FALSE]]
  /\ given = DOMAIN users
  /\ requests = << >>

AdminOnly == {"create", "delete"}
Protected == AdminOnly \cup {"read", "logout", "password"}

\* Session t lets its holder do op, on the user `about', at this moment.
Entitled(op, t, about) ==
  /\ t \in DOMAIN sessions /\ ~sessions[t].expired
  /\ LET u == sessions[t].user
     IN  /\ u \in DOMAIN users
         /\ op \in AdminOnly => users[u].role = "admin"
         /\ op = "password" => users[u].role = "admin" \/ u = about

Serving == {q \in Request: requests[q].pc \notin {"served", "refused"}}

\* What request op names: the user name of its body, the user ID of its path.
About(op) == CASE op \in {"setup", "login", "create"} -> Names
               [] op \in {"delete", "password"} -> DOMAIN users
               [] OTHER -> {None}

\* A request arrives, with a token its client was given; one without a cookie
\* is refused before it reaches the store and is left out.  `entitled' and
\* `empty' are history: what held when the request arrived, and whether the
\* table of users was empty since.
Arrive ==
  /\ Len(requests) < MaxRequests
  /\ Cardinality(Serving) < MaxServing
  /\ \E op \in Protected \cup {"setup", "login"}:
       \E t \in IF op \in Protected THEN given ELSE {None}, about \in About(op):
         requests' = Append(requests,
           [op |-> op, token |-> t, about |-> about, user |-> None,
            pc |-> IF op = "setup" THEN "count"
                   ELSE IF op = "login" THEN "find" ELSE "session",
            entitled |-> Entitled(op, t, about),
            empty |-> op = "setup" /\ users = << >>])
  /\ UNCHANGED <<users, sessions, given, fk, restarts>>

\* Request q goes on at pc; u is its user from here on.
Goes(q, pc, u) == requests' = [requests EXCEPT ![q].pc = pc, ![q].user = u]

\* A finished request is forgotten but for what was served.
Finished(r, pc) ==
  [op |-> IF pc = "served" THEN r.op ELSE "none", pc |-> pc, token |-> None,
   about |-> None, user |-> None, entitled |-> r.entitled /\ pc = "served",
   empty |-> r.empty]
Answers(q, pc) == requests' = [requests EXCEPT ![q] = Finished(@, pc)]

\* 400, 401, 403, 409, 500: a body that does not decode, or the store's error.
Refuse(q) ==
  /\ q \in Serving
  /\ Answers(q, "refused")
  /\ UNCHANGED <<users, sessions, given, fk, restarts>>

\* authMiddleware: r.Cookie and store.GetSession, which deletes an expired row.
GetSession(q) ==
  LET t == requests[q].token
  IN  /\ requests[q].pc = "session"
      /\ IF t \in DOMAIN sessions /\ ~sessions[t].expired
         THEN Goes(q, "user", sessions[t].user) /\ UNCHANGED sessions
         ELSE Answers(q, "refused") /\ sessions' = Removed(sessions, {t})
      /\ UNCHANGED <<users, given, fk, restarts>>

MutGetUserByID(q) ==
  LET r == requests[q]
  IN  /\ r.pc = "user"
      /\ Goes(q, IF /\ r.op \in AdminOnly => r.user \in DOMAIN users
                    /\ r.op \in AdminOnly => users[r.user].role = "admin"
                    /\ r.op = "password" => r.user = r.about
                 THEN "handle" ELSE "refused", r.user)
      /\ UNCHANGED <<users, sessions, given, fk, restarts>>

\* authMiddleware: store.GetUserByID; then adminMiddleware and the check of
\* handleUpdatePassword, which read the row found here.
GetUserByID(q) ==
  LET r == requests[q]
      u == r.user
  IN  /\ r.pc = "user"
      /\ IF /\ u \in DOMAIN users
            /\ r.op \in AdminOnly => users[u].role = "admin"
            /\ r.op = "password" => users[u].role = "admin" \/ u = r.about
         THEN Goes(q, "handle", u)
         ELSE Answers(q, "refused")
      /\ UNCHANGED <<users, sessions, given, fk, restarts>>

\* handleMe, for all that change nothing, and handleUpdatePassword, which
\* changes a hash and leaves the sessions of the user alone.
HandleOther(q) ==
  /\ requests[q].pc = "handle" /\ requests[q].op \in {"read", "password"}
  /\ Answers(q, "served")
  /\ UNCHANGED <<users, sessions, given, fk, restarts>>

\* The error of DeleteSession is ignored: logged out all the same.
HandleLogout(q) ==
  /\ requests[q].pc = "handle" /\ requests[q].op = "logout"
  /\ sessions' \in {sessions, Removed(sessions, {requests[q].token})}
  /\ Answers(q, "served")
  /\ UNCHANGED <<users, given, fk, restarts>>

\* INSERT INTO users; the name is UNIQUE.
InsertUser(q, role) ==
  /\ \A u \in DOMAIN users: users[u].name # requests[q].about
  /\ users' = Added(users, q, [name |-> requests[q].about, role |-> role])

HandleCreateAPIUser(q) ==
  /\ requests[q].pc = "handle" /\ requests[q].op = "create"
  /\ \E role \in {"admin", "user"}: InsertUser(q, role)
  /\ Answers(q, "served")
  /\ UNCHANGED <<sessions, given, fk, restarts>>

\* DELETE FROM users: the user's sessions follow if foreign keys are enforced.
\* If the table is empty now, the setups under way have seen it empty.
HandleDeleteUser(q) ==
  LET u == requests[q].about
      theirs == {t \in DOMAIN sessions: sessions[t].user = u}
  IN  /\ requests[q].pc = "handle" /\ requests[q].op = "delete"
      /\ users' = Removed(users, {u})
      /\ sessions' = IF fk THEN Removed(sessions, theirs) ELSE sessions
      /\ requests' = [p \in Request |->
           IF p = q THEN Finished(requests[p], "served")
           ELSE IF p \in Serving /\ requests[p].op = "setup" /\ users' = << >>
                THEN [requests[p] EXCEPT !.empty = TRUE]
                ELSE requests[p]]
      /\ UNCHANGED <<given, fk, restarts>>

MutUserCount(q) ==
  /\ requests[q].pc = "count"
  /\ Goes(q, "setup", None)
  /\ UNCHANGED <<users, sessions, given, fk, restarts>>

\* handleSetup: store.UserCount
UserCount(q) ==
  /\ requests[q].pc = "count"
  /\ IF users = << >> THEN Goes(q, "setup", None) ELSE Answers(q, "refused")
  /\ UNCHANGED <<users, sessions, given, fk, restarts>>

\* handleSetup: store.CreateUser
CreateFirstUser(q) ==
  /\ requests[q].pc = "setup"
  /\ InsertUser(q, "admin")
  /\ Goes(q, "token", q)
  /\ UNCHANGED <<sessions, given, fk, restarts>>

\* handleLogin: store.GetUserByUsername, and the password is right.
FindUser(q) ==
  /\ requests[q].pc = "find"
  /\ \E u \in DOMAIN users:
       /\ users[u].name = requests[q].about
       /\ Goes(q, "token", u)
  /\ UNCHANGED <<users, sessions, given, fk, restarts>>

\* handleSetup and handleLogin: store.CreateSession and the cookie.  The foreign
\* key refuses a session for a user who is gone.
CreateSession(q) ==
  LET u == requests[q].user
  IN  /\ requests[q].pc = "token"
      /\ fk => u \in DOMAIN users
      /\ sessions' = Added(sessions, q, [user |-> u, expired |-> FALSE])
      /\ given' = given \cup {q}
      /\ Answers(q, "served")
      /\ UNCHANGED <<users, fk, restarts>>

\* Seven days pass for session t.  Bound: one expired session at a time.
Expire(t) ==
  /\ \A s \in DOMAIN sessions: ~sessions[s].expired
  /\ sessions' = [sessions EXCEPT ![t].expired = TRUE]
  /\ UNCHANGED <<users, requests, given, fk, restarts>>

AccountsNext ==
  \/ Arrive
  \/ \E q \in Request:
       \/ Refuse(q) \/ GetSession(q) \/ GetUserByID(q)
       \/ HandleOther(q) \/ HandleLogout(q) \/ HandleCreateAPIUser(q)
       \/ HandleDeleteUser(q)
       \/ UserCount(q) \/ CreateFirstUser(q) \/ FindUser(q) \/ CreateSession(q)
  \/ \E t \in DOMAIN sessions: Expire(t)

--------------------------------------------------------------------------------
\* A request behind authMiddleware or adminMiddleware is served only if its
\* session was valid, its user existed and had the role when it arrived: what
\* logout, expiry or the deletion of the user revoked before stays revoked,
\* also when deleting a user left the session's row behind or a login under
\* way added one.
RevokedStaysRevoked ==
  \A q \in Request:
    requests[q].op \in Protected /\ requests[q].pc = "served"
      => requests[q].entitled

\* A user is there because an admin's request created it, or because setup
\* found the table empty at some moment while it ran.  Two setups at once may
\* both succeed; one that arrives after the first user is there does not.
SetupOnlyWhenEmpty ==
  \A u \in DOMAIN users \cap Request:
    IF requests[u].op = "create" THEN requests[u].entitled
    ELSE requests[u].empty

================================================================================
