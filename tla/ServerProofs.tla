---------------------------- MODULE ServerProofs -----------------------------
(***************************************************************************)
(* Proofs about the database and the log server, for every number of       *)
(* requests, creations, runs, restarts and lines, every limit of the       *)
(* retention and all rows an upgraded database may have: accounts and      *)
(* sessions, the project tables, the stream of a log, the retention sweep  *)
(* and the migrations.                                                     *)
(*                                                                         *)
(* Each part has an invariant of its own - AccountsInv, ProjectsInv,       *)
(* LogInv, SweepInv, SchemaPart - that holds initially and is kept by      *)
(* every step of the server; a step of another part leaves its variables   *)
(* alone.                                                                  *)
(***************************************************************************)
EXTENDS Server, FiniteSetTheorems, WellFoundedInduction, TLAPS

\* A function on 1..n is a sequence: what an update of all requests or all
\* creations at once gives.
LEMMA SeqOfFunction ==
  ASSUME NEW S, NEW n \in Nat, NEW f \in [1..n -> S]
  PROVE  f \in Seq(S) /\ Len(f) = n
OBVIOUS

\* Induction over the numbers, for a set of them.
LEMMA NumbersFrom0 ==
  ASSUME NEW S \in SUBSET Nat, 0 \in S, \A n \in S : n + 1 \in S
  PROVE  \A n \in Nat : n \in S
<1> DEFINE less == {ss \in Nat \X Nat : ss[1] < ss[2]}
           T == Nat \ S
<1> SUFFICES ASSUME T # {} PROVE FALSE
  OBVIOUS
<1>1. IsWellFoundedOn(less, Nat)
  BY NatLessThanWellFounded, Zenon DEF OpToRel
<1>2. T \in SUBSET Nat /\ T # {}
  OBVIOUS
<1> HIDE DEF T
<1>3. PICK x \in T : \A y \in T : ~(<<y, x>> \in less)
  BY <1>1, <1>2, WFMin
<1> USE DEF T
<1>4. x - 1 \in Nat /\ x - 1 < x /\ x \in Nat
  BY <1>3
<1>5. <<x - 1, x>> \in less
  BY <1>4
<1>6. x - 1 \in S
  BY <1>3, <1>4, <1>5
<1>7. (x - 1) + 1 = x
  BY <1>4
<1> QED  BY <1>3, <1>6, <1>7

-----------------------------------------------------------------------------
(* Accounts and sessions: the middleware and the user handlers of             *)
(* internal/logserver/server.go.                                              *)

\* IDs of users and tokens of sessions: those an earlier life of the process left
\* and the numbers of the requests that made them.
IDs == DOMAIN Established \cup Nat

\* Where a request is.
RequestPCs == {"session", "user", "handle", "count", "setup", "find", "token", "served", "refused"}

\* A request as Arrive makes it and the handlers change it.
Requests ==
  [op : Protected \cup {"setup", "login", "none"}, token : IDs, about : Names \cup IDs,
   user : IDs, pc : RequestPCs, entitled : BOOLEAN, empty : BOOLEAN]

\* The types of the requests and of the sessions.
AccountTypes ==
  /\ requests \in Seq(Requests) /\ Len(requests) <= MaxRequests
  /\ \A t \in DOMAIN sessions : sessions[t] \in [user : IDs, expired : BOOLEAN]

\* IDs that no step can insert into the table of users any more.
Old == DOMAIN Established \cup {q \in Request : requests[q].pc \in {"token", "served", "refused"}}
\* Tokens that no step can insert into the table of sessions any more.
Spent == DOMAIN Established \cup {q \in Request : requests[q].pc \in {"served", "refused"}}

\* User u may do op on the user `about'.
UserMay(op, u, about) ==
  /\ u \in DOMAIN users
  /\ op \in AdminOnly => users[u].role = "admin"
  /\ op = "password" => users[u].role = "admin" \/ u = about

\* The tables, and the tokens clients were given, name only such IDs.
IDsAreOld ==
  /\ DOMAIN users \subseteq Old
  /\ \A t \in DOMAIN sessions : sessions[t].user \in Old
  /\ given \subseteq Spent

\* Where a request is tells what it is and what it has found out; the ID and the
\* token it holds can be revoked but not granted again.
RequestInv(q) ==
  LET r == requests[q]
  IN  /\ r.pc \in {"session", "user", "handle"} => r.op \in Protected
      /\ r.pc \in {"count", "setup"} => r.op = "setup"
      /\ r.pc = "find" => r.op = "login"
      /\ r.pc = "token" => r.op \in {"setup", "login"}
      /\ r.pc \in {"user", "token"} => r.user \in Old
      /\ r.pc = "session" => r.token \in Spent
      /\ r.pc = "session" /\ Entitled(r.op, r.token, r.about) => r.entitled
      /\ r.pc = "user" /\ UserMay(r.op, r.user, r.about) => r.entitled
      /\ r.pc \in {"handle", "served"} /\ r.op \in Protected => r.entitled

\* A setup request past its count found the table empty while it was served, and
\* a user somebody created is the work of such a request or of an administrator
\* (handleSetup, handleCreateAPIUser).
SetupInv(q) ==
  LET r == requests[q]
  IN  /\ r.pc = "setup" => r.empty
      /\ r.pc \notin {"served", "refused"} /\ r.op = "setup" /\ users = << >> => r.empty
      /\ q \in DOMAIN users => IF r.op = "create" THEN r.entitled /\ r.pc = "served" ELSE r.empty

\* The inductive invariant of accounts and sessions.
AccountsInv ==
  /\ AccountTypes
  /\ IDsAreOld
  /\ \A q \in Request : RequestInv(q) /\ SetupInv(q)

\* A database with any of the established users satisfies it.
LEMMA AccountsStart == AccountsInit => AccountsInv
<1> SUFFICES ASSUME AccountsInit PROVE AccountsInv
  OBVIOUS
<1>1. requests = << >> /\ Request = {} /\ Len(requests) = 0 /\ requests \in Seq(Requests)
  BY DEF AccountsInit, Request
<1>2. DOMAIN users \subseteq DOMAIN Established
  BY DEF AccountsInit
<1>3. DOMAIN sessions = DOMAIN users /\ \A t \in DOMAIN sessions : sessions[t] = [user |-> t, expired |-> FALSE]
  BY DEF AccountsInit
<1>4. AccountTypes
  <2>1. Len(requests) <= MaxRequests
    BY <1>1, AccountsAssumption
  <2>2. \A t \in DOMAIN sessions : sessions[t] \in [user : IDs, expired : BOOLEAN]
    <3>1. \A t \in DOMAIN sessions : t \in IDs
      BY <1>2, <1>3 DEF IDs
    <3>2. ASSUME NEW t \in DOMAIN sessions PROVE sessions[t] \in [user : IDs, expired : BOOLEAN]
      <4>1. sessions[t] = [user |-> t, expired |-> FALSE] /\ t \in IDs
        BY <1>3, <3>1
      <4> QED  BY <4>1
    <3> QED  BY <3>2
  <2> QED  BY <1>1, <2>1, <2>2 DEF AccountTypes
<1>5. IDsAreOld
  BY <1>2, <1>3 DEF AccountsInit, IDsAreOld, Old, Spent
<1> QED  BY <1>1, <1>4, <1>5 DEF AccountsInv

\* Only request q changes.
Only(q) ==
  /\ Len(requests') = Len(requests)
  /\ \A p \in Request : p # q => requests'[p] = requests[p]

\* Goes moves one request on and keeps what it is about.
LEMMA GoesFacts ==
  ASSUME AccountTypes, NEW q \in Request, NEW pc \in RequestPCs, NEW u \in IDs, Goes(q, pc, u)
  PROVE  /\ requests' \in Seq(Requests) /\ Only(q)
         /\ requests'[q].pc = pc /\ requests'[q].user = u
         /\ requests'[q].op = requests[q].op /\ requests'[q].token = requests[q].token
         /\ requests'[q].about = requests[q].about
         /\ requests'[q].entitled = requests[q].entitled /\ requests'[q].empty = requests[q].empty
<1> DEFINE r == [requests[q] EXCEPT !.pc = pc, !.user = u]
<1>1. requests[q] \in Requests /\ DOMAIN requests = 1..Len(requests) /\ Len(requests) \in Nat
  BY DEF AccountTypes, Request
<1>2. r \in Requests
  BY <1>1 DEF Requests
<1>3. requests' = [requests EXCEPT ![q] = r]
  BY <1>1 DEF Goes, Requests
<1>4. /\ r.pc = pc /\ r.user = u /\ r.op = requests[q].op /\ r.token = requests[q].token
      /\ r.about = requests[q].about /\ r.entitled = requests[q].entitled /\ r.empty = requests[q].empty
  BY <1>1 DEF Requests
<1> HIDE DEF r
<1>5. requests' \in Seq(Requests) /\ Len(requests') = Len(requests) /\ requests'[q] = r
      /\ \A p \in Request : p # q => requests'[p] = requests[p]
  BY <1>1, <1>2, <1>3 DEF AccountTypes, Request
<1> QED  BY <1>4, <1>5 DEF Only

\* Answers ends one request; a refused one is forgotten.
LEMMA AnswersFacts ==
  ASSUME AccountTypes, NEW q \in Request, NEW pc \in {"served", "refused"}, Answers(q, pc)
  PROVE  /\ requests' \in Seq(Requests) /\ Only(q)
         /\ requests'[q].pc = pc 
         /\ requests'[q].op = (IF pc = "served" THEN requests[q].op ELSE "none")
         /\ pc = "served" => requests'[q].entitled = requests[q].entitled
         /\ requests'[q].empty = requests[q].empty
<1> DEFINE r == Finished(requests[q], pc)
<1>1. requests[q] \in Requests /\ DOMAIN requests = 1..Len(requests) /\ Len(requests) \in Nat
  BY DEF AccountTypes, Request
<1>2. requests[q].entitled \in BOOLEAN /\ requests[q].empty \in BOOLEAN
      /\ requests[q].op \in Protected \cup {"setup", "login", "none"}
  BY <1>1 DEF Requests
<1>3. r \in Requests
  BY <1>2 DEF Requests, Finished, RequestPCs, None, IDs
<1>4. requests' = [requests EXCEPT ![q] = r]
  BY <1>1 DEF Answers
<1>5. /\ r.pc = pc /\ r.op = (IF pc = "served" THEN requests[q].op ELSE "none")
      /\ pc = "served" => r.entitled = requests[q].entitled 
      /\ r.empty = requests[q].empty
  BY <1>2 DEF Finished
<1> HIDE DEF r
<1>6. requests' \in Seq(Requests) /\ Len(requests') = Len(requests) /\ requests'[q] = r
      /\ \A p \in Request : p # q => requests'[p] = requests[p]
  BY <1>1, <1>3, <1>4 DEF AccountTypes, Request
<1> QED  BY <1>5, <1>6 DEF Only

\* Request p is where it was; its history may only have become true.
Alike(p) ==
  /\ requests'[p].op = requests[p].op /\ requests'[p].pc = requests[p].pc
  /\ requests'[p].token = requests[p].token /\ requests'[p].about = requests[p].about
  /\ requests'[p].user = requests[p].user
  /\ requests[p].entitled => requests'[p].entitled
  /\ requests[p].empty => requests'[p].empty

\* A step of request q leaves the others alone and does not go back.
Moves(q) ==
  /\ requests' \in Seq(Requests) /\ Len(requests') = Len(requests)
  /\ \A p \in Request : p # q => Alike(p)
  /\ requests[q].pc \notin {"served", "refused"}
  /\ requests[q].pc = "token" => requests'[q].pc \in {"served", "refused"}

\* A user that is gone stays gone, and no role changes.
UsersShrink ==
  \A u \in Old : u \in DOMAIN users' => u \in DOMAIN users /\ users'[u] = users[u]

\* The same of sessions, which may also expire.
SessionsShrink ==
  \A t \in Spent : t \in DOMAIN sessions' =>
    /\ t \in DOMAIN sessions
    /\ sessions'[t].user = sessions[t].user
    /\ sessions[t].expired => sessions'[t].expired

\* What no step can insert any more stays that way.
LEMMA OldGrows ==
  ASSUME AccountTypes, NEW q \in Request, Moves(q)
  PROVE  Request' = Request /\ Old \subseteq Old' /\ Spent \subseteq Spent'
<1>1. Request' = Request
  BY DEF Moves, Request
<1>2. \A p \in Request : p # q => requests'[p].pc = requests[p].pc
  BY DEF Moves, Alike
<1>3. Old \subseteq Old'
  BY <1>1, <1>2 DEF Moves, Old
<1>4. Spent \subseteq Spent'
  BY <1>1, <1>2 DEF Moves, Spent
<1> QED  BY <1>1, <1>3, <1>4

\* Deletions and expiry grant nothing: who may do something after such a step
\* could do it before (authMiddleware, adminMiddleware).
LEMMA NothingIsGranted ==
  ASSUME AccountsInv, UsersShrink, SessionsShrink, NEW op, NEW about
  PROVE  /\ \A u \in Old : UserMay(op, u, about)' => UserMay(op, u, about)
         /\ \A t \in Spent : Entitled(op, t, about)' => Entitled(op, t, about)
<1>1. ASSUME NEW u \in Old, UserMay(op, u, about)'  PROVE UserMay(op, u, about)
  BY <1>1 DEF UsersShrink, UserMay
<1>2. ASSUME NEW t \in Spent, Entitled(op, t, about)'  PROVE Entitled(op, t, about)
  <2>1. PICK v : v = sessions'[t].user
    OBVIOUS
  <2>2. t \in DOMAIN sessions' /\ ~sessions'[t].expired /\ UserMay(op, v, about)'
    BY <1>2, <2>1 DEF Entitled, UserMay
  <2>3. t \in DOMAIN sessions /\ ~sessions[t].expired /\ v = sessions[t].user
    BY <2>1, <2>2 DEF SessionsShrink
  <2>4. v \in Old
    BY <2>3 DEF AccountsInv, IDsAreOld
  <2>5. UserMay(op, v, about)
    BY <1>1, <2>2, <2>4
  <2> QED  BY <2>3, <2>5 DEF Entitled, UserMay
<1> QED  BY <1>1, <1>2

\* The requests a step leaves alone keep what they may assume.
LEMMA OthersKept ==
  ASSUME AccountsInv, UsersShrink, SessionsShrink, Old \subseteq Old', Spent \subseteq Spent',
         NEW p \in Request, Alike(p),
         users' = << >> =>
           \/ users = << >>
           \/ requests[p].op = "setup" /\ requests[p].pc \notin {"served", "refused"} => requests'[p].empty,
         p \in DOMAIN users' => p \in DOMAIN users
  PROVE  RequestInv(p)' /\ SetupInv(p)'
<1>1. RequestInv(p) /\ SetupInv(p)
  BY DEF AccountsInv
<1>2. PICK op, tok, who, about : op = requests[p].op /\ tok = requests[p].token
                                 /\ who = requests[p].user /\ about = requests[p].about
  OBVIOUS
<1>3. op = requests'[p].op /\ tok = requests'[p].token /\ who = requests'[p].user
      /\ about = requests'[p].about /\ requests'[p].pc = requests[p].pc
  BY <1>2 DEF Alike
<1>4. requests[p].pc = "session" /\ Entitled(op, tok, about)' => requests[p].entitled
  BY <1>1, <1>2, NothingIsGranted DEF RequestInv
<1>5. requests[p].pc = "user" /\ UserMay(op, who, about)' => requests[p].entitled
  BY <1>1, <1>2, NothingIsGranted DEF RequestInv
<1>6. RequestInv(p)'
  BY <1>1, <1>2, <1>3, <1>4, <1>5 DEF RequestInv, Alike
<1>7. SetupInv(p)'
  BY <1>1 DEF SetupInv, Alike
<1> QED  BY <1>6, <1>7

\* A step of one request keeps the invariant, if it keeps its own part.
LEMMA StepKeeps ==
  ASSUME AccountsInv, NEW q \in Request, Moves(q), UsersShrink, SessionsShrink,
         \A t \in DOMAIN sessions' : sessions'[t] \in [user : IDs, expired : BOOLEAN],
         IDsAreOld', RequestInv(q)', SetupInv(q)',
         \A p \in Request : p # q /\ p \in DOMAIN users' => p \in DOMAIN users,
         users' = << >> => \/ users = << >>
                           \/ \A p \in Request :
                                requests[p].op = "setup" /\ requests[p].pc \notin {"served", "refused"} /\ p # q
                                  => requests'[p].empty
  PROVE  AccountsInv'
<1>1. Request' = Request /\ Old \subseteq Old' /\ Spent \subseteq Spent'
  BY OldGrows DEF AccountsInv
<1>2. AccountTypes'
  BY DEF AccountsInv, AccountTypes, Moves
<1>3. ASSUME NEW p \in Request, p # q  PROVE RequestInv(p)' /\ SetupInv(p)'
  BY <1>1, <1>3, OthersKept DEF Moves
<1> QED  BY <1>1, <1>2, <1>3 DEF AccountsInv

\* A step of one request that leaves the tables alone, but for sessions that go.
LEMMA ReadStepKeeps ==
  ASSUME AccountsInv, NEW q \in Request, Moves(q), UNCHANGED <<users, given>>,
         NEW S, sessions' = sessions \/ sessions' = Removed(sessions, S),
         RequestInv(q)', SetupInv(q)'
  PROVE  AccountsInv'
<1>1. Old \subseteq Old' /\ Spent \subseteq Spent'
  BY OldGrows DEF AccountsInv
<1>2. \A t \in DOMAIN sessions' : t \in DOMAIN sessions /\ sessions'[t] = sessions[t]
  BY DEF Removed
<1>3. UsersShrink /\ SessionsShrink
  BY <1>2 DEF UsersShrink, SessionsShrink
<1>4. \A t \in DOMAIN sessions' : sessions'[t] \in [user : IDs, expired : BOOLEAN]
  BY <1>2 DEF AccountsInv, AccountTypes
<1>5. IDsAreOld'
  BY <1>1, <1>2 DEF AccountsInv, IDsAreOld
<1> QED  BY <1>3, <1>4, <1>5, StepKeeps

\* Answers and Goes are moves.
LEMMA AnswersMoves ==
  ASSUME AccountsInv, NEW q \in Serving, NEW pc \in {"served", "refused"}, Answers(q, pc)
  PROVE  Moves(q)
<1>1. q \in Request /\ requests[q].pc \notin {"served", "refused"}
  BY DEF Serving
<1> QED  BY <1>1, AnswersFacts DEF AccountsInv, Moves, Only, Alike

\* A request that goes on is moved.
LEMMA GoesMoves ==
  ASSUME AccountsInv, NEW q \in Request, NEW pc \in RequestPCs, NEW u \in IDs, Goes(q, pc, u),
         requests[q].pc \notin {"served", "refused", "token"}
  PROVE  Moves(q)
BY GoesFacts DEF AccountsInv, Moves, Only, Alike

\* The types of a request, without its Booleans
LEMMA RequestTypes ==
  ASSUME AccountsInv, NEW q \in Request
  PROVE  /\ requests[q].op \in Protected \cup {"setup", "login", "none"}
         /\ requests[q].pc \in RequestPCs
         /\ requests[q].token \in IDs /\ requests[q].user \in IDs
         /\ RequestInv(q) /\ SetupInv(q)
<1>1. requests[q] \in Requests
  BY DEF AccountsInv, AccountTypes, Request
<1> QED  BY <1>1 DEF Requests, AccountsInv

\* A refusal, with or without the deletion of the session, keeps the invariant.
LEMMA RefusedKeeps ==
  ASSUME AccountsInv, NEW q \in Serving, Answers(q, "refused"), UNCHANGED <<users, given>>,
         NEW S, sessions' = sessions \/ sessions' = Removed(sessions, S)
  PROVE  AccountsInv'
<1>1. q \in Request
  BY DEF Serving
<1>2. Moves(q)
  BY AnswersMoves
<1>3. requests'[q].pc = "refused" /\ requests'[q].op = "none" /\ requests'[q].empty = requests[q].empty
  BY <1>1, AnswersFacts DEF AccountsInv
<1>4. RequestInv(q)'
  BY <1>3 DEF RequestInv, Protected, AdminOnly
<1>5. SetupInv(q)'
  <2>1. q \in DOMAIN users => requests[q].empty
    BY <1>1, RequestTypes DEF SetupInv, Serving
  <2> QED  BY <1>3, <2>1 DEF SetupInv
<1> QED  BY <1>1, <1>2, <1>4, <1>5, ReadStepKeeps

\* So does a handler that changes no user: a logout or one of the others.
LEMMA ServedKeeps ==
  ASSUME AccountsInv, NEW q \in Request, requests[q].pc = "handle", Answers(q, "served"), UNCHANGED <<users, given>>,
         NEW S, sessions' = sessions \/ sessions' = Removed(sessions, S)
  PROVE  AccountsInv'
<1>1. q \in Serving
  BY DEF Serving
<1>2. Moves(q)
  BY <1>1, AnswersMoves
<1>3. requests'[q].pc = "served" /\ requests'[q].op = requests[q].op
      /\ requests'[q].empty = requests[q].empty
      /\ requests'[q].entitled = requests[q].entitled
  BY AnswersFacts DEF AccountsInv
<1>4. RequestInv(q)'
  BY <1>3, RequestTypes DEF RequestInv
<1>5. SetupInv(q)'
  BY <1>3, RequestTypes DEF SetupInv
<1> QED  BY <1>2, <1>4, <1>5, ReadStepKeeps

\* The two reads of the authentication middleware, GetSession and GetUserByID:
\* what the second finds, the first entitled to.
LEMMA MiddlewareKeeps ==
  ASSUME AccountsInv, NEW q \in Request, GetSession(q) \/ GetUserByID(q)
  PROVE  AccountsInv'
<1>1. q \in Serving /\ UNCHANGED <<users, given>>
  BY DEF GetSession, GetUserByID, Serving
<1>2. PICK op, tok, about : op = requests[q].op /\ tok = requests[q].token /\ about = requests[q].about
  OBVIOUS
<1>3. RequestInv(q) /\ SetupInv(q) /\ requests[q].pc \in RequestPCs
  BY RequestTypes
<1>4. CASE GetSession(q) /\ tok \in DOMAIN sessions /\ ~sessions[tok].expired
  <2>1. PICK u : u = sessions[tok].user
    OBVIOUS
  <2>2. requests[q].pc = "session" /\ UNCHANGED <<users, sessions, given>> /\ Goes(q, "user", u)
    BY <1>2, <1>4, <2>1 DEF GetSession
  <2>3. u \in IDs /\ u \in Old
    BY <1>4, <2>1 DEF AccountsInv, AccountTypes, IDsAreOld
  <2>4. Moves(q)
    BY <2>2, <2>3, GoesMoves DEF RequestPCs
  <2>5. /\ requests'[q].pc = "user" /\ requests'[q].user = u
        /\ requests'[q].op = op /\ requests'[q].about = about
        /\ requests'[q].entitled = requests[q].entitled /\ requests'[q].empty = requests[q].empty
    BY <1>2, <2>2, <2>3, GoesFacts DEF RequestPCs, AccountsInv
  <2>6. UserMay(op, u, about) => requests[q].entitled
    BY <1>2, <1>3, <1>4, <2>1, <2>2 DEF RequestInv, Entitled, UserMay
  <2>7. u \in Old'
    BY <2>3, <2>4, OldGrows DEF AccountsInv
  <2>8. UserMay(op, u, about)' => UserMay(op, u, about)
    BY <2>2 DEF UserMay
  <2>9. RequestInv(q)'
    BY <1>2, <1>3, <2>2, <2>5, <2>6, <2>7, <2>8 DEF RequestInv
  <2>10. SetupInv(q)'
    BY <1>2, <1>3, <2>2, <2>5 DEF SetupInv, RequestInv, Protected, AdminOnly
  <2> QED  BY <2>2, <2>4, <2>9, <2>10, ReadStepKeeps
<1>5. CASE GetSession(q) /\ ~(tok \in DOMAIN sessions /\ ~sessions[tok].expired)
  <2>1. Answers(q, "refused") /\ sessions' = Removed(sessions, {tok})
    BY <1>2, <1>5 DEF GetSession
  <2> QED  BY <1>1, <2>1, RefusedKeeps
<1>6. PICK u : u = requests[q].user
  OBVIOUS
<1>7. CASE GetUserByID(q) /\ UserMay(op, u, about)
  <2>1. requests[q].pc = "user" /\ UNCHANGED <<users, sessions, given>> /\ Goes(q, "handle", u)
    BY <1>2, <1>6, <1>7 DEF GetUserByID, UserMay
  <2>2. u \in IDs
    BY <1>6, RequestTypes
  <2>3. Moves(q)
    BY <2>1, <2>2, GoesMoves DEF RequestPCs
  <2>4. /\ requests'[q].pc = "handle" /\ requests'[q].op = op
        /\ requests'[q].entitled = requests[q].entitled /\ requests'[q].empty = requests[q].empty
    BY <1>2, <2>1, <2>2, GoesFacts DEF RequestPCs, AccountsInv
  <2>5. requests[q].entitled /\ op \in Protected
    BY <1>2, <1>3, <1>6, <1>7, <2>1 DEF RequestInv
  <2>6. RequestInv(q)'
    BY <2>4, <2>5 DEF RequestInv
  <2>7. SetupInv(q)'
    BY <1>2, <1>3, <2>1, <2>4, <2>5 DEF SetupInv, Protected, AdminOnly
  <2> QED  BY <2>1, <2>3, <2>6, <2>7, ReadStepKeeps
<1>8. CASE GetUserByID(q) /\ ~UserMay(op, u, about)
  <2>1. Answers(q, "refused") /\ sessions' = sessions
    BY <1>2, <1>6, <1>8 DEF GetUserByID, UserMay
  <2> QED  BY <1>1, <2>1, RefusedKeeps
<1> QED  BY <1>4, <1>5, <1>7, <1>8

\* The reads of handleSetup and handleLogin.
LEMMA SetupLoginKeeps ==
  ASSUME AccountsInv, NEW q \in Request, UserCount(q) \/ FindUser(q)
  PROVE  AccountsInv'
<1>1. q \in Serving /\ UNCHANGED <<users, given, sessions>>
  BY DEF UserCount, FindUser, Serving
<1>2. RequestInv(q) /\ SetupInv(q) /\ requests[q].pc \in RequestPCs
  BY RequestTypes
<1>3. CASE UserCount(q) /\ users = << >>
  <2>1. requests[q].pc = "count" /\ Goes(q, "setup", None) /\ None \in IDs
    BY <1>3 DEF UserCount, None, IDs
  <2>2. Moves(q)
    BY <2>1, GoesMoves DEF RequestPCs
  <2>3. /\ requests'[q].pc = "setup" /\ requests'[q].op = requests[q].op
        /\ requests'[q].entitled = requests[q].entitled /\ requests'[q].empty = requests[q].empty
    BY <2>1, GoesFacts DEF RequestPCs, AccountsInv
  <2>4. requests[q].op = "setup" /\ requests[q].empty
    BY <1>2, <1>3, <2>1 DEF RequestInv, SetupInv
  <2>5. RequestInv(q)'
    BY <2>3, <2>4 DEF RequestInv, Protected, AdminOnly
  <2>6. SetupInv(q)'
    BY <2>3, <2>4 DEF SetupInv
  <2> QED  BY <1>1, <2>2, <2>5, <2>6, ReadStepKeeps
<1>4. CASE UserCount(q) /\ users # << >>
  BY <1>1, <1>4, RefusedKeeps DEF UserCount
<1>5. CASE FindUser(q)
  <2>1. PICK u \in DOMAIN users : Goes(q, "token", u)
    BY <1>5 DEF FindUser
  <2>2. requests[q].pc = "find" /\ u \in Old /\ u \in IDs
    BY <1>5 DEF FindUser, AccountsInv, IDsAreOld, Old, IDs, Request
  <2>3. Moves(q)
    BY <2>1, <2>2, GoesMoves DEF RequestPCs
  <2>4. /\ requests'[q].pc = "token" /\ requests'[q].op = requests[q].op /\ requests'[q].user = u
        /\ requests'[q].entitled = requests[q].entitled /\ requests'[q].empty = requests[q].empty
    BY <2>1, <2>2, GoesFacts DEF RequestPCs, AccountsInv
  <2>5. u \in Old'
    BY <2>2, <2>3, OldGrows DEF AccountsInv
  <2>6. RequestInv(q)'
    BY <1>2, <2>2, <2>4, <2>5 DEF RequestInv
  <2>7. SetupInv(q)'
    BY <1>1, <1>2, <2>2, <2>4 DEF SetupInv, RequestInv
  <2> QED  BY <1>1, <2>3, <2>6, <2>7, ReadStepKeeps
<1> QED  BY <1>3, <1>4, <1>5

\* INSERT INTO users under the ID of the request: nobody had that ID before.
LEMMA InsertKeeps ==
  ASSUME AccountsInv, NEW q \in Request, Moves(q), NEW role, InsertUser(q, role),
         UNCHANGED <<sessions, given>>, requests[q].pc \in {"handle", "setup"},
         requests'[q].pc \in {"token", "served"},
         RequestInv(q)', SetupInv(q)'
  PROVE  AccountsInv'
<1>1. Request' = Request /\ Old \subseteq Old' /\ Spent \subseteq Spent' /\ q \in Old'
  BY OldGrows DEF AccountsInv, Old
<1>2. q \notin Old
  <2>1. q \in 0 .. MaxRequests
    BY AccountsAssumption DEF AccountsInv, AccountTypes, Request
  <2> QED  BY <2>1, AccountsAssumption DEF Old
<1>3. /\ DOMAIN users' = DOMAIN users \cup {q}
      /\ \A u \in DOMAIN users : u # q => users'[u] = users[u]
  BY DEF InsertUser, Added
<1>4. UsersShrink /\ SessionsShrink
  BY <1>2, <1>3 DEF UsersShrink, SessionsShrink
<1>5. IDsAreOld'
  BY <1>1, <1>3 DEF AccountsInv, IDsAreOld
<1>6. users' # << >>
  <2>1. DOMAIN << >> = {}
    OBVIOUS
  <2> QED  BY <1>3, <2>1
<1> QED  BY <1>3, <1>4, <1>5, <1>6, StepKeeps DEF AccountsInv, AccountTypes

\* The two handlers that insert a user: an administrator's and the setup.
LEMMA CreateUserKeeps ==
  ASSUME AccountsInv, NEW q \in Request, HandleCreateAPIUser(q) \/ CreateFirstUser(q)
  PROVE  AccountsInv'
<1>1. RequestInv(q) /\ SetupInv(q) /\ requests[q].pc \in RequestPCs
  BY RequestTypes
<1>2. CASE HandleCreateAPIUser(q)
  <2>1. PICK role \in {"admin", "user"} : InsertUser(q, role)
    BY <1>2 DEF HandleCreateAPIUser
  <2>2. /\ Answers(q, "served") /\ requests[q].pc = "handle" /\ requests[q].op = "create"
        /\ q \in Serving
        /\ UNCHANGED <<sessions, given>>
    BY <1>2 DEF HandleCreateAPIUser, Serving
  <2>3. /\ requests'[q].pc = "served" /\ requests'[q].op = "create"
        /\ requests'[q].entitled = requests[q].entitled
    BY <2>2, AnswersFacts DEF AccountsInv
  <2>4. requests[q].entitled
    BY <1>1, <2>2 DEF RequestInv
  <2>5. RequestInv(q)' /\ SetupInv(q)'
    BY <2>3, <2>4 DEF RequestInv, SetupInv
  <2> QED  BY <2>1, <2>2, <2>3, <2>5, AnswersMoves, InsertKeeps
<1>3. CASE CreateFirstUser(q)
  <2>1. /\ Goes(q, "token", q) /\ requests[q].pc = "setup" /\ requests[q].op = "setup"
        /\ requests[q].empty
        /\ UNCHANGED <<sessions, given>> /\ InsertUser(q, "admin") /\ q \in IDs
    BY <1>1, <1>3 DEF CreateFirstUser, RequestInv, SetupInv, IDs, Request
  <2>2. Moves(q)
    BY <2>1, GoesMoves DEF RequestPCs
  <2>3. /\ requests'[q].pc = "token" /\ requests'[q].op = "setup" /\ requests'[q].user = q
        /\ requests'[q].empty = requests[q].empty
    BY <2>1, GoesFacts DEF RequestPCs, AccountsInv
  <2>4. q \in Old'
    BY <2>2, <2>3, OldGrows DEF AccountsInv, Old
  <2>5. RequestInv(q)' /\ SetupInv(q)'
    BY <2>1, <2>3, <2>4 DEF RequestInv, SetupInv
  <2> QED  BY <2>1, <2>2, <2>3, <2>5, InsertKeeps
<1> QED  BY <1>2, <1>3

\* DeleteUser takes the user, and with foreign keys its sessions; it may empty the
\* table under a setup request.
LEMMA DeleteKeeps ==
  ASSUME AccountsInv, NEW q \in Request, HandleDeleteUser(q)
  PROVE  AccountsInv'
<1>1. /\ requests[q].pc = "handle" /\ requests[q].op = "delete" /\ given' = given
      /\ \E S : sessions' = sessions \/ sessions' = Removed(sessions, S)
      /\ \E u : users' = Removed(users, {u})
  BY DEF HandleDeleteUser
<1> DEFINE fin == Finished(requests[q], "served")
           setups == {p \in Serving \ {q} : requests[p].op = "setup" /\ users' = << >>}
<1>2. requests' = [p \in Request |-> IF p = q THEN fin
                                    ELSE IF p \in setups THEN [requests[p] EXCEPT !.empty = TRUE]
                                    ELSE requests[p]]
  BY DEF HandleDeleteUser
<1>3. ASSUME NEW p \in Request
      PROVE  /\ requests[p] \in Requests
             /\ requests[p].entitled \in BOOLEAN /\ requests[p].empty \in BOOLEAN
             /\ requests[p].op \in Protected \cup {"setup", "login", "none"}
  <2>1. requests[p] \in Requests
    BY DEF AccountsInv, AccountTypes, Request
  <2> QED  BY <2>1 DEF Requests
<1>4. /\ fin \in Requests /\ fin.pc = "served" /\ fin.op = "delete"
      /\ fin.entitled = requests[q].entitled /\ fin.empty = requests[q].empty
  <2>1. fin \in Requests
    BY <1>3 DEF Requests, Finished, RequestPCs, None, IDs
  <2> QED  BY <1>1, <1>3, <2>1 DEF Finished
<1> HIDE DEF fin, setups
<1>5. ASSUME NEW p \in Request
      PROVE  LET r == [requests[p] EXCEPT !.empty = TRUE]
             IN  /\ r \in Requests /\ r.empty /\ r.op = requests[p].op /\ r.pc = requests[p].pc
                 /\ r.token = requests[p].token /\ r.about = requests[p].about
                 /\ r.user = requests[p].user /\ r.entitled = requests[p].entitled
  BY <1>3 DEF Requests
<1>6. ASSUME NEW p \in Request
      PROVE  /\ p = q => requests'[p] = fin
             /\ p # q /\ p \in setups => requests'[p] = [requests[p] EXCEPT !.empty = TRUE]
             /\ p # q /\ p \notin setups => requests'[p] = requests[p]
  BY <1>2
<1>7. requests' \in [1..Len(requests) -> Requests] /\ Len(requests) \in Nat
  <2>1. ASSUME NEW p \in Request PROVE requests'[p] \in Requests
    <3>1. CASE p = q
      BY <1>4, <1>6, <3>1
    <3>2. CASE p # q /\ p \in setups
      <4>1. [requests[p] EXCEPT !.empty = TRUE] \in Requests
        BY <1>5
      <4> QED  BY <1>6, <3>2, <4>1
    <3>3. CASE p # q /\ p \notin setups
      BY <1>3, <1>6, <3>3
    <3> QED  BY <3>1, <3>2, <3>3
  <2>2. requests' = [p \in Request |-> requests'[p]]
    <3> DEFINE val(p) == IF p = q THEN fin
                         ELSE IF p \in setups THEN [requests[p] EXCEPT !.empty = TRUE]
                         ELSE requests[p]
    <3>1. requests' = [p \in Request |-> val(p)]
      BY <1>2
    <3> HIDE DEF val
    <3> QED  BY <3>1
  <2>3. Request = 1..Len(requests) /\ Len(requests) \in Nat
    BY DEF Request, AccountsInv, AccountTypes
  <2> QED  BY <2>1, <2>2, <2>3
<1>8. requests' \in Seq(Requests) /\ Len(requests') = Len(requests)
  BY <1>7, SeqOfFunction
<1>9. ASSUME NEW p \in Request, p # q  PROVE Alike(p)
  BY <1>5, <1>6, <1>9 DEF Alike
<1>10. Moves(q)
  BY <1>1, <1>8, <1>9 DEF Moves
<1>11. requests'[q] = fin /\ requests[q].entitled
  BY <1>1, <1>6, RequestTypes DEF RequestInv, Protected, AdminOnly
<1>12. RequestInv(q)'
  BY <1>4, <1>11 DEF RequestInv
<1>13. \A u \in DOMAIN users' : u \in DOMAIN users /\ users'[u] = users[u]
  BY <1>1 DEF Removed
<1>14. SetupInv(q)'
  <2>1. q \in DOMAIN users => requests[q].empty
    BY <1>1, RequestTypes DEF SetupInv
  <2> QED  BY <1>4, <1>11, <1>13, <2>1 DEF SetupInv
<1>15. \A t \in DOMAIN sessions' : t \in DOMAIN sessions /\ sessions'[t] = sessions[t]
  BY <1>1 DEF Removed
<1>16. UsersShrink /\ SessionsShrink
  BY <1>13, <1>15 DEF UsersShrink, SessionsShrink
<1>17. \A t \in DOMAIN sessions' : sessions'[t] \in [user : IDs, expired : BOOLEAN]
  BY <1>15 DEF AccountsInv, AccountTypes
<1>18. IDsAreOld'
  <2>1. Old \subseteq Old' /\ Spent \subseteq Spent'
    BY <1>10, OldGrows DEF AccountsInv
  <2> QED  BY <1>1, <1>13, <1>15, <2>1 DEF AccountsInv, IDsAreOld
<1>19. ASSUME users' = << >>, NEW p \in Request, requests[p].op = "setup",
              requests[p].pc \notin {"served", "refused"}, p # q
       PROVE  requests'[p].empty
  <2>1. p \in setups
    BY <1>19 DEF setups, Serving
  <2> QED  BY <1>5, <1>6, <1>19, <2>1
<1> QED  BY <1>10, <1>12, <1>13, <1>14, <1>16, <1>17, <1>18, <1>19, StepKeeps

\* CreateSession inserts a token that was never used before.
LEMMA SessionKeeps ==
  ASSUME AccountsInv, NEW q \in Request, CreateSession(q)
  PROVE  AccountsInv'
<1>1. PICK u : u = requests[q].user
  OBVIOUS
<1>2. /\ requests[q].pc = "token" /\ q \in Serving /\ Answers(q, "served") /\ users' = users
      /\ sessions' = Added(sessions, q, [user |-> u, expired |-> FALSE]) /\ given' = given \cup {q}
  BY <1>1 DEF CreateSession, Serving
<1>3. RequestInv(q) /\ SetupInv(q) /\ u \in IDs
  BY <1>1, RequestTypes
<1>4. Moves(q)
  BY <1>2, AnswersMoves
<1>5. requests'[q].pc = "served" /\ requests'[q].op = requests[q].op
      /\ requests'[q].empty = requests[q].empty
  BY <1>2, AnswersFacts DEF AccountsInv
<1>6. Request' = Request /\ Old \subseteq Old' /\ Spent \subseteq Spent' /\ q \in Spent'
  BY <1>4, <1>5, OldGrows DEF AccountsInv, Spent
<1>7. q \notin Spent
  <2>1. q \in 0 .. MaxRequests
    BY AccountsAssumption DEF AccountsInv, AccountTypes, Request
  <2> QED  BY <1>2, <2>1, AccountsAssumption DEF Spent
<1>8. /\ DOMAIN sessions' = DOMAIN sessions \cup {q}
      /\ \A t \in DOMAIN sessions : t # q => sessions'[t] = sessions[t]
      /\ sessions'[q] = [user |-> u, expired |-> FALSE]
  BY <1>2 DEF Added
<1>9. UsersShrink /\ SessionsShrink
  BY <1>2, <1>7, <1>8 DEF UsersShrink, SessionsShrink
<1>10. [user |-> u, expired |-> FALSE] \in [user : IDs, expired : BOOLEAN]
  BY <1>3
<1>11. \A t \in DOMAIN sessions' : sessions'[t] \in [user : IDs, expired : BOOLEAN]
  BY <1>8, <1>10 DEF AccountsInv, AccountTypes
<1>12. IDsAreOld'
  <2>1. u \in Old
    BY <1>1, <1>2, <1>3 DEF RequestInv
  <2>2. \A t \in DOMAIN sessions' : sessions'[t].user \in Old'
    BY <1>6, <1>8, <2>1 DEF AccountsInv, IDsAreOld
  <2> QED  BY <1>2, <1>6, <2>2 DEF AccountsInv, IDsAreOld
<1>13. RequestInv(q)'
  BY <1>2, <1>3, <1>5 DEF RequestInv, Protected, AdminOnly
<1>14. SetupInv(q)'
  BY <1>2, <1>3, <1>5 DEF SetupInv, RequestInv
<1> QED  BY <1>2, <1>4, <1>9, <1>11, <1>12, <1>13, <1>14, StepKeeps

\* Time passes for a session.
LEMMA ExpireKeeps ==
  ASSUME AccountsInv, NEW s \in DOMAIN sessions, Expire(s)
  PROVE  AccountsInv'
<1>1. UNCHANGED <<users, requests, given>> /\ sessions' = [sessions EXCEPT ![s].expired = TRUE]
  BY DEF Expire
<1>2. Request' = Request /\ Old' = Old /\ Spent' = Spent
  BY <1>1 DEF Request, Old, Spent
<1>3. \A t \in DOMAIN sessions : sessions[t] \in [user : IDs, expired : BOOLEAN]
  BY DEF AccountsInv, AccountTypes
<1>4. /\ DOMAIN sessions' = DOMAIN sessions
      /\ \A t \in DOMAIN sessions : /\ sessions'[t] \in [user : IDs, expired : BOOLEAN]
                                    /\ sessions'[t].user = sessions[t].user
                                    /\ sessions[t].expired => sessions'[t].expired
  BY <1>1, <1>3
<1>5. UsersShrink /\ SessionsShrink
  BY <1>1, <1>4 DEF UsersShrink, SessionsShrink
<1>6. AccountTypes' /\ IDsAreOld'
  BY <1>1, <1>2, <1>4 DEF AccountsInv, AccountTypes, IDsAreOld
<1>7. ASSUME NEW p \in Request  PROVE RequestInv(p)' /\ SetupInv(p)'
  <2>1. Alike(p)
    BY <1>1 DEF Alike
  <2> QED  BY <1>1, <1>2, <1>5, <2>1, OthersKept
<1> QED  BY <1>2, <1>6, <1>7 DEF AccountsInv

\* A new request carries a token some client was given.
LEMMA ArriveKeeps ==
  ASSUME AccountsInv, Arrive
  PROVE  AccountsInv'
<1>1. PICK n : n = Len(requests) + 1
  OBVIOUS
<1>2. PICK op \in Protected \cup {"setup", "login"} :
        \E tok \in IF op \in Protected THEN given ELSE {None}, about \in About(op) :
          requests' = Append(requests,
           [op |-> op, token |-> tok, about |-> about, user |-> None,
            pc |-> IF op = "setup" THEN "count"
                   ELSE IF op = "login" THEN "find" ELSE "session",
            entitled |-> Entitled(op, tok, about),
            empty |-> op = "setup" /\ users = << >>])
  BY DEF Arrive
<1>3. PICK tok \in IF op \in Protected THEN given ELSE {None}, about \in About(op) :
          requests' = Append(requests,
           [op |-> op, token |-> tok, about |-> about, user |-> None,
            pc |-> IF op = "setup" THEN "count"
                   ELSE IF op = "login" THEN "find" ELSE "session",
            entitled |-> Entitled(op, tok, about),
            empty |-> op = "setup" /\ users = << >>])
  BY <1>2
<1> DEFINE r == [op |-> op, token |-> tok, about |-> about, user |-> None,
                 pc |-> IF op = "setup" THEN "count"
                        ELSE IF op = "login" THEN "find" ELSE "session",
                 entitled |-> Entitled(op, tok, about),
                 empty |-> op = "setup" /\ users = << >>]
<1>4. UNCHANGED <<users, sessions, given>> /\ Len(requests) < MaxRequests /\ Len(requests) \in Nat
  BY DEF Arrive, AccountsInv, AccountTypes
<1>5. Old \subseteq IDs /\ Spent \subseteq IDs
  BY DEF Old, Spent, IDs, Request
<1>6. tok \in IDs /\ about \in Names \cup IDs /\ None \in IDs
  <2>1. tok \in IDs /\ None \in IDs
    BY <1>5 DEF AccountsInv, IDsAreOld, None, IDs
  <2>2. about \in Names \cup IDs
    <3>1. DOMAIN users \subseteq IDs
      BY <1>5 DEF AccountsInv, IDsAreOld
    <3> QED  BY <2>1, <3>1 DEF About, Protected, AdminOnly
  <2> QED  BY <2>1, <2>2
<1>7. r \in Requests
  <2>1. Entitled(op, tok, about) \in BOOLEAN /\ (op = "setup" /\ users = << >>) \in BOOLEAN
    BY DEF Entitled
  <2> QED  BY <1>6, <2>1 DEF Requests, RequestPCs, Protected, AdminOnly
<1>8. /\ r.op = op /\ r.token = tok /\ r.about = about
      /\ r.pc = IF op = "setup" THEN "count" ELSE IF op = "login" THEN "find" ELSE "session"
      /\ r.entitled <=> Entitled(op, tok, about)
      /\ r.empty <=> op = "setup" /\ users = << >>
  OBVIOUS
<1>9. requests' = Append(requests, r)
  BY <1>3
<1> HIDE DEF r
<1>10. /\ requests' \in Seq(Requests) /\ Len(requests') = n
      /\ requests'[n] = r /\ \A p \in Request : requests'[p] = requests[p]
  BY <1>1, <1>4, <1>7, <1>9 DEF AccountsInv, AccountTypes, Request
<1>11. Request' = Request \cup {n}
  BY <1>1, <1>4, <1>10 DEF Request
<1>12. Old \subseteq Old' /\ Spent \subseteq Spent'
  BY <1>10, <1>11 DEF Old, Spent
<1>13. UsersShrink /\ SessionsShrink
  BY <1>4 DEF UsersShrink, SessionsShrink
<1>14. AccountTypes' /\ IDsAreOld'
  BY <1>1, <1>4, <1>10, <1>12, AccountsAssumption DEF AccountsInv, AccountTypes, IDsAreOld
<1>15. ASSUME NEW p \in Request  PROVE RequestInv(p)' /\ SetupInv(p)'
  <2>1. Alike(p)
    BY <1>10 DEF Alike
  <2> QED  BY <1>4, <1>12, <1>13, <2>1, OthersKept
<1>16. RequestInv(n)'
  <2>1. Entitled(op, tok, about)' = Entitled(op, tok, about)
    BY <1>4 DEF Entitled
  <2>2. op \in Protected => tok \in Spent'
    BY <1>12 DEF AccountsInv, IDsAreOld
  <2>3. requests'[n].pc \in {"count", "find", "session"}
    BY <1>8, <1>10
  <2> QED  BY <1>8, <1>10, <2>1, <2>2, <2>3 DEF RequestInv
<1>17. SetupInv(n)'
  <2>1. n \notin DOMAIN users
    <3>1. n \in 0 .. MaxRequests /\ n \notin Request
      BY <1>1, <1>4, AccountsAssumption DEF Request
    <3> QED  BY <3>1, AccountsAssumption DEF AccountsInv, IDsAreOld, Old
  <2> QED  BY <1>4, <1>8, <1>10, <2>1 DEF SetupInv
<1> QED  BY <1>11, <1>14, <1>15, <1>16, <1>17 DEF AccountsInv

\* Every step of the server keeps the invariant.
LEMMA AccountsKept ==
  ASSUME AccountsInv, [Next]_serverVars
  PROVE  AccountsInv'
<1>1. CASE AccountsNext
  <2>1. ASSUME NEW q \in Request, Refuse(q)  PROVE AccountsInv'
    BY <2>1, RefusedKeeps DEF Refuse
  <2>2. ASSUME NEW q \in Request, HandleOther(q) \/ HandleLogout(q)  PROVE AccountsInv'
    BY <2>2, ServedKeeps DEF HandleOther, HandleLogout
  <2> QED
    BY <1>1, <2>1, <2>2, ArriveKeeps, MiddlewareKeeps, SetupLoginKeeps, CreateUserKeeps,
       DeleteKeeps, SessionKeeps, ExpireKeeps DEF AccountsNext
<1>2. CASE UNCHANGED accountVars
  BY <1>2 DEF accountVars, AccountsInv, AccountTypes, IDsAreOld, Request, Old, Spent, RequestInv,
     SetupInv, Entitled, UserMay
<1> QED
  BY <1>1, <1>2, Zenon DEF Next, SchemaStep, AccountsStep, ProjectsStep, StreamStep, RetentionStep,
     serverVars

\* A protected request that is served was entitled at some moment after it came
\* in, however deletions, logouts, expiry and other requests fall between the two
\* reads of the middleware and the handler (server.go:74-105).
THEOREM RevocationHolds == Spec => []RevokedStaysRevoked
<1>1. Init => AccountsInv
  BY AccountsStart DEF Init
<1>2. AccountsInv => RevokedStaysRevoked
  BY DEF AccountsInv, RequestInv, RevokedStaysRevoked
<1> QED  BY <1>1, <1>2, AccountsKept, PTL DEF Spec

\* Without an administrator a user is created only by a setup request that met an
\* empty table while it was served (server.go:247-292).
THEOREM SetupIsOnce == Spec => []SetupOnlyWhenEmpty
<1>1. Init => AccountsInv
  BY AccountsStart DEF Init
<1>2. AccountsInv => SetupOnlyWhenEmpty
  BY DEF AccountsInv, SetupInv, SetupOnlyWhenEmpty
<1> QED  BY <1>1, <1>2, AccountsKept, PTL DEF Spec

-----------------------------------------------------------------------------
(* Projects, workflows and triggers.                                          *)

\* The workflow names of bodies and of the configuration, and the one added.
WorkflowNames == {Flow, Hello}

\* Where a creation is.
JobPCs == {"project", "flows", "hello", "created", "refused"}

\* A creation as NewJob makes it and its statements change it.
JobRecords ==
  [project : ProjectNames, seed : BOOLEAN, todo : Seq(WorkflowNames), names : SUBSET WorkflowNames,
   hello : BOOLEAN, pc : JobPCs, disturbed : BOOLEAN]

\* The types of the creations, the mutex and the daemon.
ProjectTypes ==
  /\ config \in Seq(ProjectNames)
  /\ jobs \in Seq(JobRecords)
  /\ mu \in Job \cup {0}
  /\ daemon \in {"down", "seeding", "serving"}
  /\ next \in Nat \ {0}

\* The row of the table workflows that creation j inserts for a name.
Row(j, name) == [project |-> jobs[j].project, name |-> name, by |-> j]

\* The row of project_triggers it inserts.
Trigger(j) == [project |-> jobs[j].project, by |-> j]

\* How far creation j is and which rows it has in the tables: between its
\* statements it holds the mutex, so no edit comes in; once it is done an edit that
\* takes something from it marks it disturbed.
JobInv(j) ==
  LET r == jobs[j]
  IN  /\ r.pc = "flows" <=> mu = j
      /\ r.pc = "project" => r.names \subseteq ToSet(r.todo)
      /\ r.pc \in {"project", "flows", "hello"} /\ r.hello => ~r.seed /\ r.names = {}
      /\ r.pc = "hello" => r.hello
      /\ r.pc = "flows" => r.project \in projects
      /\ r.pc = "flows" => \A name \in r.names \ ToSet(r.todo) : Row(j, name) \in flows
      /\ r.pc \in {"hello", "created"} /\ ~r.disturbed =>
           /\ r.project \in projects
           /\ \A name \in r.names : Row(j, name) \in flows
           /\ r.seed => Trigger(j) \in triggers

\* With foreign keys no workflow and no trigger is without its project.
NoDangling == fk => \A x \in flows \cup triggers : x.project \in projects

\* Creation j is the seed's, of project p.
SeedOf(j, p) == jobs[j].seed /\ jobs[j].project = p

\* Every configured project was created by a seed.
Seeded == \A p \in ToSet(config) : \E j \in Job : SeedOf(j, p) /\ jobs[j].pc = "created"

\* A seed nobody stopped goes through the configuration in order; a later start
\* finds an empty table or a complete seed (daemon.go, seedWatchesFromConfig).
SeedInv ==
  /\ daemon = "down" => Active = {}
  /\ seedCut
     \/ /\ daemon = "serving" => Seeded
        /\ daemon = "down" => Seeded \/ projects = {}
        /\ daemon = "seeding" =>
             \A i \in DOMAIN config : i < next =>
               \E j \in Job : SeedOf(j, config[i]) /\ jobs[j].pc # "refused"

\* The inductive invariant of the project tables.
ProjectsInv ==
  /\ ProjectTypes
  /\ \A j \in Job : JobInv(j)
  /\ NoDangling
  /\ SeedInv

\* An empty database satisfies it.
LEMMA ProjectsStart == ProjectsInit => ProjectsInv
<1> SUFFICES ASSUME ProjectsInit PROVE ProjectsInv
  OBVIOUS
<1>1. jobs = << >> /\ Job = {} /\ jobs \in Seq(JobRecords) /\ Len(jobs) = 0
  BY DEF ProjectsInit, Job
<1>2. ProjectTypes
  BY <1>1, ProjectsAssumption DEF ProjectsInit, ProjectTypes
<1>3. SeedInv
  BY <1>1 DEF ProjectsInit, SeedInv, Active
<1> QED  BY <1>1, <1>2, <1>3 DEF ProjectsInit, ProjectsInv, NoDangling

\* What the types say of one creation.
LEMMA JobTypes ==
  ASSUME ProjectTypes, NEW j \in Job
  PROVE  /\ jobs[j] \in JobRecords /\ jobs[j].project \in ProjectNames
         /\ jobs[j].todo \in Seq(WorkflowNames) /\ jobs[j].names \subseteq WorkflowNames
         /\ jobs[j].pc \in JobPCs /\ j \in Nat /\ j # 0
<1>1. jobs[j] \in JobRecords /\ j \in Nat /\ j # 0
  BY DEF ProjectTypes, Job
<1> QED  BY <1>1 DEF JobRecords

\* Job k is where it was
Same(k) ==
  /\ jobs'[k].project = jobs[k].project /\ jobs'[k].seed = jobs[k].seed
  /\ jobs'[k].todo = jobs[k].todo /\ jobs'[k].names = jobs[k].names
  /\ jobs'[k].hello = jobs[k].hello /\ jobs'[k].pc = jobs[k].pc

\* The tables keep what job k put there.
RowsKept(k) ==
  /\ jobs[k].project \in projects => jobs[k].project \in projects'
  /\ \A name \in WorkflowNames : Row(k, name) \in flows => Row(k, name) \in flows'
  /\ Trigger(k) \in triggers => Trigger(k) \in triggers'

\* A creation that stays where it is keeps its part if its rows stay, or if it is
\* marked disturbed and needs none.
LEMMA OtherJobs ==
  ASSUME ProjectTypes, NEW k \in Job, JobInv(k), Same(k), mu' = k <=> mu = k,
         jobs[k].pc = "flows" => RowsKept(k),
         jobs[k].pc \in {"hello", "created"} /\ ~jobs'[k].disturbed => ~jobs[k].disturbed /\ RowsKept(k)
  PROVE  JobInv(k)'
<1>1. jobs[k].names \subseteq WorkflowNames
  BY JobTypes
<1>2. \A name : Row(k, name)' = Row(k, name)
  BY DEF Row, Same
<1>3. Trigger(k)' = Trigger(k)
  BY DEF Trigger, Same
<1>4. /\ jobs'[k].pc = "flows" <=> mu' = k
      /\ jobs'[k].pc = "project" => jobs'[k].names \subseteq ToSet(jobs'[k].todo)
      /\ jobs'[k].pc \in {"project", "flows", "hello"} /\ jobs'[k].hello => ~jobs'[k].seed /\ jobs'[k].names = {}
      /\ jobs'[k].pc = "hello" => jobs'[k].hello
  BY DEF JobInv, Same
<1>5. /\ jobs'[k].pc = "flows" => jobs'[k].project \in projects'
      /\ jobs'[k].pc = "flows" => \A name \in jobs'[k].names \ ToSet(jobs'[k].todo) : Row(k, name)' \in flows'
  BY <1>1, <1>2 DEF JobInv, Same, RowsKept
<1>6. jobs'[k].pc \in {"hello", "created"} /\ ~jobs'[k].disturbed =>
           /\ jobs'[k].project \in projects'
           /\ \A name \in jobs'[k].names : Row(k, name)' \in flows'
           /\ jobs'[k].seed => Trigger(k)' \in triggers'
  BY <1>1, <1>2, <1>3 DEF JobInv, Same, RowsKept
<1> QED  BY <1>4, <1>5, <1>6 DEF JobInv

\* The list of creations after one of them moved.
LEMMA ReplaceFacts ==
  ASSUME ProjectTypes, NEW j \in Job, NEW r \in JobRecords, jobs' = [jobs EXCEPT ![j] = r]
  PROVE  /\ jobs' \in Seq(JobRecords) /\ Len(jobs') = Len(jobs) /\ Job' = Job /\ jobs'[j] = r
         /\ \A k \in Job : k # j => jobs'[k] = jobs[k]
<1>1. jobs \in Seq(JobRecords) /\ j \in 1..Len(jobs) /\ Len(jobs) \in Nat
  BY DEF ProjectTypes, Job
<1>2. /\ jobs' \in Seq(JobRecords) /\ Len(jobs') = Len(jobs) /\ jobs'[j] = r
      /\ \A k \in 1..Len(jobs) : k # j => jobs'[k] = jobs[k]
  BY <1>1
<1> QED  BY <1>2 DEF Job

\* A step of job j that puts rows into the tables and takes none out.
LEMMA JobStepKeeps ==
  ASSUME ProjectsInv, NEW j \in Job, NEW r \in JobRecords, jobs' = [jobs EXCEPT ![j] = r],
         mu \in {0, j}, mu' \in {0, j}, UNCHANGED <<config, next>>,
         daemon' \in {"down", "seeding", "serving"},
         projects \subseteq projects', flows \subseteq flows', triggers \subseteq triggers',
         JobInv(j)'
  PROVE  ProjectTypes' /\ \A k \in Job' : JobInv(k)'
<1>1. /\ jobs' \in Seq(JobRecords) /\ Len(jobs') = Len(jobs) /\ Job' = Job /\ jobs'[j] = r
      /\ \A k \in Job : k # j => jobs'[k] = jobs[k]
  BY ReplaceFacts DEF ProjectsInv
<1>2. ProjectTypes'
  BY <1>1 DEF ProjectsInv, ProjectTypes
<1>3. ASSUME NEW k \in Job, k # j  PROVE JobInv(k)'
  <2>1. Same(k) /\ jobs'[k].disturbed = jobs[k].disturbed /\ RowsKept(k)
    BY <1>1, <1>3 DEF Same, RowsKept
  <2>2. mu' = k <=> mu = k
    BY <1>3, JobTypes DEF ProjectsInv
  <2> QED  BY <2>1, <2>2, OtherJobs DEF ProjectsInv
<1> QED  BY <1>1, <1>2, <1>3

\* A step of job j that is no error brings the seed no further and loses none of it.
LEMMA SeedStepKeeps ==
  ASSUME ProjectsInv, NEW j \in Active, NEW r \in JobRecords, jobs' = [jobs EXCEPT ![j] = r],
         r.seed = jobs[j].seed, r.project = jobs[j].project, r.pc # "refused",
         UNCHANGED <<config, next, daemon, seedCut>>
  PROVE  SeedInv'
<1>1. j \in Job /\ jobs[j].pc \notin {"created", "refused"} /\ daemon # "down"
  BY DEF Active, ProjectsInv, SeedInv
<1>2. Job' = Job /\ jobs'[j] = r /\ \A k \in Job : k # j => jobs'[k] = jobs[k]
  BY <1>1, ReplaceFacts DEF ProjectsInv
<1>3. ASSUME NEW p, NEW k \in Job, SeedOf(k, p)  PROVE SeedOf(k, p)'
  BY <1>2, <1>3 DEF SeedOf
<1>4. Seeded => Seeded'
  <2> SUFFICES ASSUME Seeded, NEW p \in ToSet(config)
               PROVE  \E k \in Job : SeedOf(k, p)' /\ jobs'[k].pc = "created"
    BY <1>2 DEF Seeded
  <2>1. PICK k \in Job : SeedOf(k, p) /\ jobs[k].pc = "created"
    BY DEF Seeded
  <2> QED  BY <1>1, <1>2, <1>3, <2>1
<1>5. CASE seedCut
  BY <1>1, <1>5 DEF SeedInv
<1>6. CASE ~seedCut /\ daemon = "seeding"
  <2> SUFFICES ASSUME NEW i \in DOMAIN config, i < next
               PROVE  \E k \in Job' : SeedOf(k, config[i])' /\ jobs'[k].pc # "refused"
    BY <1>6 DEF SeedInv, SeedOf
  <2>1. PICK k \in Job : SeedOf(k, config[i]) /\ jobs[k].pc # "refused"
    BY <1>6 DEF ProjectsInv, SeedInv
  <2>2. PICK p : p = config[i]
    OBVIOUS
  <2>3. SeedOf(k, p)'
    BY <1>3, <2>1, <2>2
  <2> QED  BY <1>2, <2>1, <2>2, <2>3 DEF SeedOf
<1>7. CASE ~seedCut /\ daemon = "serving"
  BY <1>4, <1>7 DEF ProjectsInv, SeedInv
<1> QED  BY <1>1, <1>5, <1>6, <1>7 DEF ProjectsInv, ProjectTypes

\* INSERT INTO projects.
LEMMA InsertProjectKeeps ==
  ASSUME ProjectsInv, NEW j \in Job, InsertProject(j)
  PROVE  ProjectsInv'
<1> DEFINE r == [jobs[j] EXCEPT !.pc = "flows"]
<1>1. /\ jobs[j].pc = "project" /\ mu \in {0, j} /\ mu' = j
      /\ projects' = projects \cup {jobs[j].project}
      /\ UNCHANGED <<config, flows, triggers, daemon, next, seedCut, fk>>
  BY DEF InsertProject, Ready
<1>2. /\ jobs[j] \in JobRecords /\ r \in JobRecords /\ r.pc = "flows"
      /\ r.project = jobs[j].project /\ r.seed = jobs[j].seed
      /\ r.names = jobs[j].names /\ r.todo = jobs[j].todo /\ r.hello = jobs[j].hello
  <2>1. jobs[j] \in JobRecords
    BY JobTypes DEF ProjectsInv
  <2> QED  BY <2>1 DEF JobRecords, JobPCs
<1>3. jobs' = [jobs EXCEPT ![j] = r]
  BY DEF InsertProject
<1> HIDE DEF r
<1>4. jobs'[j] = r
  BY <1>2, <1>3, ReplaceFacts DEF ProjectsInv
<1>5. JobInv(j)
  BY DEF ProjectsInv
<1>6. JobInv(j)'
  BY <1>1, <1>2, <1>4, <1>5 DEF JobInv
<1>7. j \in Active
  BY <1>1 DEF Active
<1>8. SeedInv'
  BY <1>1, <1>2, <1>3, <1>7, SeedStepKeeps
<1>9. NoDangling'
  BY <1>1 DEF ProjectsInv, NoDangling
<1> QED  BY <1>1, <1>2, <1>3, <1>6, <1>8, <1>9, JobStepKeeps DEF ProjectsInv, ProjectTypes

\* A sequence is its head and its tail.
LEMMA HeadOrTail ==
  ASSUME NEW S, NEW s \in Seq(S), s # << >>
  PROVE  /\ Head(s) \in S /\ Tail(s) \in Seq(S)
         /\ ToSet(s) \subseteq ToSet(Tail(s)) \cup {Head(s)}
<1>1. Head(s) \in S /\ Tail(s) \in Seq(S) /\ Head(s) = s[1]
  OBVIOUS
<1>2. \A i \in DOMAIN s : i = 1 \/ (i - 1 \in DOMAIN Tail(s) /\ Tail(s)[i - 1] = s[i])
  OBVIOUS
<1>3. ASSUME NEW i \in DOMAIN s  PROVE s[i] \in ToSet(Tail(s)) \cup {Head(s)}
  <2>1. CASE i = 1
    BY <1>1, <2>1
  <2>2. CASE i # 1
    BY <1>2, <2>2 DEF ToSet
  <2> QED  BY <2>1, <2>2
<1> QED  BY <1>1, <1>3 DEF ToSet

\* One workflow of the body is inserted.
LEMMA InsertWorkflowKeeps ==
  ASSUME ProjectsInv, NEW j \in Job, InsertWorkflow(j)
  PROVE  ProjectsInv'
<1> DEFINE r == [jobs[j] EXCEPT !.todo = Tail(@)]
<1>1. PICK name : name = Head(jobs[j].todo)
  OBVIOUS
<1>2. /\ jobs[j].pc = "flows" /\ mu \in {0, j} /\ jobs[j].todo # << >>
      /\ Refers(jobs[j].project) /\ flows' = flows \cup {Row(j, name)}
      /\ UNCHANGED <<config, projects, triggers, mu, daemon, next, seedCut, fk>>
  BY <1>1 DEF InsertWorkflow, Ready, Row
<1>3. jobs[j] \in JobRecords /\ jobs[j].todo \in Seq(WorkflowNames)
  BY JobTypes DEF ProjectsInv
<1>4. Tail(jobs[j].todo) \in Seq(WorkflowNames)
      /\ ToSet(jobs[j].todo) \subseteq ToSet(Tail(jobs[j].todo)) \cup {name}
  BY <1>1, <1>2, <1>3, HeadOrTail
<1>5. /\ r \in JobRecords /\ r.pc = "flows" /\ r.project = jobs[j].project /\ r.seed = jobs[j].seed
      /\ r.names = jobs[j].names /\ r.todo = Tail(jobs[j].todo) /\ r.hello = jobs[j].hello
  BY <1>2, <1>3, <1>4 DEF JobRecords
<1>6. jobs' = [jobs EXCEPT ![j] = r]
  BY DEF InsertWorkflow
<1> HIDE DEF r
<1>7. jobs'[j] = r
  BY <1>5, <1>6, ReplaceFacts DEF ProjectsInv
<1>8. JobInv(j)
  BY DEF ProjectsInv
<1>9. \A n \in r.names \ ToSet(r.todo) : Row(j, n)' \in flows'
  <2>1. \A n : Row(j, n)' = Row(j, n)
    BY <1>5, <1>7 DEF Row
  <2> QED  BY <1>2, <1>4, <1>5, <1>8, <2>1 DEF JobInv
<1>10. JobInv(j)'
  BY <1>2, <1>5, <1>7, <1>8, <1>9 DEF JobInv
<1>11. j \in Active
  BY <1>2 DEF Active
<1>12. SeedInv'
  BY <1>2, <1>5, <1>6, <1>11, SeedStepKeeps
<1>13. NoDangling'
  BY <1>2 DEF ProjectsInv, NoDangling, Refers, Row
<1> QED  BY <1>2, <1>5, <1>6, <1>10, <1>12, <1>13, JobStepKeeps DEF ProjectsInv, ProjectTypes

\* The store's CreateProject returns.
LEMMA CreatedKeeps ==
  ASSUME ProjectsInv, NEW j \in Job, Created(j)
  PROVE  ProjectsInv'
<1> DEFINE r == [jobs[j] EXCEPT !.pc = IF jobs[j].hello THEN "hello" ELSE "created"]
<1>1. /\ jobs[j].pc = "flows" /\ mu \in {0, j} /\ mu' = 0 /\ jobs[j].todo = << >>
      /\ triggers' = IF jobs[j].seed THEN triggers \cup {Trigger(j)} ELSE triggers
      /\ UNCHANGED <<config, projects, flows, daemon, next, seedCut, fk>>
  BY DEF Created, Ready, Trigger
<1>2. jobs[j] \in JobRecords /\ j # 0
  BY JobTypes DEF ProjectsInv
<1>3. /\ r \in JobRecords /\ r.pc = (IF jobs[j].hello THEN "hello" ELSE "created")
      /\ r.project = jobs[j].project /\ r.seed = jobs[j].seed
      /\ r.names = jobs[j].names /\ r.todo = jobs[j].todo /\ r.hello = jobs[j].hello
  BY <1>2 DEF JobRecords, JobPCs
<1>4. jobs' = [jobs EXCEPT ![j] = r]
  BY DEF Created
<1> HIDE DEF r
<1>5. jobs'[j] = r
  BY <1>3, <1>4, ReplaceFacts DEF ProjectsInv
<1>6. JobInv(j)
  BY DEF ProjectsInv
<1>7. ToSet(jobs[j].todo) = {}
  BY <1>1 DEF ToSet
<1>8. /\ jobs[j].project \in projects'
      /\ \A n \in r.names : Row(j, n)' \in flows'
      /\ r.seed => Trigger(j)' \in triggers'
  <2>1. (\A n : Row(j, n)' = Row(j, n)) /\ Trigger(j)' = Trigger(j)
    BY <1>3, <1>5 DEF Row, Trigger
  <2> QED  BY <1>1, <1>3, <1>6, <1>7, <2>1 DEF JobInv
<1>9. JobInv(j)'
  BY <1>1, <1>2, <1>3, <1>5, <1>6, <1>8 DEF JobInv
<1>10. j \in Active
  BY <1>1 DEF Active
<1>11. SeedInv'
  BY <1>1, <1>3, <1>4, <1>10, SeedStepKeeps
<1>12. NoDangling'
  <2>1. jobs[j].project \in projects
    BY <1>1, <1>6 DEF JobInv
  <2> QED  BY <1>1, <2>1 DEF ProjectsInv, NoDangling, Trigger
<1> QED  BY <1>1, <1>3, <1>4, <1>9, <1>11, <1>12, JobStepKeeps DEF ProjectsInv, ProjectTypes

\* The hello-world workflow of a project without workflows.
LEMMA CreateHelloKeeps ==
  ASSUME ProjectsInv, NEW j \in Job, CreateHello(j)
  PROVE  ProjectsInv'
<1> DEFINE r == [jobs[j] EXCEPT !.pc = "created", !.names = {Hello}]
<1>1. /\ jobs[j].pc = "hello" /\ mu \in {0, j} /\ mu' = mu
      /\ Refers(jobs[j].project) /\ flows' = flows \cup {Row(j, Hello)}
      /\ UNCHANGED <<config, projects, triggers, daemon, next, seedCut, fk>>
  BY DEF CreateHello, Ready, Row
<1>2. jobs[j] \in JobRecords /\ j # 0
  BY JobTypes DEF ProjectsInv
<1>3. /\ r \in JobRecords /\ r.pc = "created" /\ r.project = jobs[j].project /\ r.seed = jobs[j].seed
      /\ r.names = {Hello} /\ r.disturbed = jobs[j].disturbed
  BY <1>2 DEF JobRecords, JobPCs, WorkflowNames
<1>4. jobs' = [jobs EXCEPT ![j] = r]
  BY <1>2 DEF CreateHello, JobRecords
<1> HIDE DEF r
<1>5. jobs'[j] = r
  BY <1>3, <1>4, ReplaceFacts DEF ProjectsInv
<1>6. JobInv(j)
  BY DEF ProjectsInv
<1>7. Row(j, Hello)' \in flows'
  BY <1>1, <1>3, <1>5 DEF Row
<1>8. ~jobs[j].seed
  BY <1>1, <1>6 DEF JobInv
<1>9. JobInv(j)'
  BY <1>1, <1>3, <1>5, <1>6, <1>7, <1>8 DEF JobInv
<1>10. j \in Active
  BY <1>1 DEF Active
<1>11. SeedInv'
  BY <1>1, <1>3, <1>4, <1>10, SeedStepKeeps
<1>12. NoDangling'
  BY <1>1 DEF ProjectsInv, NoDangling, Refers, Row
<1> QED  BY <1>1, <1>3, <1>4, <1>9, <1>11, <1>12, JobStepKeeps DEF ProjectsInv, ProjectTypes

\* A creation that ended in an error is a creation.
LEMMA FailedFacts ==
  ASSUME ProjectTypes, NEW j \in Job
  PROVE  /\ Failed(jobs[j]) \in JobRecords /\ Failed(jobs[j]).pc = "refused"
         /\ Failed(jobs[j]).project = jobs[j].project /\ Failed(jobs[j]).seed = jobs[j].seed
<1>1. jobs[j] \in JobRecords
  BY JobTypes
<1>2. << >> \in Seq(WorkflowNames) /\ {} \in SUBSET WorkflowNames /\ FALSE \in BOOLEAN
      /\ "refused" \in JobPCs
  BY DEF JobPCs
<1> QED  BY <1>1, <1>2 DEF JobRecords, Failed

\* A creation ends in an error.
LEMMA RefusedJobKeeps ==
  ASSUME ProjectsInv, NEW j \in Job, Refused(j)
  PROVE  ProjectsInv'
<1>1. /\ j \in Active /\ mu \in {0, j} /\ mu' = 0 /\ jobs' = [jobs EXCEPT ![j] = Failed(jobs[j])]
      /\ seedCut' = (seedCut \/ jobs[j].seed) /\ daemon' = (IF jobs[j].seed THEN "serving" ELSE daemon)
      /\ UNCHANGED <<config, projects, flows, triggers, next, fk>>
  BY DEF Refused, tableVars
<1>2. PICK r \in JobRecords : r = Failed(jobs[j]) /\ r.pc = "refused" /\ r.seed = jobs[j].seed
  BY FailedFacts DEF ProjectsInv
<1>3. Job' = Job /\ jobs'[j] = r /\ \A k \in Job : k # j => jobs'[k] = jobs[k]
  BY <1>1, <1>2, ReplaceFacts DEF ProjectsInv
<1>4. JobInv(j)'
  BY <1>1, <1>2, <1>3, JobTypes DEF JobInv, ProjectsInv
<1>5. daemon # "down" /\ daemon \in {"down", "seeding", "serving"}
  BY <1>1 DEF ProjectsInv, SeedInv, ProjectTypes
<1>6. SeedInv'
  <2>1. CASE jobs[j].seed \/ seedCut
    BY <1>1, <1>5, <2>1 DEF SeedInv
  <2>2. CASE ~jobs[j].seed /\ ~seedCut
    <3>1. ASSUME NEW p, NEW k \in Job, SeedOf(k, p)  PROVE SeedOf(k, p)' /\ jobs'[k] = jobs[k]
      BY <1>3, <2>2, <3>1 DEF SeedOf
    <3>2. Seeded => Seeded'
      BY <1>1, <1>3, <3>1 DEF Seeded
    <3>3. CASE daemon = "seeding"
      <4> SUFFICES ASSUME NEW i \in DOMAIN config, i < next
                   PROVE  \E k \in Job' : SeedOf(k, config[i])' /\ jobs'[k].pc # "refused"
        BY <1>1, <2>2, <3>3 DEF SeedInv, SeedOf
      <4>1. PICK k \in Job : SeedOf(k, config[i]) /\ jobs[k].pc # "refused"
        BY <2>2, <3>3 DEF ProjectsInv, SeedInv
      <4>2. PICK p : p = config[i]
        OBVIOUS
      <4>3. SeedOf(k, p)' /\ jobs'[k] = jobs[k]
        BY <3>1, <4>1, <4>2
      <4> QED  BY <1>1, <1>3, <4>1, <4>2, <4>3 DEF SeedOf
    <3>4. CASE daemon = "serving"
      BY <1>1, <2>2, <3>2, <3>4 DEF ProjectsInv, SeedInv
    <3> QED  BY <1>5, <3>3, <3>4
  <2> QED  BY <2>1, <2>2
<1>7. NoDangling'
  BY <1>1 DEF ProjectsInv, NoDangling
<1> QED  BY <1>1, <1>2, <1>4, <1>5, <1>6, <1>7, JobStepKeeps DEF ProjectsInv

\* A creation begins with no rows.
LEMMA NewJobFacts ==
  ASSUME ProjectsInv, NEW p \in ProjectNames, NEW seeding \in BOOLEAN, NEW names \in Seq(WorkflowNames),
         jobs' = NewJob(p, seeding, names), UNCHANGED <<config, projects, flows, triggers, mu>>,
         daemon' \in {"down", "seeding", "serving"}, next' \in Nat \ {0}
  PROVE  /\ ProjectTypes' /\ \A k \in Job' : JobInv(k)'
         /\ Job \subseteq Job' /\ \A k \in Job : jobs'[k] = jobs[k]
         /\ \E n \in Job' : SeedOf(n, p)' = seeding /\ jobs'[n].pc = "project"
<1> DEFINE r == [project |-> p, seed |-> seeding, todo |-> names, names |-> ToSet(names),
                 hello |-> ~seeding /\ names = << >>, pc |-> "project", disturbed |-> FALSE]
<1>1. PICK n : n = Len(jobs) + 1
  OBVIOUS
<1>2. jobs' = Append(jobs, r) /\ jobs \in Seq(JobRecords) /\ Len(jobs) \in Nat
  BY DEF NewJob, ProjectsInv, ProjectTypes
<1>3. ToSet(names) \subseteq WorkflowNames /\ (names = << >> => ToSet(names) = {})
  BY DEF ToSet
<1>4. r \in JobRecords
  BY <1>3 DEF JobRecords, JobPCs
<1>5. /\ r.project = p /\ r.seed = seeding /\ r.todo = names /\ r.names = ToSet(names)
      /\ r.pc = "project"
      /\ r.hello <=> ~seeding /\ names = << >>
  OBVIOUS
<1> HIDE DEF r
<1>6. /\ jobs' \in Seq(JobRecords) /\ Len(jobs') = n /\ jobs'[n] = r
      /\ \A k \in 1..Len(jobs) : jobs'[k] = jobs[k]
  BY <1>1, <1>2, <1>4
<1>7. Job' = Job \cup {n} /\ n \notin Job /\ n # 0 /\ \A k \in Job : jobs'[k] = jobs[k]
  BY <1>1, <1>2, <1>6 DEF Job
<1>8. ProjectTypes'
  BY <1>6, <1>7 DEF ProjectsInv, ProjectTypes
<1>9. ASSUME NEW k \in Job  PROVE JobInv(k)'
  <2>1. Same(k) /\ jobs'[k].disturbed = jobs[k].disturbed /\ RowsKept(k)
    BY <1>7 DEF Same, RowsKept
  <2> QED  BY <2>1, OtherJobs DEF ProjectsInv
<1>10. JobInv(n)'
  <2>1. mu # n
    BY <1>7 DEF ProjectsInv, ProjectTypes
  <2> QED  BY <1>3, <1>5, <1>6, <2>1 DEF JobInv
<1>11. SeedOf(n, p)' = seeding /\ jobs'[n].pc = "project"
  BY <1>5, <1>6 DEF SeedOf
<1> QED  BY <1>7, <1>8, <1>9, <1>10, <1>11

\* Creations that are done stay done, so a complete seed stays complete.
LEMMA SeededStays ==
  ASSUME Seeded, config' = config, Job \subseteq Job',
         \A k \in Job : jobs[k].pc = "created" =>
           jobs'[k].pc = "created" /\ jobs'[k].seed = jobs[k].seed /\ jobs'[k].project = jobs[k].project
  PROVE  Seeded'
<1> SUFFICES ASSUME NEW p \in ToSet(config)
             PROVE  \E k \in Job' : SeedOf(k, p)' /\ jobs'[k].pc = "created"
  BY DEF Seeded
<1>1. PICK k \in Job : SeedOf(k, p) /\ jobs[k].pc = "created"
  BY DEF Seeded
<1> QED  BY <1>1 DEF SeedOf

\* A request for a new project comes in.
LEMMA CreateProjectKeeps ==
  ASSUME ProjectsInv, CreateProject
  PROVE  ProjectsInv'
<1>1. PICK p \in Edited, names \in Bodies : jobs' = NewJob(p, FALSE, names)
  BY DEF CreateProject
<1>2. daemon = "serving"
      /\ UNCHANGED <<config, projects, flows, triggers, mu, daemon, next, seedCut, fk>>
  BY DEF CreateProject, tableVars
<1>3. p \in ProjectNames /\ names \in Seq(WorkflowNames) /\ FALSE \in BOOLEAN
  BY ProjectsAssumption DEF WorkflowNames
<1>4. /\ ProjectTypes' /\ \A k \in Job' : JobInv(k)'
      /\ Job \subseteq Job' /\ \A k \in Job : jobs'[k] = jobs[k]
  <2>1. daemon' \in {"down", "seeding", "serving"} /\ next' \in Nat \ {0}
    BY <1>2 DEF ProjectsInv, ProjectTypes
  <2> QED  BY <1>1, <1>2, <1>3, <2>1, NewJobFacts
<1>5. SeedInv'
  BY <1>2, <1>4, SeededStays DEF ProjectsInv, SeedInv
<1>6. NoDangling'
  BY <1>2 DEF ProjectsInv, NoDangling
<1> QED  BY <1>4, <1>5, <1>6 DEF ProjectsInv

\* The seed takes the next project or is through.
LEMMA SeedNextKeeps ==
  ASSUME ProjectsInv, SeedNext
  PROVE  ProjectsInv'
<1>1. daemon = "seeding" /\ Active = {}
      /\ UNCHANGED <<config, projects, flows, triggers, mu, seedCut, fk>>
  BY DEF SeedNext, tableVars
<1>2. config \in Seq(ProjectNames) /\ DOMAIN config = 1..Len(config) /\ Len(config) \in Nat
      /\ next \in Nat \ {0}
  BY DEF ProjectsInv, ProjectTypes
<1>3. NoDangling'
  BY <1>1 DEF ProjectsInv, NoDangling
<1>4. CASE next > Len(config)
  <2>1. daemon' = "serving" /\ UNCHANGED <<jobs, next>>
    BY <1>4 DEF SeedNext
  <2>2. ~seedCut => Seeded
    <3> SUFFICES ASSUME ~seedCut, NEW p \in ToSet(config)
                 PROVE  \E j \in Job : SeedOf(j, p) /\ jobs[j].pc = "created"
      BY DEF Seeded
    <3>1. PICK i \in DOMAIN config : p = config[i]
      BY DEF ToSet
    <3>2. i < next
      BY <1>2, <1>4
    <3>3. PICK j \in Job : SeedOf(j, p) /\ jobs[j].pc # "refused"
      BY <1>1, <3>1, <3>2 DEF ProjectsInv, SeedInv
    <3> QED  BY <1>1, <3>3 DEF Active
  <2>3. SeedInv'
    BY <1>1, <2>1, <2>2 DEF SeedInv, Seeded, SeedOf, Job
  <2>4. ProjectTypes'
    BY <1>1, <2>1 DEF ProjectsInv, ProjectTypes, Job
  <2>5. \A k \in Job' : JobInv(k)'
    BY <1>1, <2>1 DEF ProjectsInv, Job, JobInv, Row, Trigger
  <2> QED  BY <1>3, <2>3, <2>4, <2>5 DEF ProjectsInv
<1>5. CASE ~(next > Len(config))
  <2>1. jobs' = NewJob(config[next], TRUE, <<Flow>>) /\ next' = next + 1 /\ daemon' = daemon
    BY <1>5 DEF SeedNext
  <2>2. next \in DOMAIN config
    BY <1>2, <1>5
  <2>3. PICK p \in ProjectNames : p = config[next]
    BY <1>2, <2>2
  <2>4. <<Flow>> \in Seq(WorkflowNames) /\ TRUE \in BOOLEAN
    BY DEF WorkflowNames
  <2>5. daemon' \in {"down", "seeding", "serving"} /\ next' \in Nat \ {0}
    BY <1>1, <1>2, <2>1
  <2>6. /\ ProjectTypes' /\ \A k \in Job' : JobInv(k)'
        /\ Job \subseteq Job' /\ \A k \in Job : jobs'[k] = jobs[k]
        /\ \E n \in Job' : SeedOf(n, p)' = TRUE /\ jobs'[n].pc = "project"
    BY <1>1, <2>1, <2>3, <2>4, <2>5, NewJobFacts
  <2>7. ASSUME ~seedCut, NEW i \in DOMAIN config, i < next'
        PROVE  \E k \in Job' : SeedOf(k, config[i])' /\ jobs'[k].pc # "refused"
    <3>1. CASE i = next
      <4>1. PICK n \in Job' : SeedOf(n, p)' /\ jobs'[n].pc = "project"
        BY <2>6
      <4> QED  BY <1>1, <2>3, <3>1, <4>1 DEF SeedOf
    <3>2. CASE i # next
      <4>1. i < next
        BY <1>2, <2>1, <2>7, <3>2
      <4>2. PICK k \in Job : SeedOf(k, config[i]) /\ jobs[k].pc # "refused"
        BY <1>1, <2>7, <4>1 DEF ProjectsInv, SeedInv
      <4> QED  BY <1>1, <2>6, <4>2 DEF SeedOf
    <3> QED  BY <3>1, <3>2
  <2>8. SeedInv'
    BY <1>1, <2>1, <2>7 DEF SeedInv, SeedOf
  <2> QED  BY <1>3, <2>6, <2>8 DEF ProjectsInv
<1> QED  BY <1>4, <1>5

\* The daemon starts.
LEMMA BootKeeps ==
  ASSUME ProjectsInv, BootProjects
  PROVE  ProjectsInv'
<1>1. /\ daemon = "down" /\ daemon' = (IF projects = {} THEN "seeding" ELSE "serving") /\ next' = 1
      /\ UNCHANGED <<config, projects, flows, triggers, jobs, mu, seedCut, fk>>
  BY DEF BootProjects, tableVars
<1>2. ProjectTypes'
  BY <1>1 DEF ProjectsInv, ProjectTypes, Job
<1>3. \A k \in Job' : JobInv(k)'
  BY <1>1 DEF ProjectsInv, Job, JobInv, Row, Trigger
<1>4. NoDangling'
  BY <1>1 DEF ProjectsInv, NoDangling
<1>5. SeedInv'
  <2>1. \A i \in DOMAIN config : ~(i < 1)
    BY DEF ProjectsInv, ProjectTypes
  <2>2. Seeded' = Seeded
    BY <1>1 DEF Seeded, SeedOf, Job
  <2> QED  BY <1>1, <2>1, <2>2 DEF ProjectsInv, SeedInv
<1> QED  BY <1>2, <1>3, <1>4, <1>5 DEF ProjectsInv

\* A crash ends the creations under way; what they inserted stays.
LEMMA CrashKeeps ==
  ASSUME ProjectsInv, CrashProjects
  PROVE  ProjectsInv'
<1>1. /\ daemon # "down" /\ daemon' = "down" /\ mu' = 0 /\ fk' = fk
      /\ jobs' = [j \in Job |-> IF j \in Active THEN Failed(jobs[j]) ELSE jobs[j]]
      /\ seedCut' = (seedCut \/ daemon = "seeding")
      /\ UNCHANGED <<config, projects, flows, triggers, next>>
  BY DEF CrashProjects, tableVars, Stops
<1>2. ASSUME NEW j \in Job
      PROVE  /\ j \in Active => jobs'[j] = Failed(jobs[j]) /\ jobs'[j].pc = "refused"
             /\ j \notin Active => jobs'[j] = jobs[j]
             /\ jobs'[j] \in JobRecords
  BY <1>1, FailedFacts, JobTypes DEF ProjectsInv
<1>3. jobs' \in Seq(JobRecords) /\ Len(jobs') = Len(jobs)
  <2>1. jobs' = [j \in Job |-> jobs'[j]]
    BY <1>1
  <2>2. Job = 1..Len(jobs) /\ Len(jobs) \in Nat
    BY DEF Job, ProjectsInv, ProjectTypes
  <2>3. jobs' \in [1..Len(jobs) -> JobRecords]
    BY <1>2, <2>1, <2>2
  <2> QED  BY <2>2, <2>3, SeqOfFunction
<1>4. Job' = Job
  BY <1>3 DEF Job
<1>5. ProjectTypes'
  BY <1>1, <1>3, <1>4 DEF ProjectsInv, ProjectTypes
<1>6. ASSUME NEW k \in Job  PROVE JobInv(k)'
  <2>1. k # 0
    BY JobTypes DEF ProjectsInv
  <2>2. CASE k \in Active
    BY <1>1, <1>2, <2>1, <2>2 DEF JobInv
  <2>3. CASE k \notin Active
    <3>1. jobs[k].pc \in {"created", "refused"}
      BY <2>3 DEF Active
    <3>2. JobInv(k) /\ mu # k
      BY <3>1 DEF ProjectsInv, JobInv
    <3>3. Same(k) /\ jobs'[k].disturbed = jobs[k].disturbed /\ RowsKept(k)
      BY <1>1, <1>2, <2>3 DEF Same, RowsKept
    <3> QED  BY <1>1, <2>1, <3>1, <3>2, <3>3, OtherJobs DEF ProjectsInv
  <2> QED  BY <2>2, <2>3
<1>7. Active' = {}
  BY <1>2, <1>4 DEF Active
<1>8. SeedInv'
  <2>1. CASE seedCut \/ daemon = "seeding"
    BY <1>1, <1>7, <2>1 DEF SeedInv
  <2>2. CASE ~seedCut /\ daemon # "seeding"
    <3>1. Seeded
      BY <1>1, <2>2 DEF ProjectsInv, SeedInv, ProjectTypes
    <3>2. \A k \in Job : jobs[k].pc = "created" => jobs'[k] = jobs[k]
      BY <1>2 DEF Active
    <3>3. Seeded'
      BY <1>1, <1>4, <3>1, <3>2, SeededStays
    <3> QED  BY <1>1, <1>7, <3>3 DEF SeedInv
  <2> QED  BY <2>1, <2>2
<1>9. NoDangling'
  BY <1>1 DEF ProjectsInv, NoDangling
<1> QED  BY <1>4, <1>5, <1>6, <1>8, <1>9 DEF ProjectsInv

\* An edit marks the creations it takes something from.
Marked(k) ==
  /\ Same(k)
  /\ jobs[k].disturbed => jobs'[k].disturbed

\* Disturb marks creations and changes nothing else of them.
LEMMA DisturbFacts ==
  ASSUME ProjectTypes, NEW H,
         jobs' = [j \in Job |-> [jobs[j] EXCEPT
                   !.disturbed = @ \/ (j \in H /\ jobs[j].pc # "refused")]]
  PROVE  /\ jobs' \in Seq(JobRecords) /\ Job' = Job
         /\ \A k \in Job : /\ Marked(k)
                           /\ k \in H /\ jobs[k].pc # "refused" => jobs'[k].disturbed
<1>1. ASSUME NEW k \in Job
      PROVE  /\ jobs'[k] \in JobRecords /\ Marked(k)
             /\ k \in H /\ jobs[k].pc # "refused" => jobs'[k].disturbed
  <2> DEFINE d == jobs[k].disturbed \/ (k \in H /\ jobs[k].pc # "refused")
  <2>1. jobs[k] \in JobRecords /\ jobs'[k] = [jobs[k] EXCEPT !.disturbed = d]
    BY JobTypes
  <2>2. d \in BOOLEAN
    OBVIOUS
  <2>3. (jobs[k].disturbed => d) /\ (k \in H /\ jobs[k].pc # "refused" => d)
    OBVIOUS
  <2> HIDE DEF d
  <2> QED  BY <2>1, <2>2, <2>3 DEF JobRecords, Marked, Same
<1>2. Job = 1..Len(jobs) /\ Len(jobs) \in Nat
  BY DEF Job, ProjectTypes
<1>3. jobs' = [j \in Job |-> jobs'[j]]
  OBVIOUS
<1>4. jobs' \in [1..Len(jobs) -> JobRecords]
  BY <1>1, <1>2, <1>3
<1>5. jobs' \in Seq(JobRecords) /\ Len(jobs') = Len(jobs)
  BY <1>2, <1>4, SeqOfFunction
<1> QED  BY <1>1, <1>5 DEF Job

\* An edit happens while no creation is between its statements.
LEMMA EditKeeps ==
  ASSUME ProjectsInv, mu = 0, UNCHANGED EditVars, daemon = "serving",
         jobs' \in Seq(JobRecords), Job' = Job,
         \A k \in Job : /\ Marked(k)
                        /\ jobs[k].pc \in {"hello", "created"} /\ ~jobs'[k].disturbed => RowsKept(k),
         NoDangling'
  PROVE  ProjectsInv'
<1>1. mu' = 0 /\ UNCHANGED <<config, daemon, next, seedCut>>
  BY DEF EditVars
<1>2. ProjectTypes'
  BY <1>1 DEF ProjectsInv, ProjectTypes
<1>3. ASSUME NEW k \in Job  PROVE JobInv(k)'
  <2>1. JobInv(k) /\ k # 0 /\ jobs[k].pc # "flows"
    BY JobTypes DEF ProjectsInv, JobInv
  <2> QED  BY <1>1, <2>1, OtherJobs DEF ProjectsInv, Marked
<1>4. SeedInv'
  <2>1. Seeded => Seeded'
    BY <1>1, SeededStays DEF Marked, Same
  <2> QED  BY <1>1, <2>1 DEF ProjectsInv, SeedInv
<1> QED  BY <1>2, <1>3, <1>4 DEF ProjectsInv

\* A project, with foreign keys its rows, or a workflow is deleted.
LEMMA DeleteRowsKeeps ==
  ASSUME ProjectsInv, NEW p, DeleteProject(p) \/ \E name : DeleteWorkflow(p, name)
  PROVE  ProjectsInv'
<1> DEFINE H == {j \in Job : jobs[j].project = p}
<1>1. mu = 0 /\ UNCHANGED EditVars /\ daemon = "serving"
  BY DEF DeleteProject, DeleteWorkflow
<1>2. jobs' = [j \in Job |-> [jobs[j] EXCEPT !.disturbed = @ \/ (j \in H /\ jobs[j].pc # "refused")]]
  BY DEF DeleteProject, DeleteWorkflow, Disturb
<1> HIDE DEF H
<1>3. /\ jobs' \in Seq(JobRecords) /\ Job' = Job
      /\ \A k \in Job : /\ Marked(k)
                        /\ k \in H /\ jobs[k].pc # "refused" => jobs'[k].disturbed
  BY <1>2, DisturbFacts DEF ProjectsInv
<1>4. /\ \A x \in projects : x # p => x \in projects'
      /\ \A x \in flows : x.project # p => x \in flows'
      /\ \A x \in triggers : x.project # p => x \in triggers'
      /\ flows' \subseteq flows /\ triggers' \subseteq triggers
      /\ projects' = projects \/ (fk => \A x \in flows' \cup triggers' : x.project # p)
  BY DEF DeleteProject, DeleteWorkflow
<1>5. ASSUME NEW k \in Job, jobs[k].pc \in {"hello", "created"}, ~jobs'[k].disturbed  PROVE RowsKept(k)
  <2>1. jobs[k].project # p
    BY <1>3, <1>5 DEF H
  <2> QED  BY <1>4, <2>1 DEF RowsKept, Row, Trigger
<1>6. NoDangling'
  BY <1>1, <1>4 DEF ProjectsInv, NoDangling, EditVars
<1> QED  BY <1>1, <1>3, <1>5, <1>6, EditKeeps

\* A trigger is deleted.
LEMMA DeleteTriggerKeeps ==
  ASSUME ProjectsInv, NEW t, DeleteTrigger(t)
  PROVE  ProjectsInv'
<1> DEFINE H == {j \in Job : t.by = j}
<1>1. mu = 0 /\ UNCHANGED EditVars /\ daemon = "serving" /\ UNCHANGED <<projects, flows>>
      /\ triggers' = triggers \ {t}
  BY DEF DeleteTrigger
<1>2. jobs' = [j \in Job |-> [jobs[j] EXCEPT !.disturbed = @ \/ (j \in H /\ jobs[j].pc # "refused")]]
  BY DEF DeleteTrigger, Disturb
<1> HIDE DEF H
<1>3. /\ jobs' \in Seq(JobRecords) /\ Job' = Job
      /\ \A k \in Job : /\ Marked(k)
                        /\ k \in H /\ jobs[k].pc # "refused" => jobs'[k].disturbed
  BY <1>2, DisturbFacts DEF ProjectsInv
<1>4. ASSUME NEW k \in Job, jobs[k].pc \in {"hello", "created"}, ~jobs'[k].disturbed  PROVE RowsKept(k)
  <2>1. t.by # k
    BY <1>3, <1>4 DEF H
  <2>2. Trigger(k) # t
    BY <2>1 DEF Trigger
  <2> QED  BY <1>1, <2>2 DEF RowsKept
<1>5. NoDangling'
  BY <1>1 DEF ProjectsInv, NoDangling, EditVars
<1> QED  BY <1>1, <1>3, <1>4, <1>5, EditKeeps

\* A workflow or a trigger is added to a project.
LEMMA AddRowKeeps ==
  ASSUME ProjectsInv, NEW p, CreateWorkflow(p) \/ CreateTrigger(p)
  PROVE  ProjectsInv'
<1>1. mu = 0 /\ UNCHANGED EditVars /\ daemon = "serving" /\ UNCHANGED <<projects, jobs>> /\ Refers(p)
  BY DEF CreateWorkflow, CreateTrigger
<1>2. /\ flows \subseteq flows' /\ triggers \subseteq triggers'
      /\ \A x \in (flows' \cup triggers') \ (flows \cup triggers) : x.project = p
  BY DEF CreateWorkflow, CreateTrigger
<1>3. jobs' \in Seq(JobRecords) /\ Job' = Job /\ \A k \in Job : Marked(k) /\ RowsKept(k)
  BY <1>1, <1>2 DEF ProjectsInv, ProjectTypes, Job, Marked, Same, RowsKept
<1>4. NoDangling'
  BY <1>1, <1>2 DEF ProjectsInv, NoDangling, EditVars, Refers
<1> QED  BY <1>1, <1>3, <1>4, EditKeeps

\* Every step of the server keeps the invariant.
LEMMA ProjectsKept ==
  ASSUME ProjectsInv, [Next]_serverVars
  PROVE  ProjectsInv'
<1>1. CASE ProjectsNext
  BY <1>1, BootKeeps, SeedNextKeeps, CreateProjectKeeps, CrashKeeps, RefusedJobKeeps, InsertProjectKeeps,
     InsertWorkflowKeeps, CreatedKeeps, CreateHelloKeeps, DeleteRowsKeeps, AddRowKeeps,
        DeleteTriggerKeeps
  DEF ProjectsNext
<1>2. CASE UNCHANGED <<projectVars, fk>>
  BY <1>2 DEF projectVars, tableVars, ProjectsInv, ProjectTypes, Job, Active, JobInv, Row, Trigger,
     NoDangling, SeedInv,
     Seeded, SeedOf
<1>3. ASSUME SchemaStep \/ AccountsStep \/ StreamStep \/ RetentionStep \/ UNCHANGED serverVars
      PROVE  UNCHANGED <<projectVars, fk>>
  <2>1. SchemaStep => UNCHANGED fk
    BY DEF SchemaStep, SchemaNext, Boot, CheckFile, ExecStatement, RecordFile, StopSchema, Stops
  <2>2. AccountsNext => UNCHANGED fk
    BY DEF AccountsNext, Arrive, Refuse, GetSession, GetUserByID, HandleOther, HandleLogout,
       HandleCreateAPIUser, HandleDeleteUser, UserCount, CreateFirstUser, FindUser, CreateSession, Expire
  <2>3. Writing => UNCHANGED fk
    BY DEF Writing, RunJob, StartRun, MarkRunning, CreateLog, WriteLine, RunnerReturns, AppendError,
       Finish, Leave, TimeOut, CancelRun, RecordCanceled
  <2>4. Reading \/ Sweeping \/ CrashLogs \/ Tick => UNCHANGED fk
    BY DEF Reading, Stream, CopyLog, OpenLog, Drain, CheckStatus, FinalDrain, Wait, Disconnect, GetLog,
       Sweeping, ReadDir, StatFile, FreeSpace, Swept, Rest, CrashLogs, Stops, Tick
  <2> QED
    BY <1>3, <2>1, <2>2, <2>3, <2>4 DEF SchemaStep, AccountsStep, StreamStep, RetentionStep, serverVars
<1> QED  BY <1>1, <1>2, <1>3 DEF Next, ProjectsStep

\* A project that was created has everything of its request or configuration
\* until an edit deletes some of it, an uninterrupted seed creates every configured
\* project, and with foreign keys nothing is orphaned: for any interleaving of
\* creations, edits and crashes (store.go:544-576, daemon.go:153-195).
THEOREM ProjectsStayWhole == Spec => []ProjectsAreWhole
<1>1. Init => ProjectsInv
  BY ProjectsStart DEF Init
<1>2. ProjectsInv => ProjectsAreWhole
  BY DEF ProjectsInv, ProjectsAreWhole, CreatedIsWhole, SeedIsWhole, NoDangling, JobInv, Row,
     Trigger, SeedInv, Seeded, SeedOf
<1> QED  BY <1>1, <1>2, ProjectsKept, PTL DEF Spec

-----------------------------------------------------------------------------
(* The log of a run and its stream.                                           *)

\* runs.status
Statuses == {"none", "queued", "running", "success", "failure", "error", "canceled"}

\* Where runJob is.
WriterPCs == {"idle", "queued", "create", "write", "discard", "success", "failure",
              "append", "error", "leave", "gone"}

\* Where handleRunLog is.
ReaderPCs == Streaming \cup {"idle", "finished", "cut"}

\* The types of the flags, and of the rest.
LogFlags ==
  /\ ctxDone \in [Runs -> BOOLEAN]
  /\ cancel \in [Runs -> BOOLEAN]

\* The types of everything else.
LogData ==
  /\ status \in [Runs -> Statuses]
  /\ writer \in [Runs -> WriterPCs]
  /\ path \in [Runs -> 0..2]
  /\ lines \in [Runs -> [1..2 -> Nat]]
  /\ reader \in [pc : ReaderPCs, run : Runs \cup {NoRun}, file : 0..2, read : Nat]
  /\ reader.pc # "idle" => reader.run \in Runs

\* A status that is final and no cancellation was written by runJob itself,
\* which then writes no more (daemon.go).
FinalMeansWritten ==
  \A w \in Runs :
    /\ status[w] \in {"success", "failure", "error"} => writer[w] \in {"leave", "gone"}
    /\ writer[w] = "idle" => status[w] = "none"

\* CancelRun ends the context before it writes, so the status it writes stays.
CanceledStays ==
  \A w \in Runs :
    /\ cancel[w] => ctxDone[w]
    /\ ctxDone[w] => writer[w] # "idle"
    /\ status[w] = "canceled" => ctxDone[w] \/ writer[w] = "gone"

\* Without retention there is one file.
OneFile ==
  \A w \in Runs \ lost : path[w] # 2 /\ lines[w][2] = 0

\* A stream that knows its run is over is right, and reads the one file there is.
StreamInv ==
  LET w == reader.run
  IN  /\ reader.pc \in {"copy", "final", "finished"} => IsTerminal(status[w])
      /\ w \notin lost => reader.file # 2
      /\ FinishedLogIsWhole

\* The inductive invariant of the runs and their logs.
LogInv == LogFlags /\ LogData /\ FinalMeansWritten /\ CanceledStays /\ OneFile /\ StreamInv

\* The steps that touch them.
LogStep == Writing \/ Reading \/ Sweeping \/ CrashLogs \/ Tick

\* The runs of an earlier life of the process satisfy it.
LEMMA LogStart == LogInit => LogInv
<1> SUFFICES ASSUME LogInit PROVE LogInv
  OBVIOUS
<1>1. LogFlags
  BY DEF LogInit, LogFlags
<1>2. lines \in [Runs -> [1..2 -> Nat]] /\ \A w \in Runs : lines[w][2] = 0
  BY DEF LogInit
<1>3. LogData
  BY <1>2 DEF LogInit, LogData, Statuses, WriterPCs, ReaderPCs, Streaming, NoReader
<1>4. FinalMeansWritten /\ CanceledStays
  BY DEF LogInit, FinalMeansWritten, CanceledStays
<1>5. OneFile
  BY <1>2 DEF LogInit, OneFile
<1>6. StreamInv
  BY DEF LogInit, StreamInv, NoReader, FinishedLogIsWhole
<1> QED  BY <1>1, <1>3, <1>4, <1>5, <1>6 DEF LogInv

\* A step keeps the flags Boolean.
LEMMA FlagsKept ==
  ASSUME LogInv, LogStep
  PROVE  LogFlags'
<1> USE DEF LogInv, LogFlags
<1>1. CASE UNCHANGED <<ctxDone, cancel>>
  BY <1>1
<1>2. ASSUME NEW w \in Runs, TimeOut(w) \/ CancelRun(w) \/ RecordCanceled(w) PROVE LogFlags'
  BY <1>2, Zenon DEF TimeOut, CancelRun, RecordCanceled
<1>3. CASE CrashLogs
  BY <1>3, Zenon DEF CrashLogs
<1> QED
  BY <1>1, <1>2, <1>3, Zenon DEF LogStep, Writing, Reading, Sweeping, Tick, runVars, StartRun,
     RunJob, MarkRunning, CreateLog, WriteLine,
     RunnerReturns, AppendError, Finish, Leave, Stream, CopyLog, OpenLog, Drain, CheckStatus,
        FinalDrain, Wait, Disconnect, GetLog,
     ReadDir, StatFile, FreeSpace, Swept, Rest

\* UpdateRunStatus changes the status of one run, or of none if its context is
\* done.
LEMMA StatusStep ==
  ASSUME LogInv, NEW w \in Runs, NEW s \in Statuses, SetStatus(w, s)
  PROVE  /\ status' \in [Runs -> Statuses]
         /\ \A v \in Runs : status'[v] = IF v = w /\ ~ctxDone[w] THEN s ELSE status[v]
BY DEF LogInv, LogData, SetStatus

\* A step keeps the other types.
LEMMA DataKept ==
  ASSUME LogInv, LogStep
  PROVE  LogData'
<1> USE DEF LogInv, LogData, Statuses, WriterPCs, ReaderPCs, Streaming
<1>1. ASSUME NEW w \in Runs, StartRun(w) \/ MarkRunning(w) \/ Finish(w) PROVE LogData'
  <2>1. status' \in [Runs -> Statuses] /\ UNCHANGED <<path, lines, reader>>
    BY <1>1, StatusStep DEF StartRun, MarkRunning, Finish, fileVars
  <2>2. writer' \in [Runs -> WriterPCs]
    BY <1>1 DEF StartRun, MarkRunning, Finish, At
  <2> QED  BY <2>1, <2>2
<1>2. ASSUME NEW w \in Runs, CreateLog(w) PROVE LogData'
  BY <1>2 DEF CreateLog, At
<1>3. ASSUME NEW w \in Runs, RunnerReturns(w) \/ Leave(w) PROVE LogData'
  BY <1>3 DEF RunnerReturns, Leave, At, fileVars
<1>4. ASSUME NEW w \in Runs, WriteLine(w) PROVE LogData'
  BY <1>4 DEF WriteLine, runVars
<1>5. ASSUME NEW w \in Runs, AppendError(w) PROVE LogData'
  BY <1>5 DEF AppendError, At
<1>6. ASSUME NEW w \in Runs, TimeOut(w) \/ CancelRun(w) PROVE LogData'
  BY <1>6 DEF TimeOut, CancelRun, fileVars
<1>7. ASSUME NEW w \in Runs, RecordCanceled(w) PROVE LogData'
  BY <1>7 DEF RecordCanceled, fileVars
<1>8. ASSUME NEW w \in Runs, GetLog(w) PROVE LogData'
  BY <1>8 DEF GetLog, fileVars, runVars
<1>9. CASE OpenLog \/ CheckStatus \/ Wait
  BY <1>9 DEF OpenLog, CheckStatus, Wait, fileVars, runVars
<1>10. CASE Drain \/ FinalDrain \/ CopyLog
  <2>1. reader.run \in Runs /\ path[reader.run] \in 0..2
    BY <1>10 DEF Drain, FinalDrain, CopyLog
  <2>2. \A f \in 0..2 : Read(f) \in Nat
    BY <2>1 DEF Read
  <2>3. CASE Drain
    BY <2>1, <2>2, <2>3 DEF Drain, fileVars, runVars
  <2>4. CASE FinalDrain
    BY <2>1, <2>2, <2>4 DEF FinalDrain, fileVars, runVars
  <2>5. CASE CopyLog
    BY <2>1, <2>2, <2>5 DEF CopyLog, fileVars, runVars
  <2> QED  BY <1>10, <2>3, <2>4, <2>5
<1>11. CASE Disconnect
  BY <1>11 DEF Disconnect, NoReader, fileVars, runVars
<1>12. ASSUME NEW w, Unlink(w), UNCHANGED <<runVars, reader>> PROVE LogData'
  <2>1. path' \in [Runs -> 0..2]
    <3>1. path \in [Runs -> 0..2] /\ path' = [path EXCEPT ![w] = 0] /\ 0 \in 0..2
      BY <1>12 DEF Unlink
    <3> QED  BY <3>1, Zenon
  <2> QED  BY <1>12, <2>1 DEF Unlink, runVars
<1>13. CASE UNCHANGED <<runVars, fileVars, reader>>
  BY <1>13 DEF runVars, fileVars
<1>14. CASE CrashLogs
  BY <1>14 DEF CrashLogs, NoReader, fileVars
<1>15. ASSUME NEW w \in Runs, StatFile(w) PROVE LogData'
  BY <1>12, <1>13, <1>15 DEF StatFile
<1>16. CASE FreeSpace
  BY <1>12, <1>13, <1>16 DEF FreeSpace
<1>17. CASE Sweeping \/ Tick
  BY <1>13, <1>15, <1>16, <1>17 DEF Sweeping, ReadDir, Swept, Rest, Tick
<1> QED
  BY <1>1, <1>2, <1>3, <1>4, <1>5, <1>6, <1>7, <1>8, <1>9, <1>10, <1>11, <1>14, <1>17, Zenon
     DEF LogStep, Writing, RunJob, Reading, Stream

\* What a step does to the states of the runs.
LEMMA RunsKept ==
  ASSUME LogInv, LogStep
  PROVE  FinalMeansWritten' /\ CanceledStays'
<1> USE DEF LogInv, LogFlags, LogData, FinalMeansWritten, CanceledStays
<1>1. ASSUME NEW w \in Runs, StartRun(w) \/ MarkRunning(w) \/ Finish(w)
      PROVE  FinalMeansWritten' /\ CanceledStays'
  <2>1. PICK s \in Statuses \ {"none", "canceled"}, p \in WriterPCs \ {"idle", "gone"} :
          /\ SetStatus(w, s) /\ writer' = [writer EXCEPT ![w] = p]
          /\ s \in {"success", "failure", "error"} => p = "leave"
          /\ writer[w] \notin {"leave", "gone"}
          /\ UNCHANGED <<ctxDone, cancel>>
    <3>1. CASE StartRun(w)
      BY <3>1 DEF StartRun, At, Statuses, WriterPCs
    <3>2. CASE MarkRunning(w)
      BY <3>2 DEF MarkRunning, At, Statuses, WriterPCs
    <3>3. CASE Finish(w)
      BY <3>3 DEF Finish, Statuses, WriterPCs
    <3> QED  BY <1>1, <3>1, <3>2, <3>3
  <2>2. \A v \in Runs : status'[v] = IF v = w /\ ~ctxDone[w] THEN s ELSE status[v]
    BY <2>1, StatusStep
  <2>3. FinalMeansWritten'
    BY <2>1, <2>2
  <2>4. CanceledStays'
    BY <2>1, <2>2
  <2> QED  BY <2>3, <2>4
<1>2. ASSUME NEW w \in Runs, CreateLog(w) \/ RunnerReturns(w) \/ AppendError(w)
      PROVE  FinalMeansWritten' /\ CanceledStays'
  <2>1. PICK p \in WriterPCs \ {"idle", "gone", "leave"} :
          /\ writer' = [writer EXCEPT ![w] = p]
          /\ writer[w] \notin {"idle", "leave", "gone"}
          /\ UNCHANGED <<status, ctxDone, cancel>>
    BY <1>2 DEF CreateLog, RunnerReturns, AppendError, At, WriterPCs
  <2> QED  BY <2>1
<1>3. ASSUME NEW w \in Runs, Leave(w)  PROVE FinalMeansWritten' /\ CanceledStays'
  BY <1>3 DEF Leave, At
<1>4. ASSUME NEW w \in Runs, TimeOut(w)  PROVE FinalMeansWritten' /\ CanceledStays'
  BY <1>4 DEF TimeOut, InFlight
<1>5. ASSUME NEW w \in Runs, CancelRun(w)  PROVE FinalMeansWritten' /\ CanceledStays'
  BY <1>5 DEF CancelRun, InFlight
<1>6. ASSUME NEW w \in Runs, RecordCanceled(w)  PROVE FinalMeansWritten' /\ CanceledStays'
  BY <1>6 DEF RecordCanceled
<1>7. CASE CrashLogs
  BY <1>7 DEF CrashLogs, InFlight, Statuses
<1>8. CASE UNCHANGED runVars
  BY <1>8 DEF runVars
<1> QED
  BY <1>1, <1>2, <1>3, <1>4, <1>5, <1>6, <1>7, <1>8, Zenon
     DEF LogStep, Writing, Reading, Sweeping, Tick, RunJob, WriteLine, Stream, CopyLog, OpenLog,
         Drain, CheckStatus, FinalDrain, Wait, Disconnect, GetLog, ReadDir, StatFile, FreeSpace,
         Swept, Rest

\* Only runJob appends to a log, and it does so before it writes the status.
LEMMA FilesKept ==
  ASSUME LogInv, LogStep
  PROVE  OneFile' /\ lost \subseteq lost'
<1> USE DEF LogInv, LogData, OneFile
<1>1. ASSUME NEW w \in Runs, CreateLog(w)  PROVE OneFile' /\ lost \subseteq lost'
  BY <1>1 DEF CreateLog
<1>2. ASSUME NEW w \in Runs, WriteLine(w)  PROVE OneFile' /\ lost \subseteq lost'
  BY <1>2 DEF WriteLine
<1>3. ASSUME NEW w \in Runs, AppendError(w)  PROVE OneFile' /\ lost \subseteq lost'
  BY <1>3 DEF AppendError
<1>4. ASSUME NEW w, Unlink(w)  PROVE OneFile' /\ lost \subseteq lost'
  BY <1>4 DEF Unlink
<1>5. CASE UNCHANGED fileVars
  BY <1>5 DEF fileVars
<1>6. CASE Sweeping
  BY <1>4, <1>5, <1>6 DEF Sweeping, ReadDir, StatFile, FreeSpace, Swept, Rest
<1> QED
  BY <1>1, <1>2, <1>3, <1>5, <1>6, Zenon
     DEF LogStep, Writing, Reading, Tick, RunJob, StartRun, MarkRunning, RunnerReturns, Finish,
         Leave, TimeOut, CancelRun, RecordCanceled, Stream, CopyLog, OpenLog, Drain, CheckStatus,
         FinalDrain, Wait, Disconnect, GetLog, CrashLogs

\* Once the status of a run is final it stays so, and unless it was canceled
\* its log is complete.
LEMMA FinalStays ==
  ASSUME LogInv, LogStep, NEW w \in Runs, IsTerminal(status[w])
  PROVE  /\ IsTerminal(status'[w])
         /\ status'[w] # "canceled" => status[w] # "canceled" /\ lines'[w] = lines[w]
<1> USE DEF LogInv, LogFlags, LogData, FinalMeansWritten, CanceledStays, IsTerminal
<1> DEFINE Goal == /\ IsTerminal(status'[w])
                   /\ status'[w] # "canceled" => status[w] # "canceled" /\ lines'[w] = lines[w]
<1>1. ASSUME NEW v \in Runs, StartRun(v) \/ MarkRunning(v) \/ Finish(v)  PROVE Goal
  <2>1. /\ UNCHANGED lines /\ writer[v] \notin {"leave", "gone"}
        /\ \E s \in Statuses : SetStatus(v, s)
    BY <1>1 DEF StartRun, MarkRunning, Finish, At, Statuses, fileVars
  <2>2. status'[w] = status[w]
    <3>1. CASE v = w
      <4>1. ctxDone[w]
        BY <2>1, <3>1
      <4> QED  BY <2>1, <3>1, <4>1 DEF SetStatus
    <3>2. CASE v # w
      BY <2>1, <3>2, StatusStep
    <3> QED  BY <3>1, <3>2
  <2> QED  BY <2>1, <2>2
<1>2. ASSUME NEW v \in Runs, WriteLine(v) \/ AppendError(v)  PROVE Goal
  <2>1. UNCHANGED status /\ writer[v] \notin {"leave", "gone"} /\ (v # w => lines'[w] = lines[w])
    BY <1>2 DEF WriteLine, AppendError, At, runVars
  <2> QED  BY <2>1
<1>3. ASSUME NEW v \in Runs, RecordCanceled(v)  PROVE Goal
  <2>1. UNCHANGED lines /\ status'[w] \in {status[w], "canceled"}
    BY <1>3 DEF RecordCanceled, fileVars
  <2> QED  BY <2>1
<1>4. CASE CrashLogs
  <2>1. UNCHANGED lines /\ status'[w] = status[w]
    BY <1>4 DEF CrashLogs, fileVars
  <2> QED  BY <2>1
<1>5. CASE UNCHANGED <<status, lines>>
  BY <1>5
<1>6. CASE Sweeping
  BY <1>5, <1>6 DEF Sweeping, ReadDir, StatFile, Unlink, FreeSpace, Swept, Rest, runVars, fileVars
<1>7. CASE Writing
  BY <1>1, <1>2, <1>3, <1>5, <1>7, Zenon
     DEF Writing, RunJob, CreateLog, RunnerReturns, Leave, TimeOut, CancelRun, fileVars
<1>8. CASE Reading \/ Tick
  BY <1>5, <1>8, Zenon
     DEF Tick, Reading, Stream, CopyLog, OpenLog, Drain, CheckStatus, FinalDrain, Wait, Disconnect,
         GetLog, runVars, fileVars
<1> QED  BY <1>4, <1>6, <1>7, <1>8, Zenon DEF LogStep

\* A stream whose run is over reads the file once more before it ends.
LEMMA StreamKept ==
  ASSUME LogInv, LogStep, OneFile', lost \subseteq lost'
  PROVE  StreamInv'
<1> USE DEF LogInv, LogData
<1>1. CASE UNCHANGED reader
  <2>1. CASE reader.run \in Runs
    BY <1>1, <2>1, FinalStays DEF StreamInv, FinishedLogIsWhole
  <2>2. CASE reader.pc = "idle"
    BY <1>1, <2>2 DEF StreamInv, FinishedLogIsWhole
  <2> QED  BY <2>1, <2>2
<1>2. ASSUME reader'.pc \notin {"copy", "final", "finished"}, reader'.file = 0  PROVE StreamInv'
  BY <1>2 DEF StreamInv, FinishedLogIsWhole
<1>3. ASSUME NEW w \in Runs, GetLog(w)  PROVE StreamInv'
  BY <1>3 DEF GetLog, StreamInv, FinishedLogIsWhole, fileVars, runVars
<1>4. CASE CopyLog
  <2> DEFINE w == reader.run
             f == path[w]
  <2>1. w \in Runs /\ IsTerminal(status[w]) /\ UNCHANGED <<status, lines, lost>>
    BY <1>4 DEF CopyLog, StreamInv, fileVars, runVars
  <2>2. reader' = [reader EXCEPT !.pc = "finished", !.file = f, !.read = Read(f)]
    BY <1>4 DEF CopyLog
  <2>3. reader'.run = w /\ reader'.file = f /\ reader'.read = Read(f)
    BY <2>2
  <2>4. w \notin lost => f # 2 /\ (f # 0 => Read(f) = lines[w][1] + lines[w][2])
    BY <2>1 DEF OneFile, Read
  <2> QED  BY <2>1, <2>3, <2>4 DEF StreamInv, FinishedLogIsWhole
<1>5. CASE FinalDrain
  <2> DEFINE w == reader.run
             f == reader.file
  <2>1. w \in Runs /\ UNCHANGED <<status, lines, lost>>
    BY <1>5 DEF FinalDrain, fileVars, runVars
  <2>2. /\ reader'.run = w /\ reader'.file = f /\ reader'.read = Read(f)
        /\ reader'.pc = IF reader.pc = "final" THEN "finished" ELSE "cut"
    BY <1>5 DEF FinalDrain
  <2>3. w \notin lost => f # 2 /\ (f # 0 => Read(f) = lines[w][1] + lines[w][2])
    BY <2>1 DEF OneFile, Read, StreamInv
  <2>4. reader'.pc = "finished" => IsTerminal(status[w])
    BY <2>2 DEF StreamInv
  <2>5. reader'.pc \in {"finished", "cut"}
    BY <2>2
  <2> QED  BY <2>1, <2>2, <2>3, <2>4, <2>5 DEF StreamInv, FinishedLogIsWhole
<1>6. CASE OpenLog
  <2>1. reader.run \in Runs
    BY <1>6 DEF OpenLog
  <2> QED  BY <1>6, <2>1 DEF OpenLog, StreamInv, FinishedLogIsWhole, OneFile, fileVars, runVars
<1>7. CASE Drain
  BY <1>7 DEF Drain, StreamInv, FinishedLogIsWhole, fileVars, runVars
<1>8. CASE CheckStatus
  BY <1>8 DEF CheckStatus, StreamInv, FinishedLogIsWhole, fileVars, runVars
<1>9. CASE Wait
  BY <1>9 DEF Wait, StreamInv, FinishedLogIsWhole, fileVars, runVars
<1>10. CASE Disconnect \/ CrashLogs
  BY <1>2, <1>10 DEF Disconnect, CrashLogs, NoReader
<1>11. CASE Writing
  BY <1>1, <1>11, Zenon
     DEF Writing, RunJob, StartRun, MarkRunning, CreateLog, WriteLine, RunnerReturns, AppendError,
         Finish, Leave, TimeOut, CancelRun, RecordCanceled
<1>12. CASE Sweeping \/ Tick
  BY <1>1, <1>12, Zenon DEF Sweeping, Tick, ReadDir, StatFile, FreeSpace, Swept, Rest
<1> QED
  BY <1>3, <1>4, <1>5, <1>6, <1>7, <1>8, <1>9, <1>10, <1>11, <1>12, Zenon
     DEF LogStep, Reading, Stream

\* Every step of the server keeps the invariant.
LEMMA LogNext ==
  ASSUME LogInv, [Next]_serverVars
  PROVE  LogInv'
<1>1. CASE LogStep
  BY <1>1, FlagsKept, DataKept, RunsKept, FilesKept, StreamKept DEF LogInv
<1>2. CASE UNCHANGED logVars
  BY <1>2 DEF logVars, runVars, fileVars, LogInv, LogFlags, LogData, FinalMeansWritten, CanceledStays,
     OneFile, StreamInv, FinishedLogIsWhole
<1> QED
  BY <1>1, <1>2, Zenon DEF Next, SchemaStep, AccountsStep, ProjectsStep, StreamStep, RetentionStep,
     LogStep, serverVars

\* A stream that ends because its run is over has delivered every line, the error
\* runJob appends last included, however many lines are written while it polls
\* (server.go:388-468), if it found the file and neither retention nor a
\* cancellation came in.
THEOREM FinishedStreamIsWhole == Spec => []FinishedLogIsWhole
<1>1. Init => LogInv
  BY LogStart DEF Init
<1>2. LogInv => FinishedLogIsWhole
  BY DEF LogInv, StreamInv
<1> QED  BY <1>1, <1>2, LogNext, PTL DEF Spec

-----------------------------------------------------------------------------
(* Sums over finite sets: MapThenSumSet is a recursive function, of which the *)
(* provers know only that it satisfies its equation if anything does.         *)

\* h is the fold of MapThenSumSet over the numbers g gives to the elements of U.
AddUp(h, g, s) ==
  IF s = {} THEN 0
  ELSE LET x == CHOOSE x \in s : TRUE IN g[x] + h[s \ {x}]

\* h is the function of those sums over the subsets of U.
Sums(h, g, U) == h = [s \in SUBSET U |-> AddUp(h, g, s)]

\* Subsets of a finite set by their size.
LEMMA SmallerSubset ==
  ASSUME NEW U, IsFiniteSet(U), NEW s \in SUBSET U, s # {}, NEW n \in Nat, Cardinality(s) <= n + 1,
         NEW x \in s
  PROVE  s \ {x} \in SUBSET U /\ Cardinality(s \ {x}) <= n
<1>1. IsFiniteSet(s) /\ Cardinality(s) \in Nat
  BY FS_Subset, FS_CardinalityType
<1>2. Cardinality(s \ {x}) = Cardinality(s) - 1
  BY <1>1, FS_RemoveElement
<1> QED  BY <1>1, <1>2

\* The subsets of a finite set have a largest size.
LEMMA SubsetSize ==
  ASSUME NEW U, IsFiniteSet(U)
  PROVE  \E N \in Nat : \A s \in SUBSET U : Cardinality(s) <= N
BY FS_Subset, FS_CardinalityType

\* Over a finite set there is such a function: level by level, by the size of the
\* subsets.
LEMMA SumExists ==
  ASSUME NEW U, IsFiniteSet(U), NEW g
  PROVE  \E h : Sums(h, g, U)
<1> DEFINE Good(h, n) == /\ DOMAIN h = SUBSET U
                         /\ \A s \in SUBSET U : Cardinality(s) <= n => h[s] = AddUp(h, g, s)
           S == {n \in Nat : \E h : Good(h, n)}
<1>1. \A s \in SUBSET U : Cardinality(s) \in Nat /\ (Cardinality(s) = 0 <=> s = {})
  BY FS_Subset, FS_CardinalityType, FS_EmptySet
<1>2. 0 \in S
  <2> DEFINE h == [s \in SUBSET U |-> 0]
  <2>1. Good(h, 0)
    BY <1>1 DEF AddUp
  <2> QED  BY <2>1
<1>3. ASSUME NEW n \in S PROVE n + 1 \in S
  <2>1. PICK h : Good(h, n)
    OBVIOUS
  <2> DEFINE k == [s \in SUBSET U |-> AddUp(h, g, s)]
  <2>2. ASSUME NEW s \in SUBSET U, Cardinality(s) <= n + 1  PROVE k[s] = AddUp(k, g, s)
    <3>1. CASE s = {}
      BY <3>1 DEF AddUp
    <3>2. CASE s # {}
      <4> DEFINE x == CHOOSE x \in s : TRUE
      <4>1. x \in s
        BY <3>2
      <4>2. s \ {x} \in SUBSET U /\ Cardinality(s \ {x}) <= n
        BY <2>2, <3>2, <4>1, SmallerSubset
      <4>3. k[s \ {x}] = h[s \ {x}]
        BY <2>1, <4>2
      <4> QED  BY <3>2, <4>3 DEF AddUp
    <3> QED  BY <3>1, <3>2
  <2>3. Good(k, n + 1)
    BY <2>2
  <2>4. n + 1 \in Nat
    OBVIOUS
  <2> HIDE DEF Good, k
  <2> QED  BY <2>3, <2>4
<1>4. PICK N \in Nat : \A s \in SUBSET U : Cardinality(s) <= N
  BY SubsetSize
<1>5. N \in S
  <2> HIDE DEF S
  <2>1. S \in SUBSET Nat
    BY DEF S
  <2> QED  BY <1>2, <1>3, <2>1, NumbersFrom0
<1>6. PICK h : Good(h, N)
  BY <1>5
<1> DEFINE k == [s \in SUBSET U |-> AddUp(h, g, s)]
<1>7. ASSUME NEW s \in SUBSET U PROVE k[s] = AddUp(k, g, s)
  <2>1. CASE s = {}
    BY <2>1 DEF AddUp
  <2>2. CASE s # {}
    <3> DEFINE x == CHOOSE x \in s : TRUE
    <3>1. s \ {x} \in SUBSET U
      OBVIOUS
    <3>2. k[s \ {x}] = h[s \ {x}]
      BY <1>4, <1>6, <3>1
    <3> QED  BY <2>2, <3>2 DEF AddUp
  <2> QED  BY <2>1, <2>2
<1>8. Sums(k, g, U)
  BY <1>7 DEF Sums
<1> QED  BY <1>8

\* Changing one number changes the sum by as much.
LEMMA SumChanges ==
  ASSUME NEW U, IsFiniteSet(U), NEW w \in U, NEW g \in [U -> Nat], NEW g2 \in [U -> Nat],
         \A v \in U \ {w} : g2[v] = g[v], NEW h, NEW h2, Sums(h, g, U), Sums(h2, g2, U)
  PROVE  h[U] \in Nat /\ h2[U] = h[U] + g2[w] - g[w]
<1> DEFINE P(s) == h[s] \in Nat /\ h2[s] = h[s] + (IF w \in s THEN g2[w] - g[w] ELSE 0)
           S == {n \in Nat : \A s \in SUBSET U : Cardinality(s) <= n => P(s)}
<1>1. \A s \in SUBSET U : Cardinality(s) \in Nat /\ (Cardinality(s) = 0 <=> s = {})
  BY FS_Subset, FS_CardinalityType, FS_EmptySet
<1>2. ASSUME NEW s \in SUBSET U  PROVE h[s] = AddUp(h, g, s) /\ h2[s] = AddUp(h2, g2, s)
  BY DEF Sums
<1>3. P({})
  BY <1>2 DEF AddUp
<1>4. 0 \in S
  <2>1. \A s \in SUBSET U : Cardinality(s) <= 0 => s = {}
    BY <1>1
  <2> HIDE DEF P
  <2> QED  BY <1>3, <2>1
<1>5. ASSUME NEW n \in S  PROVE n + 1 \in S
  <2> SUFFICES ASSUME NEW s \in SUBSET U, Cardinality(s) <= n + 1  PROVE P(s)
    OBVIOUS
  <2>1. CASE s = {}
    BY <1>3, <2>1
  <2>2. CASE s # {}
    <3>1. PICK x : x = CHOOSE y \in s : TRUE
      OBVIOUS
    <3>2. x \in s /\ x \in U
      BY <2>2, <3>1
    <3>3. s \ {x} \in SUBSET U /\ Cardinality(s \ {x}) <= n
      BY <2>2, <3>2, SmallerSubset
    <3>4. P(s \ {x})
      BY <3>3
    <3>5. h[s] = g[x] + h[s \ {x}] /\ h2[s] = g2[x] + h2[s \ {x}]
      BY <1>2, <2>2, <3>1 DEF AddUp
    <3>6. g[x] \in Nat /\ g2[x] \in Nat /\ g[w] \in Nat /\ g2[w] \in Nat
      BY <3>2
    <3>7. CASE x = w
      <4>1. h2[s \ {x}] = h[s \ {x}] /\ h[s \ {x}] \in Nat
        BY <3>4, <3>7
      <4> QED  BY <3>2, <3>5, <3>6, <3>7, <4>1
    <3>8. CASE x # w
      <4>1. g2[x] = g[x] /\ (w \in s <=> w \in s \ {x})
        BY <3>2, <3>8
      <4> QED  BY <3>4, <3>5, <3>6, <4>1
    <3> QED  BY <3>7, <3>8
  <2> QED  BY <2>1, <2>2
<1>6. PICK N \in Nat : \A s \in SUBSET U : Cardinality(s) <= N
  BY SubsetSize
<1>7. N \in S
  <2> HIDE DEF S
  <2>1. S \in SUBSET Nat
    BY DEF S
  <2> QED  BY <1>4, <1>5, <2>1, NumbersFrom0
<1>8. P(U)
  BY <1>6, <1>7
<1> QED  BY <1>8

\* The sum of the file sizes, as SweepKeepsNewest states it, is such a sum.
LEMMA SizeSum == \E h : /\ Sums(h, [w \in Runs |-> Size(w)], Runs)
                        /\ MapThenSumSet(Size, Runs) = h[Runs]
<1> DEFINE g == [w \in Runs |-> Size(w)]
           F(h) == [s \in SUBSET Runs |-> IF s = {} THEN 0
                     ELSE LET x == CHOOSE x \in s : TRUE IN Size(x) + h[s \ {x}]]
           it == CHOOSE h : h = F(h)
<1>1. MapThenSumSet(Size, Runs) = it[Runs]
  BY DEF MapThenSumSet, MapThenFoldSet
<1>2. ASSUME NEW h  PROVE F(h) = [s \in SUBSET Runs |-> AddUp(h, g, s)]
  <2>1. ASSUME NEW s \in SUBSET Runs
        PROVE  AddUp(h, g, s) = IF s = {} THEN 0 ELSE LET x == CHOOSE x \in s : TRUE IN Size(x) + h[s \ {x}]
    <3>1. CASE s # {}
      <4>1. PICK x : x = CHOOSE y \in s : TRUE
        OBVIOUS
      <4>2. x \in s
        BY <3>1, <4>1
      <4>3. g[x] = Size(x)
        BY <4>2
      <4> QED  BY <3>1, <4>1, <4>3 DEF AddUp
    <3>2. CASE s = {}
      BY <3>2 DEF AddUp
    <3> QED  BY <3>1, <3>2
  <2> QED  BY <2>1
<1>3. PICK h : Sums(h, g, Runs)
  BY SumExists, LogStreamAssumption
<1>4. h = F(h)
  BY <1>2, <1>3 DEF Sums
<1>5. it = F(it)
  BY <1>4
<1>6. Sums(it, g, Runs)
  BY <1>2, <1>5 DEF Sums
<1> QED  BY <1>1, <1>6

\* Nothing adds up to nothing.
LEMMA SumOfZeros ==
  ASSUME NEW U, IsFiniteSet(U), NEW g \in [U -> {0}], NEW h, Sums(h, g, U)
  PROVE  h[U] = 0
<1> DEFINE S == {n \in Nat : \A s \in SUBSET U : Cardinality(s) <= n => h[s] = 0}
<1>1. \A s \in SUBSET U : Cardinality(s) \in Nat /\ (Cardinality(s) = 0 <=> s = {})
  BY FS_Subset, FS_CardinalityType, FS_EmptySet
<1>2. ASSUME NEW s \in SUBSET U  PROVE h[s] = AddUp(h, g, s)
  BY DEF Sums
<1>3. h[{}] = 0
  BY <1>2 DEF AddUp
<1>4. 0 \in S
  <2>1. \A s \in SUBSET U : Cardinality(s) <= 0 => s = {}
    BY <1>1
  <2> QED  BY <1>3, <2>1
<1>5. ASSUME NEW n \in S  PROVE n + 1 \in S
  <2> SUFFICES ASSUME NEW s \in SUBSET U, Cardinality(s) <= n + 1  PROVE h[s] = 0
    OBVIOUS
  <2>1. CASE s = {}
    BY <1>3, <2>1
  <2>2. CASE s # {}
    <3>1. PICK x : x = CHOOSE y \in s : TRUE
      OBVIOUS
    <3>2. x \in s /\ x \in U
      BY <2>2, <3>1
    <3>3. s \ {x} \in SUBSET U /\ Cardinality(s \ {x}) <= n
      BY <2>2, <3>2, SmallerSubset
    <3>4. h[s \ {x}] = 0 /\ g[x] = 0
      BY <3>2, <3>3
    <3>5. h[s] = g[x] + h[s \ {x}]
      BY <1>2, <2>2, <3>1 DEF AddUp
    <3> QED  BY <3>4, <3>5
  <2> QED  BY <2>1, <2>2
<1>6. PICK N \in Nat : \A s \in SUBSET U : Cardinality(s) <= N
  BY SubsetSize
<1>7. N \in S
  <2> HIDE DEF S
  <2>1. S \in SUBSET Nat
    BY DEF S
  <2> QED  BY <1>4, <1>5, <2>1, NumbersFrom0
<1> QED  BY <1>6, <1>7

\* The sum of a function over the runs.
SumOf(g) == (CHOOSE h : Sums(h, g, Runs))[Runs]

\* The sum is a number, and the same for every such function.
LEMMA SumOfFacts ==
  ASSUME NEW g \in [Runs -> Nat]
  PROVE  /\ SumOf(g) \in Nat
         /\ \A h : Sums(h, g, Runs) => h[Runs] = SumOf(g)
<1>1. PICK h : h = CHOOSE k : Sums(k, g, Runs)
  OBVIOUS
<1>2. Sums(h, g, Runs) /\ SumOf(g) = h[Runs]
  BY <1>1, SumExists, LogStreamAssumption DEF SumOf
<1>3. CASE Runs = {}
  <2>1. ASSUME NEW k, Sums(k, g, Runs)  PROVE k[Runs] = 0
    BY <1>3, <2>1 DEF Sums, AddUp
  <2> QED  BY <1>2, <2>1
<1>4. CASE Runs # {}
  <2>1. PICK w \in Runs : TRUE
    BY <1>4
  <2>2. ASSUME NEW k, Sums(k, g, Runs)  PROVE h[Runs] \in Nat /\ k[Runs] = h[Runs] + g[w] - g[w]
    BY <1>2, <2>1, <2>2, SumChanges, LogStreamAssumption
  <2>3. g[w] \in Nat
    BY <2>1
  <2> QED  BY <1>2, <2>2, <2>3
<1> QED  BY <1>3, <1>4

\* A function changed at one run.
LEMMA SumOfUpdate ==
  ASSUME NEW g \in [Runs -> Nat], NEW g2 \in [Runs -> Nat], NEW w \in Runs,
         \A v \in Runs \ {w} : g2[v] = g[v]
  PROVE  SumOf(g2) = SumOf(g) + g2[w] - g[w]
<1>1. PICK h, h2 : Sums(h, g, Runs) /\ Sums(h2, g2, Runs)
  BY SumExists, LogStreamAssumption
<1>2. h2[Runs] = h[Runs] + g2[w] - g[w]
  BY <1>1, SumChanges, LogStreamAssumption
<1> QED  BY <1>1, <1>2, SumOfFacts

\* Nothing adds up to nothing.
LEMMA SumOfNothing ==
  ASSUME NEW g \in [Runs -> {0}]
  PROVE  SumOf(g) = 0
<1>1. PICK h : Sums(h, g, Runs)
  BY SumExists, LogStreamAssumption
<1>2. g \in [Runs -> Nat]
  OBVIOUS
<1> QED  BY <1>1, <1>2, SumOfZeros, SumOfFacts, LogStreamAssumption

-----------------------------------------------------------------------------
(* The retention sweep.                                                       *)

\* A run has one log file at a time, and writes to a second only if the first is gone.
FileInv ==
  \A w \in Runs :
    /\ writer[w] \in {"idle", "queued", "create"} => path[w] = 0 /\ lines[w][1] = 0
    /\ writer[w] \notin {"error", "leave", "gone"} => path[w] # 2 /\ lines[w][2] = 0
    /\ writer[w] = "write" => path[w] = 1 \/ w \in lost
    /\ path[w] = 0 /\ w \notin lost => lines[w][1] = 0

\* What the sweep remembers of a file.
FileRecords == [run : Runs, size : Nat, mtime : Nat]

\* The types of the clock, the times and the sweep.
SweepTypes ==
  /\ clock \in Nat
  /\ mtime \in [Runs -> Nat]
  /\ sweep \in [pc : {"idle", "scan", "swept"}, todo : SUBSET Runs, found : SUBSET FileRecords,
                total : Int, freed : SUBSET FileRecords, grown : Nat, passed : Nat, stuck : Nat]

\* What is on the disk.
Sizes == [w \in Runs |-> Size(w)]

\* What of it the scan has not seen yet.
ToStat == [w \in Runs |-> IF w \in sweep.todo THEN Size(w) ELSE 0]

\* The sizes the sweep remembers.
Remembered ==
  [w \in Runs |-> IF \E f \in sweep.found : f.run = w
                  THEN (CHOOSE f \in sweep.found : f.run = w).size ELSE 0]

\* A file is remembered once, after it was seen, and has not shrunk.
FoundInv ==
  /\ \A f, g \in sweep.found : f.run = g.run => f = g
  /\ \A f \in sweep.found : f.run \notin sweep.todo /\ f.size <= Size(f.run)

\* The total is that of the files remembered and of those that could not be
\* removed for space; what is on the disk is still to be seen, in the total, was
\* passed over, or was written since the sweep began.
SpaceInv ==
  /\ sweep.total = SumOf(Remembered) + sweep.stuck
  /\ SumOf(Sizes) <= SumOf(ToStat) + sweep.total + sweep.grown + sweep.passed

\* Files are removed for space only after the scan, oldest first, and never when
\* the total fitted.
FreedInv ==
  /\ sweep.freed # {} => sweep.todo = {}
  /\ \A f \in sweep.freed, g \in sweep.found : f.mtime <= g.mtime
  /\ sweep.freed # {} => \E f \in sweep.freed : sweep.total + f.size > MaxBytes
  /\ sweep.pc = "swept" => sweep.todo = {} /\ (sweep.total <= MaxBytes \/ sweep.found = {})

\* The inductive invariant of the sweep.
SweepInv ==
  /\ SweepTypes /\ FileInv
  /\ sweep.pc # "idle" => FoundInv /\ SpaceInv /\ FreedInv

\* Sizes are numbers.
SizesAreNumbers ==
  Sizes \in [Runs -> Nat] /\ ToStat \in [Runs -> Nat] /\ \A w \in Runs : Size(w) \in Nat

\* They are, if the lines of the files are.
LEMMA SizesTypes == LogData => SizesAreNumbers
<1> SUFFICES ASSUME LogData PROVE SizesAreNumbers
  OBVIOUS
<1>1. ASSUME NEW w \in Runs  PROVE Size(w) \in Nat
  <2>1. path[w] \in 0..2 /\ lines[w] \in [1..2 -> Nat]
    BY DEF LogData
  <2> QED  BY <2>1 DEF Size
<1> QED  BY <1>1 DEF SizesAreNumbers, Sizes, ToStat

\* Remembered sizes are numbers.
RememberedAreNumbers == Remembered \in [Runs -> Nat]

\* They are, if the sweep has its type.
LEMMA RememberedTypes == SweepTypes => RememberedAreNumbers
<1> SUFFICES ASSUME SweepTypes PROVE Remembered \in [Runs -> Nat]
  BY DEF RememberedAreNumbers
<1>1. ASSUME NEW w \in Runs, NEW f \in sweep.found, f.run = w
      PROVE  (CHOOSE e \in sweep.found : e.run = w).size \in Nat
  <2>1. PICK e : e = CHOOSE d \in sweep.found : d.run = w
    OBVIOUS
  <2>2. e \in sweep.found
    BY <1>1, <2>1
  <2>3. e \in FileRecords
    BY <2>2 DEF SweepTypes
  <2> QED  BY <2>1, <2>3 DEF FileRecords
<1> QED  BY <1>1 DEF Remembered

\* A file that is remembered is remembered once.
RememberedOnce ==
  \A w \in Runs :
    /\ \A f \in sweep.found : f.run = w => Remembered[w] = f.size
    /\ (\A f \in sweep.found : f.run # w) => Remembered[w] = 0

\* FoundInv says so.
LEMMA RememberedOf == FoundInv => RememberedOnce
<1> SUFFICES ASSUME FoundInv, NEW w \in Runs
             PROVE  /\ \A f \in sweep.found : f.run = w => Remembered[w] = f.size
                    /\ (\A f \in sweep.found : f.run # w) => Remembered[w] = 0
  BY DEF RememberedOnce
<1>1. ASSUME NEW f \in sweep.found, f.run = w  PROVE Remembered[w] = f.size
  <2>1. (CHOOSE e \in sweep.found : e.run = w) = f
    BY <1>1 DEF FoundInv
  <2> QED  BY <1>1, <2>1 DEF Remembered
<1> QED  BY <1>1 DEF Remembered

\* No sweep runs at the start.
LEMMA SweepStart == LogInit => SweepInv
<1> SUFFICES ASSUME LogInit PROVE SweepInv
  OBVIOUS
<1>1. SweepTypes /\ sweep.pc = "idle"
  BY DEF LogInit, SweepTypes, NoSweep
<1>2. \A w \in Runs : lines[w][2] = 0 /\ lines[w][1] = IF w \in Past THEN 1 ELSE 0
  BY DEF LogInit
<1>3. FileInv
  BY <1>2 DEF LogInit, FileInv
<1> QED  BY <1>1, <1>3 DEF SweepInv

\* A step of the logs keeps FileInv.
LEMMA FileInvKept ==
  ASSUME LogInv, FileInv, LogStep
  PROVE  FileInv'
<1> USE DEF LogInv, LogData, FileInv
<1>1. ASSUME NEW w \in Runs, StartRun(w) \/ MarkRunning(w) \/ RunnerReturns(w) \/ Finish(w) \/ Leave(w)
      PROVE  FileInv'
  <2>1. /\ UNCHANGED <<path, lines, lost>>
        /\ \A v \in Runs : v # w => writer'[v] = writer[v]
        /\ writer'[w] # "write"
        /\ writer'[w] \in {"idle", "queued", "create"} => writer[w] \in {"idle", "queued", "create"}
        /\ writer'[w] \notin {"error", "leave", "gone"} => writer[w] \notin {"error", "leave", "gone"}
    BY <1>1 DEF StartRun, MarkRunning, RunnerReturns, Finish, Leave, At, fileVars
  <2> QED  BY <2>1
<1>2. ASSUME NEW w \in Runs, CreateLog(w)  PROVE FileInv'
  BY <1>2 DEF CreateLog, At
<1>3. ASSUME NEW w \in Runs, WriteLine(w)  PROVE FileInv'
  BY <1>3 DEF WriteLine, runVars
<1>4. ASSUME NEW w \in Runs, AppendError(w)  PROVE FileInv'
  BY <1>4 DEF AppendError, At
<1>5. ASSUME NEW w, Unlink(w), UNCHANGED runVars  PROVE FileInv'
  BY <1>5 DEF Unlink, runVars
<1>6. CASE CrashLogs
  BY <1>6 DEF CrashLogs, InFlight, fileVars
<1>7. CASE UNCHANGED <<writer, fileVars>>
  BY <1>7 DEF fileVars
<1>8. CASE Sweeping
  BY <1>5, <1>7, <1>8 DEF Sweeping, ReadDir, StatFile, FreeSpace, Swept, Rest, runVars
<1> QED
  BY <1>1, <1>2, <1>3, <1>4, <1>6, <1>7, <1>8, Zenon
     DEF LogStep, Writing, Reading, Tick, RunJob, TimeOut, CancelRun, RecordCanceled, Stream, CopyLog,
         OpenLog, Drain, CheckStatus, FinalDrain, Wait, Disconnect, GetLog, runVars

\* A step of the logs keeps the types of the sweep.
LEMMA SweepTypesKept ==
  ASSUME LogInv, SweepTypes, LogStep
  PROVE  SweepTypes'
<1> USE DEF SweepTypes
<1>1. ASSUME NEW w \in Runs, CreateLog(w)  PROVE SweepTypes'
  BY <1>1 DEF CreateLog
<1>2. ASSUME NEW w \in Runs, WriteLine(w) \/ AppendError(w)  PROVE SweepTypes'
  BY <1>2 DEF WriteLine, AppendError, Grows
<1>3. CASE ReadDir
  <2>1. sweep' = [pc |-> "scan", todo |-> {w \in Runs : path[w] # 0}, found |-> {}, total |-> 0,
                  freed |-> {}, grown |-> 0, passed |-> 0, stuck |-> 0]
        /\ UNCHANGED <<clock, mtime>>
    BY <1>3 DEF ReadDir, NoSweep, fileVars
  <2> QED  BY <2>1
<1>4. CASE Swept
  BY <1>4 DEF Swept, fileVars
<1>5. CASE Rest
  BY <1>5 DEF Rest, NoSweep, fileVars
<1>6. ASSUME NEW w \in Runs, StatFile(w)  PROVE SweepTypes'
  <2>1. Size(w) \in Nat /\ mtime[w] \in Nat /\ UNCHANGED <<clock, mtime>>
    BY <1>6, SizesTypes DEF SizesAreNumbers, LogInv, StatFile, Unlink, fileVars
  <2> DEFINE e == [run |-> w, size |-> Size(w), mtime |-> mtime[w]]
  <2>2. e \in FileRecords
    BY <2>1 DEF FileRecords
  <2>3. \/ sweep' = [sweep EXCEPT !.todo = @ \ {w}]
        \/ sweep' = [sweep EXCEPT !.todo = @ \ {w}, !.total = @ + Size(w), !.found = @ \cup {e}]
        \/ sweep' = [sweep EXCEPT !.todo = @ \ {w}, !.passed = @ + Size(w)]
    BY <1>6 DEF StatFile
  <2> HIDE DEF e
  <2>4. CASE sweep' = [sweep EXCEPT !.todo = @ \ {w}]
    BY <2>1, <2>4
  <2>5. CASE sweep' = [sweep EXCEPT !.todo = @ \ {w}, !.total = @ + Size(w), !.found = @ \cup {e}]
    <3>1. /\ sweep.todo \ {w} \in SUBSET Runs /\ sweep.total + Size(w) \in Int
          /\ sweep.found \cup {e} \in SUBSET FileRecords
      BY <2>1, <2>2
    <3> QED  BY <2>1, <2>5, <3>1
  <2>6. CASE sweep' = [sweep EXCEPT !.todo = @ \ {w}, !.passed = @ + Size(w)]
    <3>1. sweep.todo \ {w} \in SUBSET Runs /\ sweep.passed + Size(w) \in Nat
      BY <2>1
    <3> QED  BY <2>1, <2>6, <3>1
  <2> QED  BY <2>3, <2>4, <2>5, <2>6
<1>7. CASE FreeSpace
  <2>1. PICK f \in sweep.found :
          \/ sweep' = [sweep EXCEPT !.total = @ - f.size, !.found = @ \ {f}, !.freed = @ \cup {f}]
          \/ sweep' = [sweep EXCEPT !.found = @ \ {f}, !.stuck = @ + f.size]
    BY <1>7 DEF FreeSpace, Oldest
  <2>2. f \in FileRecords /\ f.size \in Nat
    BY DEF FileRecords
  <2>3. /\ sweep.total - f.size \in Int /\ sweep.found \ {f} \in SUBSET FileRecords
        /\ sweep.freed \cup {f} \in SUBSET FileRecords /\ sweep.stuck + f.size \in Nat
    BY <2>2
  <2>4. UNCHANGED <<clock, mtime>>
    BY <1>7 DEF FreeSpace, Unlink, fileVars
  <2> QED  BY <2>1, <2>3, <2>4
<1>8. CASE CrashLogs
  BY <1>8 DEF CrashLogs, NoSweep, fileVars
<1>9. CASE Tick
  BY <1>9 DEF Tick, fileVars
<1>10. CASE UNCHANGED <<clock, mtime, sweep>>
  BY <1>10
<1> QED
  BY <1>1, <1>2, <1>3, <1>6, <1>7, <1>8, <1>9, <1>10, <1>4, <1>5, Zenon
     DEF LogStep, Writing, Reading, Sweeping, RunJob, StartRun, MarkRunning, RunnerReturns, Finish,
        Leave,
         TimeOut, CancelRun, RecordCanceled, Stream, CopyLog, OpenLog, Drain, CheckStatus, FinalDrain,
         Wait, Disconnect, GetLog, fileVars

\* What a file grew by while the sweep runs is counted in sweep.grown.
LEMMA GrowthKept ==
  ASSUME LogData, LogData', SweepInv, SweepTypes', FileInv', NEW w \in Runs,
         \A v \in Runs : v # w => Size(v)' = Size(v),
         Size(w)' \in {Size(w), Size(w) + 1},
         sweep.pc # "idle" => sweep' = [sweep EXCEPT !.grown = @ + 1],
         sweep.pc = "idle" => sweep' = sweep
  PROVE  SweepInv'
<1> SUFFICES ASSUME sweep.pc # "idle"  PROVE FoundInv' /\ SpaceInv' /\ FreedInv'
  BY DEF SweepInv
<1>1. /\ sweep'.pc = sweep.pc /\ sweep'.todo = sweep.todo /\ sweep'.found = sweep.found
      /\ sweep'.total = sweep.total /\ sweep'.freed = sweep.freed /\ sweep'.grown = sweep.grown + 1
      /\ sweep'.passed = sweep.passed /\ sweep'.stuck = sweep.stuck
      /\ sweep.passed \in Nat /\ sweep.stuck \in Nat
      /\ sweep.grown \in Nat /\ sweep.total \in Int /\ sweep.found \subseteq FileRecords
  BY DEF SweepInv, SweepTypes
<1>2. /\ Sizes \in [Runs -> Nat] /\ ToStat \in [Runs -> Nat] /\ \A v \in Runs : Size(v) \in Nat
      /\ Sizes' \in [Runs -> Nat] /\ ToStat' \in [Runs -> Nat]
  <2>1. LogData' => SizesAreNumbers'
    BY SizesTypes, PTL
  <2> QED  BY <2>1, SizesTypes DEF SizesAreNumbers
<1>3. FoundInv /\ SpaceInv /\ FreedInv
  BY DEF SweepInv
<1>4. FoundInv'
  <2>1. ASSUME NEW f \in sweep.found  PROVE f.size <= Size(f.run)'
    <3>1. f.run \in Runs /\ f.size \in Nat /\ f.size <= Size(f.run)
      BY <1>1, <1>3 DEF FileRecords, FoundInv
    <3>2. PICK v \in Runs : v = f.run
      BY <3>1
    <3>3. Size(v) \in Nat /\ Size(v)' \in {Size(v), Size(v) + 1}
      BY <1>2
    <3>4. Size(f.run)' = Size(v)'
      BY <3>2
    <3> QED  BY <3>1, <3>2, <3>3, <3>4
  <2> QED  BY <1>1, <1>3, <2>1 DEF FoundInv
<1>5. FreedInv'
  BY <1>1, <1>3 DEF FreedInv
<1>6. SpaceInv'
  <2>1. Remembered' = Remembered
    BY <1>1 DEF Remembered
  <2>2. \A v \in Runs \ {w} : Sizes'[v] = Sizes[v] /\ ToStat'[v] = ToStat[v]
    BY <1>1 DEF Sizes, ToStat
  <2>3. /\ Sizes'[w] \in {Sizes[w], Sizes[w] + 1} /\ Sizes[w] \in Nat
        /\ ToStat'[w] \in {ToStat[w], ToStat[w] + 1} /\ ToStat[w] \in Nat
    BY <1>1, <1>2 DEF Sizes, ToStat
  <2>4. /\ SumOf(Sizes') = SumOf(Sizes) + Sizes'[w] - Sizes[w]
        /\ SumOf(ToStat') = SumOf(ToStat) + ToStat'[w] - ToStat[w]
    BY <1>2, <2>2, SumOfUpdate
  <2>5. SumOf(Sizes) \in Nat /\ SumOf(ToStat) \in Nat
    BY <1>2, SumOfFacts
  <2>6. SumOf(Sizes') <= SumOf(ToStat') + sweep.total + (sweep.grown + 1) + sweep.passed
    BY <1>1, <1>3, <2>3, <2>4, <2>5 DEF SpaceInv
  <2>7. SumOf(Sizes)' = SumOf(Sizes') /\ SumOf(ToStat)' = SumOf(ToStat')
        /\ SumOf(Remembered)' = SumOf(Remembered')
    BY DEF SumOf
  <2> QED  BY <1>1, <1>3, <2>1, <2>6, <2>7 DEF SpaceInv
<1> QED  BY <1>4, <1>5, <1>6

\* The start of a sweep: everything is still to be seen.
LEMMA ReadDirKept ==
  ASSUME LogData, LogData', SweepInv, SweepTypes', FileInv', ReadDir
  PROVE  SweepInv'
<1>1. /\ sweep'.pc = "scan" /\ sweep'.todo = {w \in Runs : path[w] # 0} /\ sweep'.found = {}
      /\ sweep'.total = 0 /\ sweep'.freed = {} /\ sweep'.grown = 0
      /\ sweep'.passed = 0 /\ sweep'.stuck = 0
  BY DEF ReadDir, NoSweep
<1>2. UNCHANGED <<path, lines>>
  BY DEF ReadDir, fileVars
<1>3. Sizes' = Sizes /\ \A v \in Runs : Size(v)' = Size(v)
  BY <1>2 DEF Sizes, Size
<1>4. ToStat' = Sizes'
  BY <1>1, <1>2, <1>3 DEF ToStat, Sizes, Size
<1>5. Remembered' \in [Runs -> {0}]
  BY <1>1 DEF Remembered
<1>6. SumOf(Sizes)' = SumOf(Sizes') /\ SumOf(ToStat)' = SumOf(ToStat')
      /\ SumOf(Remembered)' = SumOf(Remembered')
  BY DEF SumOf
<1>7. SumOf(Remembered') = 0 /\ SumOf(Sizes') \in Nat
  BY <1>3, <1>5, SumOfNothing, SumOfFacts, SizesTypes DEF SizesAreNumbers
<1>8. SpaceInv'
  BY <1>1, <1>4, <1>6, <1>7 DEF SpaceInv
<1>9. FoundInv' /\ FreedInv'
  BY <1>1 DEF FoundInv, FreedInv
<1> QED  BY <1>8, <1>9 DEF SweepInv

\* A file the scan removes for its age leaves the disk and the list together.
LEMMA OldFileKept ==
  ASSUME LogData, LogData', SweepInv, SweepTypes', FileInv', NEW w \in sweep.todo, sweep.pc = "scan",
         Unlink(w), sweep' = [sweep EXCEPT !.todo = @ \ {w}]
  PROVE  SweepInv'
<1>1. w \in Runs /\ FoundInv /\ SpaceInv /\ FreedInv
  BY DEF SweepInv, SweepTypes
<1>2. /\ sweep'.pc = "scan" /\ sweep'.todo = sweep.todo \ {w} /\ sweep'.found = sweep.found
      /\ sweep'.total = sweep.total /\ sweep'.freed = sweep.freed /\ sweep'.grown = sweep.grown
      /\ sweep'.passed = sweep.passed /\ sweep'.stuck = sweep.stuck
      /\ sweep.passed \in Nat /\ sweep.stuck \in Nat
      /\ sweep.grown \in Nat /\ sweep.total \in Int /\ sweep.found \subseteq FileRecords
  BY DEF SweepInv, SweepTypes
<1>3. Size(w)' = 0 /\ \A v \in Runs : v # w => Size(v)' = Size(v)
  BY <1>1 DEF Unlink, LogData, Size
<1>4. SizesAreNumbers /\ SizesAreNumbers'
  <2>1. LogData' => SizesAreNumbers'
    BY SizesTypes, PTL
  <2> QED  BY <2>1, SizesTypes
<1>5. \A v \in Runs \ {w} : Sizes'[v] = Sizes[v] /\ ToStat'[v] = ToStat[v]
  BY <1>2, <1>3 DEF Sizes, ToStat
<1>6. Sizes'[w] = 0 /\ ToStat'[w] = 0 /\ ToStat[w] = Sizes[w] /\ Sizes[w] \in Nat
  BY <1>1, <1>2, <1>3, <1>4 DEF Sizes, ToStat, SizesAreNumbers
<1>7. /\ SumOf(Sizes') = SumOf(Sizes) - Sizes[w] /\ SumOf(ToStat') = SumOf(ToStat) - Sizes[w]
      /\ SumOf(Sizes) \in Nat /\ SumOf(ToStat) \in Nat
  <2>1. /\ SumOf(Sizes') = SumOf(Sizes) + Sizes'[w] - Sizes[w]
        /\ SumOf(ToStat') = SumOf(ToStat) + ToStat'[w] - ToStat[w]
    BY <1>1, <1>4, <1>5, SumOfUpdate DEF SizesAreNumbers
  <2>2. SumOf(Sizes) \in Nat /\ SumOf(ToStat) \in Nat
    BY <1>4, SumOfFacts DEF SizesAreNumbers
  <2> QED  BY <1>6, <2>1, <2>2
<1>8. Remembered' = Remembered
  BY <1>2 DEF Remembered
<1>9. SumOf(Sizes)' = SumOf(Sizes') /\ SumOf(ToStat)' = SumOf(ToStat')
      /\ SumOf(Remembered)' = SumOf(Remembered')
  BY DEF SumOf
<1>10. SpaceInv'
  <2>1. SumOf(Sizes') <= SumOf(ToStat') + sweep.total + sweep.grown + sweep.passed
    BY <1>1, <1>2, <1>6, <1>7 DEF SpaceInv
  <2> QED  BY <1>1, <1>2, <1>8, <1>9, <2>1 DEF SpaceInv
<1>11. FoundInv'
  <2>1. ASSUME NEW f \in sweep.found  PROVE f.run # w /\ f.size <= Size(f.run)'
    <3>1. f.run \in Runs /\ f.size <= Size(f.run) /\ f.run # w
      BY <1>1, <1>2 DEF FileRecords, FoundInv
    <3>2. PICK v \in Runs : v = f.run
      BY <3>1
    <3> QED  BY <1>3, <3>1, <3>2
  <2> QED  BY <1>1, <1>2, <2>1 DEF FoundInv
<1>12. FreedInv'
  BY <1>1, <1>2 DEF FreedInv
<1> QED  BY <1>10, <1>11, <1>12 DEF SweepInv

\* Any other file goes from the list to what is remembered.
LEMMA NewFileKept ==
  ASSUME LogData, LogData', SweepInv, SweepTypes', FileInv', NEW w \in sweep.todo, sweep.pc = "scan",
         UNCHANGED <<path, lines>>,
         sweep' = [sweep EXCEPT !.todo = @ \ {w}, !.total = @ + Size(w),
                     !.found = @ \cup {[run |-> w, size |-> Size(w), mtime |-> mtime[w]]}]
  PROVE  SweepInv'
<1> DEFINE e == [run |-> w, size |-> Size(w), mtime |-> mtime[w]]
<1>1. w \in Runs /\ FoundInv /\ SpaceInv /\ FreedInv
  BY DEF SweepInv, SweepTypes
<1>2. /\ sweep'.pc = "scan" /\ sweep'.todo = sweep.todo \ {w} /\ sweep'.found = sweep.found \cup {e}
      /\ sweep'.total = sweep.total + Size(w) /\ sweep'.freed = sweep.freed /\ sweep'.grown = sweep.grown
      /\ sweep'.passed = sweep.passed /\ sweep'.stuck = sweep.stuck
      /\ sweep.passed \in Nat /\ sweep.stuck \in Nat
      /\ sweep.grown \in Nat /\ sweep.total \in Int /\ sweep.found \subseteq FileRecords
  BY DEF SweepInv, SweepTypes
<1>3. e.run = w /\ e.size = Size(w)
  OBVIOUS
<1> HIDE DEF e
<1>4. SizesAreNumbers /\ SizesAreNumbers'
  <2>1. LogData' => SizesAreNumbers'
    BY SizesTypes, PTL
  <2> QED  BY <2>1, SizesTypes
<1>5. \A v \in Runs : Size(v)' = Size(v)
  BY DEF Size
<1>6. Sizes' = Sizes
  BY <1>5 DEF Sizes
<1>7. FoundInv'
  <2>1. ASSUME NEW f \in sweep.found \cup {e}  PROVE f.run \notin sweep.todo \ {w} /\ f.size <= Size(f.run)'
    <3>1. CASE f \in sweep.found
      <4>1. f.run \in Runs /\ f.size <= Size(f.run) /\ f.run \notin sweep.todo
        BY <1>1, <1>2, <3>1 DEF FileRecords, FoundInv
      <4>2. PICK v \in Runs : v = f.run
        BY <4>1
      <4> QED  BY <1>5, <4>1, <4>2
    <3>2. CASE f = e
      <4>1. Size(w)' = Size(w) /\ Size(w) \in Nat
        BY <1>1, <1>4, <1>5 DEF SizesAreNumbers
      <4> QED  BY <1>3, <3>2, <4>1
    <3> QED  BY <3>1, <3>2
  <2>2. ASSUME NEW f \in sweep.found \cup {e}, NEW g \in sweep.found \cup {e}, f.run = g.run  PROVE f = g
    <3>1. \A d \in sweep.found : d.run # w
      BY <1>1 DEF FoundInv
    <3> QED  BY <1>1, <1>3, <2>2, <3>1 DEF FoundInv
  <2> QED  BY <1>2, <2>1, <2>2 DEF FoundInv
<1>8. RememberedAreNumbers /\ RememberedAreNumbers' /\ RememberedOnce /\ RememberedOnce'
  <2>1. (SweepTypes' => RememberedAreNumbers') /\ (FoundInv' => RememberedOnce')
    BY RememberedTypes, RememberedOf, PTL
  <2> QED  BY <1>1, <1>7, <2>1, RememberedTypes, RememberedOf DEF SweepInv
<1>9. Remembered[w] = 0 /\ Remembered'[w] = Size(w)
  <2>1. \A d \in sweep.found : d.run # w
    BY <1>1 DEF FoundInv
  <2>2. e \in sweep'.found
    BY <1>2
  <2> QED  BY <1>1, <1>3, <1>8, <2>1, <2>2 DEF RememberedOnce
<1>10. \A v \in Runs \ {w} : Remembered'[v] = Remembered[v] /\ ToStat'[v] = ToStat[v]
  <2> SUFFICES ASSUME NEW v \in Runs, v # w  PROVE Remembered'[v] = Remembered[v] /\ ToStat'[v] = ToStat[v]
    OBVIOUS
  <2>1. CASE \E f \in sweep.found : f.run = v
    <3>1. PICK f \in sweep.found : f.run = v
      BY <2>1
    <3>2. f \in sweep'.found
      BY <1>2
    <3> QED  BY <1>2, <1>5, <1>8, <3>1, <3>2 DEF RememberedOnce, ToStat
  <2>2. CASE \A f \in sweep.found : f.run # v
    <3>1. \A f \in sweep'.found : f.run # v
      BY <1>2, <1>3, <2>2
    <3> QED  BY <1>2, <1>5, <1>8, <2>2, <3>1 DEF RememberedOnce, ToStat
  <2> QED  BY <2>1, <2>2
<1>11. ToStat[w] = Size(w) /\ ToStat'[w] = 0 /\ Size(w) \in Nat
  BY <1>1, <1>2, <1>4 DEF ToStat, SizesAreNumbers
<1>12. /\ SumOf(Remembered') = SumOf(Remembered) + Remembered'[w] - Remembered[w]
       /\ SumOf(ToStat') = SumOf(ToStat) + ToStat'[w] - ToStat[w]
       /\ SumOf(Remembered) \in Nat /\ SumOf(ToStat) \in Nat /\ SumOf(Sizes) \in Nat
  BY <1>1, <1>4, <1>8, <1>10, SumOfUpdate, SumOfFacts DEF SizesAreNumbers, RememberedAreNumbers
<1>13. SumOf(Sizes)' = SumOf(Sizes') /\ SumOf(ToStat)' = SumOf(ToStat')
       /\ SumOf(Remembered)' = SumOf(Remembered')
  BY DEF SumOf
<1>14. SpaceInv'
  <2>1. /\ sweep.total = SumOf(Remembered) + sweep.stuck
        /\ SumOf(Sizes) <= SumOf(ToStat) + sweep.total + sweep.grown + sweep.passed
    BY <1>1 DEF SpaceInv
  <2>2. /\ SumOf(Remembered') + sweep.stuck = sweep.total + Size(w)
        /\ SumOf(Sizes) <= SumOf(ToStat') + (sweep.total + Size(w)) + sweep.grown + sweep.passed
    BY <1>2, <1>9, <1>11, <1>12, <2>1
  <2> QED  BY <1>2, <1>6, <1>13, <2>2 DEF SpaceInv
<1>15. FreedInv'
  BY <1>1, <1>2 DEF FreedInv
<1> QED  BY <1>7, <1>14, <1>15 DEF SweepInv

\* A file the scan passes over leaves the list, and its size is counted.
LEMMA PassedOverKept ==
  ASSUME LogData, LogData', SweepInv, SweepTypes', FileInv', NEW w \in sweep.todo, sweep.pc = "scan",
         UNCHANGED <<path, lines>>,
         sweep' = [sweep EXCEPT !.todo = @ \ {w}, !.passed = @ + Size(w)]
  PROVE  SweepInv'
<1>1. w \in Runs /\ FoundInv /\ SpaceInv /\ FreedInv
  BY DEF SweepInv, SweepTypes
<1>2. /\ sweep'.pc = "scan" /\ sweep'.todo = sweep.todo \ {w} /\ sweep'.found = sweep.found
      /\ sweep'.total = sweep.total /\ sweep'.freed = sweep.freed /\ sweep'.grown = sweep.grown
      /\ sweep'.passed = sweep.passed + Size(w) /\ sweep'.stuck = sweep.stuck
      /\ sweep.passed \in Nat /\ sweep.stuck \in Nat
      /\ sweep.grown \in Nat /\ sweep.total \in Int /\ sweep.found \subseteq FileRecords
  BY DEF SweepInv, SweepTypes
<1>3. \A v \in Runs : Size(v)' = Size(v)
  BY DEF Size
<1>4. SizesAreNumbers /\ SizesAreNumbers'
  <2>1. LogData' => SizesAreNumbers'
    BY SizesTypes, PTL
  <2> QED  BY <2>1, SizesTypes
<1>5. Sizes' = Sizes /\ Remembered' = Remembered
  BY <1>2, <1>3 DEF Sizes, Remembered
<1>6. \A v \in Runs \ {w} : ToStat'[v] = ToStat[v]
  BY <1>2, <1>3 DEF ToStat
<1>7. ToStat[w] = Size(w) /\ ToStat'[w] = 0 /\ Size(w) \in Nat
  BY <1>1, <1>2, <1>4 DEF ToStat, SizesAreNumbers
<1>8. /\ SumOf(ToStat') = SumOf(ToStat) + ToStat'[w] - ToStat[w]
      /\ SumOf(ToStat) \in Nat /\ SumOf(Sizes) \in Nat
  BY <1>1, <1>4, <1>6, SumOfUpdate, SumOfFacts DEF SizesAreNumbers
<1>9. SumOf(Sizes)' = SumOf(Sizes') /\ SumOf(ToStat)' = SumOf(ToStat')
      /\ SumOf(Remembered)' = SumOf(Remembered')
  BY DEF SumOf
<1>10. SpaceInv'
  <2>1. SumOf(Sizes) <= SumOf(ToStat') + sweep.total + sweep.grown + (sweep.passed + Size(w))
    BY <1>1, <1>2, <1>7, <1>8 DEF SpaceInv
  <2> QED  BY <1>1, <1>2, <1>5, <1>9, <2>1 DEF SpaceInv
<1>11. FoundInv'
  <2>1. ASSUME NEW f \in sweep.found  PROVE f.run \notin sweep.todo \ {w} /\ f.size <= Size(f.run)'
    <3>1. f.run \in Runs /\ f.size <= Size(f.run) /\ f.run \notin sweep.todo
      BY <1>1, <1>2 DEF FileRecords, FoundInv
    <3>2. PICK v \in Runs : v = f.run
      BY <3>1
    <3> QED  BY <1>3, <3>1, <3>2
  <2> QED  BY <1>1, <1>2, <2>1 DEF FoundInv
<1>12. FreedInv'
  BY <1>1, <1>2 DEF FreedInv
<1> QED  BY <1>10, <1>11, <1>12 DEF SweepInv

\* A step that leaves the files and the sweep alone
LEMMA SweepSame ==
  ASSUME SweepInv, SweepTypes', FileInv', UNCHANGED sweep, \A w \in Runs : Size(w)' = Size(w)
  PROVE  SweepInv'
<1> SUFFICES ASSUME sweep.pc # "idle"  PROVE FoundInv' /\ SpaceInv' /\ FreedInv'
  BY DEF SweepInv
<1>1. FoundInv /\ SpaceInv /\ FreedInv /\ sweep.found \subseteq FileRecords
  BY DEF SweepInv, SweepTypes
<1>2. FoundInv'
  <2>1. ASSUME NEW f \in sweep.found  PROVE f.size <= Size(f.run)'
    <3>1. f.run \in Runs /\ f.size <= Size(f.run)
      BY <1>1 DEF FileRecords, FoundInv
    <3>2. PICK v \in Runs : v = f.run
      BY <3>1
    <3> QED  BY <3>1, <3>2
  <2> QED  BY <1>1, <2>1 DEF FoundInv
<1>3. Sizes' = Sizes /\ ToStat' = ToStat /\ Remembered' = Remembered
  BY DEF Sizes, ToStat, Remembered
<1>4. SumOf(Sizes)' = SumOf(Sizes') /\ SumOf(ToStat)' = SumOf(ToStat')
      /\ SumOf(Remembered)' = SumOf(Remembered')
  BY DEF SumOf
<1>5. SpaceInv'
  BY <1>1, <1>3, <1>4 DEF SpaceInv
<1>6. FreedInv'
  BY <1>1 DEF FreedInv
<1> QED  BY <1>2, <1>5, <1>6

\* A file that goes for space takes with it at least what was remembered of it.
LEMMA FreedKept ==
  ASSUME LogData, LogData', SweepInv, SweepTypes', FileInv',
         sweep.pc = "scan", sweep.todo = {}, sweep.total > MaxBytes,
         NEW e \in Oldest(sweep.found), Unlink(e.run),
         sweep' = [sweep EXCEPT !.total = @ - e.size, !.found = @ \ {e}, !.freed = @ \cup {e}]
  PROVE  SweepInv'
<1>1. e \in Oldest(sweep.found) /\ Unlink(e.run)
  OBVIOUS
<1>2. /\ sweep.pc = "scan" /\ sweep.todo = {} /\ sweep.total > MaxBytes
      /\ FoundInv /\ SpaceInv /\ FreedInv /\ SweepTypes /\ MaxBytes \in Nat
  BY LogStreamAssumption DEF SweepInv
<1>3. /\ sweep'.pc = "scan" /\ sweep'.todo = {} /\ sweep'.found = sweep.found \ {e}
      /\ sweep'.total = sweep.total - e.size /\ sweep'.freed = sweep.freed \cup {e}
      /\ sweep'.grown = sweep.grown
      /\ sweep'.passed = sweep.passed /\ sweep'.stuck = sweep.stuck
      /\ sweep.passed \in Nat /\ sweep.stuck \in Nat
      /\ sweep.grown \in Nat /\ sweep.total \in Int /\ sweep.found \subseteq FileRecords
      /\ sweep.freed \subseteq FileRecords
  BY <1>1, <1>2 DEF SweepTypes
<1>4. e \in sweep.found /\ e \in FileRecords /\ \A g \in sweep.found : e.mtime <= g.mtime
  BY <1>1, <1>3 DEF Oldest
<1>5. PICK w \in Runs : w = e.run
  BY <1>4 DEF FileRecords
<1>6. e.size \in Nat /\ e.size <= Size(w)
  BY <1>2, <1>4, <1>5 DEF FileRecords, FoundInv
<1>7. Size(w)' = 0 /\ \A v \in Runs : v # w => Size(v)' = Size(v)
  BY <1>1, <1>5 DEF Unlink, LogData, Size
<1>8. SizesAreNumbers /\ SizesAreNumbers'
  <2>1. LogData' => SizesAreNumbers'
    BY SizesTypes, PTL
  <2> QED  BY <2>1, SizesTypes
<1>9. FoundInv'
  <2>1. ASSUME NEW f \in sweep.found \ {e}  PROVE f.size <= Size(f.run)'
    <3>1. f.run \in Runs /\ f.size <= Size(f.run) /\ f.run # w
      BY <1>2, <1>3, <1>4, <1>5 DEF FileRecords, FoundInv
    <3>2. PICK v \in Runs : v = f.run
      BY <3>1
    <3> QED  BY <1>7, <3>1, <3>2
  <2> QED  BY <1>2, <1>3, <2>1 DEF FoundInv
<1>10. RememberedAreNumbers /\ RememberedAreNumbers' /\ RememberedOnce /\ RememberedOnce'
  <2>1. (SweepTypes' => RememberedAreNumbers') /\ (FoundInv' => RememberedOnce')
    BY RememberedTypes, RememberedOf, PTL
  <2> QED  BY <1>2, <1>9, <2>1, RememberedTypes, RememberedOf
<1>11. Remembered[w] = e.size /\ Remembered'[w] = 0
  <2>1. \A f \in sweep'.found : f.run # w
    BY <1>2, <1>3, <1>4, <1>5 DEF FoundInv
  <2> QED  BY <1>4, <1>5, <1>10, <2>1 DEF RememberedOnce
<1>12. \A v \in Runs \ {w} : Remembered'[v] = Remembered[v] /\ Sizes'[v] = Sizes[v]
  <2> SUFFICES ASSUME NEW v \in Runs, v # w  PROVE Remembered'[v] = Remembered[v] /\ Sizes'[v] = Sizes[v]
    OBVIOUS
  <2>1. Sizes'[v] = Sizes[v]
    BY <1>7 DEF Sizes
  <2>2. CASE \E f \in sweep.found : f.run = v
    <3>1. PICK f \in sweep.found : f.run = v
      BY <2>2
    <3>2. f \in sweep'.found
      BY <1>3, <1>5, <3>1
    <3> QED  BY <1>10, <2>1, <3>1, <3>2 DEF RememberedOnce
  <2>3. CASE \A f \in sweep.found : f.run # v
    <3>1. \A f \in sweep'.found : f.run # v
      BY <1>3, <2>3
    <3> QED  BY <1>10, <2>1, <2>3, <3>1 DEF RememberedOnce
  <2> QED  BY <2>2, <2>3
<1>13. Sizes[w] = Size(w) /\ Sizes'[w] = 0 /\ Size(w) \in Nat
  BY <1>7, <1>8 DEF Sizes, SizesAreNumbers
<1>14. /\ SumOf(Remembered') = SumOf(Remembered) + Remembered'[w] - Remembered[w]
       /\ SumOf(Sizes') = SumOf(Sizes) + Sizes'[w] - Sizes[w]
       /\ SumOf(Remembered) \in Nat /\ SumOf(ToStat) \in Nat /\ SumOf(Sizes) \in Nat
  BY <1>8, <1>10, <1>12, SumOfUpdate, SumOfFacts DEF SizesAreNumbers, RememberedAreNumbers
<1>15. ToStat' = ToStat
  BY <1>2, <1>3 DEF ToStat
<1>16. SumOf(Sizes)' = SumOf(Sizes') /\ SumOf(ToStat)' = SumOf(ToStat')
       /\ SumOf(Remembered)' = SumOf(Remembered')
  BY DEF SumOf
<1>17. SpaceInv'
  <2>1. /\ sweep.total = SumOf(Remembered) + sweep.stuck
        /\ SumOf(Sizes) <= SumOf(ToStat) + sweep.total + sweep.grown + sweep.passed
    BY <1>2 DEF SpaceInv
  <2>2. /\ SumOf(Remembered') + sweep.stuck = sweep.total - e.size
        /\ SumOf(Sizes') <= SumOf(ToStat) + (sweep.total - e.size) + sweep.grown + sweep.passed
    BY <1>3, <1>6, <1>11, <1>13, <1>14, <2>1
  <2> QED  BY <1>3, <1>15, <1>16, <2>2 DEF SpaceInv
<1>18. FreedInv'
  <2>1. \A f \in sweep.freed \cup {e}, g \in sweep.found \ {e} : f.mtime <= g.mtime
    BY <1>2, <1>4 DEF FreedInv
  <2>2. (sweep.total - e.size) + e.size > MaxBytes
    BY <1>2, <1>3, <1>6
  <2> QED  BY <1>3, <2>1, <2>2 DEF FreedInv
<1> QED  BY <1>9, <1>17, <1>18 DEF SweepInv

\* A file that cannot be removed for space is no longer remembered; the total stays.
LEMMA StuckKept ==
  ASSUME LogData, LogData', SweepInv, SweepTypes', FileInv',
         sweep.pc = "scan", sweep.todo = {}, NEW e \in Oldest(sweep.found),
         UNCHANGED <<path, lines>>,
         sweep' = [sweep EXCEPT !.found = @ \ {e}, !.stuck = @ + e.size]
  PROVE  SweepInv'
<1>1. FoundInv /\ SpaceInv /\ FreedInv /\ SweepTypes
  BY DEF SweepInv
<1>2. /\ sweep'.pc = "scan" /\ sweep'.todo = {} /\ sweep'.found = sweep.found \ {e}
      /\ sweep'.total = sweep.total /\ sweep'.freed = sweep.freed /\ sweep'.grown = sweep.grown
      /\ sweep'.passed = sweep.passed /\ sweep'.stuck = sweep.stuck + e.size
      /\ sweep.passed \in Nat /\ sweep.stuck \in Nat
      /\ sweep.grown \in Nat /\ sweep.total \in Int /\ sweep.found \subseteq FileRecords
  BY <1>1 DEF SweepTypes
<1>3. e \in sweep.found /\ e \in FileRecords /\ e.size \in Nat
  BY <1>2 DEF Oldest, FileRecords
<1>4. PICK w \in Runs : w = e.run
  BY <1>3 DEF FileRecords
<1>5. \A v \in Runs : Size(v)' = Size(v)
  BY DEF Size
<1>6. Sizes' = Sizes /\ ToStat' = ToStat
  BY <1>2, <1>5 DEF Sizes, ToStat
<1>7. FoundInv'
  <2>1. ASSUME NEW f \in sweep.found  PROVE f.size <= Size(f.run)'
    <3>1. f.run \in Runs /\ f.size <= Size(f.run)
      BY <1>1, <1>2 DEF FileRecords, FoundInv
    <3>2. PICK v \in Runs : v = f.run
      BY <3>1
    <3> QED  BY <1>5, <3>1, <3>2
  <2> QED  BY <1>1, <1>2, <2>1 DEF FoundInv
<1>8. RememberedAreNumbers /\ RememberedAreNumbers' /\ RememberedOnce /\ RememberedOnce'
  <2>1. (SweepTypes' => RememberedAreNumbers') /\ (FoundInv' => RememberedOnce')
    BY RememberedTypes, RememberedOf, PTL
  <2> QED  BY <1>1, <1>7, <2>1, RememberedTypes, RememberedOf
<1>9. Remembered[w] = e.size /\ Remembered'[w] = 0
  <2>1. \A f \in sweep'.found : f.run # w
    BY <1>1, <1>2, <1>3, <1>4 DEF FoundInv
  <2> QED  BY <1>3, <1>4, <1>8, <2>1 DEF RememberedOnce
<1>10. \A v \in Runs \ {w} : Remembered'[v] = Remembered[v]
  <2> SUFFICES ASSUME NEW v \in Runs, v # w  PROVE Remembered'[v] = Remembered[v]
    OBVIOUS
  <2>1. CASE \E f \in sweep.found : f.run = v
    <3>1. PICK f \in sweep.found : f.run = v
      BY <2>1
    <3>2. f \in sweep'.found
      BY <1>2, <1>4, <3>1
    <3> QED  BY <1>8, <3>1, <3>2 DEF RememberedOnce
  <2>2. CASE \A f \in sweep.found : f.run # v
    <3>1. \A f \in sweep'.found : f.run # v
      BY <1>2, <2>2
    <3> QED  BY <1>8, <2>2, <3>1 DEF RememberedOnce
  <2> QED  BY <2>1, <2>2
<1>11. /\ SumOf(Remembered') = SumOf(Remembered) + Remembered'[w] - Remembered[w]
       /\ SumOf(Remembered) \in Nat
  BY <1>8, <1>10, SumOfUpdate, SumOfFacts DEF RememberedAreNumbers
<1>12. SumOf(Sizes)' = SumOf(Sizes') /\ SumOf(ToStat)' = SumOf(ToStat')
       /\ SumOf(Remembered)' = SumOf(Remembered')
  BY DEF SumOf
<1>13. SpaceInv'
  <2>1. sweep.total = SumOf(Remembered') + (sweep.stuck + e.size)
    BY <1>1, <1>2, <1>3, <1>9, <1>11 DEF SpaceInv
  <2> QED  BY <1>1, <1>2, <1>6, <1>12, <2>1 DEF SpaceInv
<1>14. FreedInv'
  BY <1>1, <1>2 DEF FreedInv
<1> QED  BY <1>7, <1>13, <1>14 DEF SweepInv

\* Every step of the logs keeps the invariant of the sweep.
LEMMA SweepNext ==
  ASSUME LogInv, LogInv', SweepInv, LogStep
  PROVE  SweepInv'
<1> USE DEF LogInv
<1>1. SweepTypes' /\ FileInv'
  BY SweepTypesKept, FileInvKept DEF SweepInv
<1>2. ASSUME UNCHANGED <<path, lines, sweep>>  PROVE SweepInv'
  <2>1. \A v \in Runs : Size(v)' = Size(v)
    BY <1>2 DEF Size
  <2> QED  BY <1>1, <1>2, <2>1, SweepSame
<1>3. ASSUME NEW w \in Runs, CreateLog(w)  PROVE SweepInv'
  <2>1. \A v \in Runs : Size(v)' = Size(v)
    BY <1>3 DEF CreateLog, At, Size, SweepInv, FileInv, LogData
  <2>2. UNCHANGED sweep
    BY <1>3 DEF CreateLog
  <2> QED  BY <1>1, <2>1, <2>2, SweepSame
<1>4. ASSUME NEW w \in Runs, WriteLine(w)  PROVE SweepInv'
  <2>1. UNCHANGED path /\ lines' = [lines EXCEPT ![w][1] = @ + 1] /\ Grows
    BY <1>4 DEF WriteLine
  <2>2. \A v \in Runs : v # w => Size(v)' = Size(v)
    BY <2>1 DEF Size, LogData
  <2>3. Size(w)' \in {Size(w), Size(w) + 1}
    BY <2>1 DEF Size, LogData
  <2> QED  BY <1>1, <2>1, <2>2, <2>3, GrowthKept DEF Grows
<1>5. ASSUME NEW w \in Runs, AppendError(w)  PROVE SweepInv'
  <2>1. PICK f \in 1..2 : /\ path' = [path EXCEPT ![w] = f] /\ lines' = [lines EXCEPT ![w][f] = @ + 1]
                          /\ f = IF path[w] # 0 THEN path[w] ELSE IF w \in lost THEN 2 ELSE 1
                          /\ writer[w] = "append" /\ Grows
    <3> DEFINE g == IF path[w] # 0 THEN path[w] ELSE IF w \in lost THEN 2 ELSE 1
    <3>1. path[w] \in 0..2
      BY DEF LogData
    <3>2. g \in 1..2
      BY <3>1
    <3>3. /\ path' = [path EXCEPT ![w] = g] /\ lines' = [lines EXCEPT ![w][g] = @ + 1]
          /\ writer[w] = "append" /\ Grows
      BY <1>5 DEF AppendError, At
    <3> QED  BY <3>2, <3>3
  <2>2. \A v \in Runs : v # w => Size(v)' = Size(v)
    BY <2>1 DEF Size, LogData
  <2>3. path[w] = 0 => lines[w][f] = 0
    BY <2>1 DEF SweepInv, FileInv
  <2>4. Size(w)' = lines[w][f] + 1
    BY <2>1 DEF Size, LogData
  <2>5. Size(w) = lines[w][f]
    BY <2>1, <2>3 DEF Size
  <2> QED  BY <1>1, <2>1, <2>2, <2>4, <2>5, GrowthKept DEF Grows
<1>6. CASE ReadDir
  BY <1>1, <1>6, ReadDirKept
<1>7. ASSUME NEW w \in Runs, StatFile(w)  PROVE SweepInv'
  <2>1. sweep.pc = "scan" /\ w \in sweep.todo
    BY <1>7 DEF StatFile
  <2>2. CASE Unlink(w) /\ sweep' = [sweep EXCEPT !.todo = @ \ {w}]
    BY <1>1, <2>1, <2>2, OldFileKept
  <2>3. CASE /\ UNCHANGED fileVars
             /\ sweep' = [sweep EXCEPT !.todo = @ \ {w}, !.total = @ + Size(w),
                            !.found = @ \cup {[run |-> w, size |-> Size(w), mtime |-> mtime[w]]}]
    BY <1>1, <2>1, <2>3, NewFileKept DEF fileVars
  <2>4. CASE UNCHANGED fileVars /\ sweep' = [sweep EXCEPT !.todo = @ \ {w}, !.passed = @ + Size(w)]
    BY <1>1, <2>1, <2>4, PassedOverKept DEF fileVars
  <2> QED  BY <1>7, <2>2, <2>3, <2>4 DEF StatFile
<1>8. CASE FreeSpace
  <2>1. sweep.pc = "scan" /\ sweep.todo = {} /\ sweep.total > MaxBytes
    BY <1>8 DEF FreeSpace
  <2>2. PICK e \in Oldest(sweep.found) :
          \/ /\ Unlink(e.run)
             /\ sweep' = [sweep EXCEPT !.total = @ - e.size, !.found = @ \ {e},
                                       !.freed = @ \cup {e}]
          \/ UNCHANGED fileVars /\ sweep' = [sweep EXCEPT !.found = @ \ {e}, !.stuck = @ + e.size]
    BY <1>8 DEF FreeSpace
  <2>3. CASE /\ Unlink(e.run)
             /\ sweep' = [sweep EXCEPT !.total = @ - e.size, !.found = @ \ {e},
                                       !.freed = @ \cup {e}]
    BY <1>1, <2>1, <2>3, FreedKept
  <2>4. CASE UNCHANGED fileVars /\ sweep' = [sweep EXCEPT !.found = @ \ {e}, !.stuck = @ + e.size]
    BY <1>1, <2>1, <2>4, StuckKept DEF fileVars
  <2> QED  BY <2>2, <2>3, <2>4
<1>9. CASE Swept
  <2>1. /\ sweep'.pc = "swept" /\ sweep'.todo = sweep.todo /\ sweep'.found = sweep.found
        /\ sweep'.total = sweep.total /\ sweep'.freed = sweep.freed /\ sweep'.grown = sweep.grown
        /\ sweep'.passed = sweep.passed /\ sweep'.stuck = sweep.stuck
        /\ sweep.todo = {} /\ (sweep.total <= MaxBytes \/ sweep.found = {})
        /\ UNCHANGED <<path, lines>>
    BY <1>9 DEF Swept, SweepInv, SweepTypes, fileVars
  <2>2. FoundInv /\ SpaceInv /\ FreedInv
    BY <1>9 DEF Swept, SweepInv
  <2>3. FoundInv' /\ FreedInv'
    BY <2>1, <2>2 DEF FoundInv, FreedInv, Size
  <2>4. Sizes' = Sizes /\ ToStat' = ToStat /\ Remembered' = Remembered
    BY <2>1 DEF Sizes, ToStat, Remembered, Size
  <2>5. /\ SumOf(Sizes)' = SumOf(Sizes') /\ SumOf(ToStat)' = SumOf(ToStat')
        /\ SumOf(Remembered)' = SumOf(Remembered')
    BY DEF SumOf
  <2>6. SpaceInv'
    BY <2>1, <2>2, <2>4, <2>5 DEF SpaceInv
  <2> QED  BY <1>1, <2>3, <2>6 DEF SweepInv
<1>10. CASE Rest \/ CrashLogs
  <2>1. sweep'.pc = "idle"
    BY <1>10 DEF Rest, CrashLogs, NoSweep
  <2> QED  BY <1>1, <2>1 DEF SweepInv
<1>11. CASE Writing
  BY <1>2, <1>3, <1>4, <1>5, <1>11, Zenon
     DEF Writing, RunJob, StartRun, MarkRunning, RunnerReturns, Finish, Leave, TimeOut, CancelRun,
         RecordCanceled, fileVars
<1>12. CASE Reading \/ Tick
  BY <1>2, <1>12, Zenon
     DEF Tick, Reading, Stream, CopyLog, OpenLog, Drain, CheckStatus, FinalDrain, Wait, Disconnect,
         GetLog, fileVars
<1>13. CASE Sweeping
  BY <1>6, <1>7, <1>8, <1>9, <1>10, <1>13, Zenon DEF Sweeping
<1> QED  BY <1>10, <1>11, <1>12, <1>13, Zenon DEF LogStep

\* It implies what ApplyRetention promises.
LEMMA SweepHolds == LogInv /\ SweepInv => SweepKeepsNewest
<1> SUFFICES ASSUME LogInv, SweepInv, sweep.pc = "swept"  PROVE SweepKeepsNewest
  BY DEF SweepKeepsNewest
<1>1. /\ FoundInv /\ SpaceInv /\ FreedInv /\ SweepTypes /\ MaxBytes \in Nat
      /\ sweep.todo = {} /\ (sweep.total <= MaxBytes \/ sweep.found = {})
      /\ sweep.total \in Int /\ sweep.grown \in Nat
      /\ sweep.passed \in Nat /\ sweep.stuck \in Nat
  BY LogStreamAssumption DEF SweepInv, FreedInv, SweepTypes
<1>2. SumOf(ToStat) = 0
  <2>1. ToStat \in [Runs -> {0}]
    BY <1>1 DEF ToStat
  <2> QED  BY <2>1, SumOfNothing
<1>3. sweep.total <= IF sweep.found = {} THEN sweep.stuck ELSE MaxBytes
  <2>1. CASE sweep.found = {}
    <3>1. Remembered \in [Runs -> {0}]
      BY <2>1 DEF Remembered
    <3> QED  BY <1>1, <2>1, <3>1, SumOfNothing DEF SpaceInv
  <2> QED  BY <1>1, <2>1
<1>4. MapThenSumSet(Size, Runs) = SumOf(Sizes) /\ SumOf(Sizes) \in Nat
  <2>1. Sizes \in [Runs -> Nat]
    BY SizesTypes DEF SizesAreNumbers, LogInv
  <2>2. PICK h : Sums(h, Sizes, Runs) /\ MapThenSumSet(Size, Runs) = h[Runs]
    BY SizeSum DEF Sizes
  <2> QED  BY <2>1, <2>2, SumOfFacts
<1>5. SumOf(Sizes) <=
        sweep.passed + sweep.grown + (IF sweep.found = {} THEN sweep.stuck ELSE MaxBytes)
  BY <1>1, <1>2, <1>3, <1>4 DEF SpaceInv
<1>6. /\ \A f \in sweep.freed, g \in sweep.found : f.mtime <= g.mtime
      /\ sweep.freed # {} => \E f \in sweep.freed : sweep.total + f.size > MaxBytes
  BY <1>1 DEF FreedInv
<1> QED  BY <1>4, <1>5, <1>6 DEF SweepKeepsNewest

\* But for files it passed over and what was written while it ran, ApplyRetention
\* leaves no more than the limit, or only what it could not remove; it removes the
\* oldest first and none for space when the others fit: for any number of logs,
\* sizes and limits, whatever entry.Info and os.Remove fail for, with runs writing
\* all the while and their logs being created under it (retention.go:35-85).
THEOREM RetentionKeepsNewest == Spec => []SweepKeepsNewest
<1> DEFINE Inv == LogInv /\ SweepInv
<1>1. Init => Inv
  BY LogStart, SweepStart DEF Init
<1>2. Inv /\ [Next]_serverVars => Inv'
  <2> SUFFICES ASSUME LogInv, SweepInv, [Next]_serverVars  PROVE LogInv' /\ SweepInv'
    OBVIOUS
  <2>1. LogInv'
    BY LogNext
  <2>2. CASE LogStep
    BY <2>1, <2>2, SweepNext
  <2>3. CASE UNCHANGED logVars
    <3>1. SweepTypes' /\ FileInv' /\ UNCHANGED sweep
      BY <2>3 DEF SweepInv, SweepTypes, FileInv, logVars, runVars, fileVars
    <3>2. \A w \in Runs : Size(w)' = Size(w)
      BY <2>3 DEF Size, logVars, fileVars
    <3> QED  BY <2>1, <3>1, <3>2, SweepSame
  <2>4. LogStep \/ UNCHANGED logVars
    BY Zenon DEF Next, SchemaStep, AccountsStep, ProjectsStep, StreamStep, RetentionStep, LogStep,
       serverVars
  <2> QED  BY <2>1, <2>2, <2>3, <2>4
<1>3. Inv => SweepKeepsNewest
  BY SweepHolds
<1> QED  BY <1>1, <1>2, <1>3, PTL DEF Spec

-----------------------------------------------------------------------------
(* Opening the database: internal/store/migrations.go on the tables an older  *)
(* release left.                                                              *)

\* A table as the statements make it.
IsTable(x) == x = [cols |-> x.cols, ref |-> x.ref, rows |-> x.rows]

\* d maps names to tables.
IsDatabase(d) == d = [t \in DOMAIN d |-> d[t]] /\ \A t \in DOMAIN d : IsTable(d[t])

\* What a statement has made of the tables d: CREATE TABLE of a new one,
TableCreated(d, e, t, cols, ref) ==
  /\ IsDatabase(e) /\ DOMAIN e = DOMAIN d \cup {t}
  /\ e[t].cols = cols /\ e[t].ref = ref /\ e[t].rows = {}
  /\ \A u \in DOMAIN d : e[u] = d[u]

\* ALTER TABLE ADD COLUMN,
ColumnAdded(d, e, t, c) ==
  /\ IsDatabase(e) /\ DOMAIN e = DOMAIN d
  /\ e[t].cols = d[t].cols \cup {c} /\ e[t].ref = d[t].ref /\ e[t].rows = d[t].rows
  /\ \A u \in DOMAIN d \ {t} : e[u] = d[u]

\* ALTER TABLE RENAME,
TableRenamed(d, e, t, n) ==
  LET to(x) == IF x = t THEN n ELSE x
  IN  /\ IsDatabase(e) /\ DOMAIN e = (DOMAIN d \ {t}) \cup {n}
      /\ e[n].cols = d[t].cols /\ e[n].ref = to(d[t].ref) /\ e[n].rows = d[t].rows
      /\ \A u \in DOMAIN d \ {t} :
           e[u].cols = d[u].cols /\ e[u].ref = to(d[u].ref) /\ e[u].rows = d[u].rows

\* INSERT ... SELECT into an empty table,
RowsInserted(d, e, n, t) ==
  /\ IsDatabase(e) /\ DOMAIN e = DOMAIN d
  /\ e[n].cols = d[n].cols /\ e[n].ref = d[n].ref /\ e[n].rows = d[t].rows
  /\ \A u \in DOMAIN d \ {n} : e[u] = d[u]

\* and DROP TABLE: with foreign keys the rows that hang on the table may go, too.
TableDropped(d, e, t) ==
  /\ IsDatabase(e) /\ DOMAIN e = DOMAIN d \ {t}
  /\ \A u \in DOMAIN d \ {t} :
       /\ e[u].cols = d[u].cols /\ e[u].ref = d[u].ref
       /\ ~fk \/ d[u].ref # t => e[u].rows = d[u].rows

\* CREATE TABLE makes a table that is not there,
LEMMA CreateDoes ==
  ASSUME NEW d, IsDatabase(d), NEW t, t \notin DOMAIN d, NEW cols, NEW ref, NEW s,
         s.kind = "create", s.table = t, s.cols = cols, s.ref = ref
  PROVE  ~Fails(s, d) /\ TableCreated(d, Exec(s, d), t, cols, ref)
<1> DEFINE x == [cols |-> cols, ref |-> ref, rows |-> {}]
           e == [u \in DOMAIN d \cup {t} |-> IF u = t THEN x ELSE d[u]]
<1>1. Exec(s, d) = e /\ ~Fails(s, d)
  BY DEF Exec, Fails
<1>2. DOMAIN e = DOMAIN d \cup {t} /\ e = [u \in DOMAIN e |-> e[u]] /\ e[t] = x
  OBVIOUS
<1>3. \A u \in DOMAIN d : e[u] = d[u]
  OBVIOUS
<1>4. IsTable(x) /\ x.cols = cols /\ x.ref = ref /\ x.rows = {}
  BY DEF IsTable
<1> HIDE DEF e, x
<1> QED
  BY <1>1, <1>2, <1>3, <1>4 DEF IsDatabase, TableCreated

\* and with IF NOT EXISTS leaves alone one that is.
LEMMA CreateIsQuiet ==
  ASSUME NEW d, NEW t, t \in DOMAIN d, NEW cols, NEW ref, NEW s, s = Create(t, cols, ref, TRUE)
  PROVE  ~Fails(s, d) /\ Exec(s, d) = d
BY DEF Create, Exec, Fails

\* A column that is not there can be added.
LEMMA AddColumnDoes ==
  ASSUME NEW d, IsDatabase(d), NEW t \in DOMAIN d, NEW c, c \notin d[t].cols,
         NEW s, s = AddColumn(t, c)
  PROVE  ~Fails(s, d) /\ ColumnAdded(d, Exec(s, d), t, c)
<1> DEFINE e == [d EXCEPT ![t].cols = @ \cup {c}]
<1>1. Exec(s, d) = e /\ ~Fails(s, d)
  BY DEF AddColumn, Exec, Fails
<1>2. DOMAIN e = DOMAIN d /\ e = [u \in DOMAIN e |-> e[u]] /\ \A u \in DOMAIN d \ {t} : e[u] = d[u]
  BY DEF IsDatabase
<1>3. /\ IsTable(e[t])
      /\ e[t].cols = d[t].cols \cup {c}
      /\ e[t].ref = d[t].ref
      /\ e[t].rows = d[t].rows
  <2> DEFINE x == d[t]
  <2>1. IsTable(x) /\ e[t] = [x EXCEPT !.cols = @ \cup {c}]
    BY DEF IsDatabase
  <2> HIDE DEF x
  <2>2. IsTable(e[t]) /\ e[t].cols = x.cols \cup {c} /\ e[t].ref = x.ref /\ e[t].rows = x.rows
    BY <2>1 DEF IsTable
  <2> QED
    BY <2>2 DEF x
<1> HIDE DEF e
<1> QED
  BY <1>1, <1>2, <1>3 DEF IsDatabase, ColumnAdded

\* A table can be renamed to a name that is free.
LEMMA RenameDoes ==
  ASSUME NEW d, IsDatabase(d), NEW t \in DOMAIN d, NEW n, n \notin DOMAIN d,
         NEW s, s = Rename(t, n)
  PROVE  ~Fails(s, d) /\ TableRenamed(d, Exec(s, d), t, n)
<1> DEFINE named == [u \in (DOMAIN d \ {t}) \cup {n} |-> IF u = n THEN d[t] ELSE d[u]]
           e == [u \in DOMAIN named |-> [named[u] EXCEPT !.ref = IF @ = t THEN n ELSE @]]
<1>1. Exec(s, d) = e /\ ~Fails(s, d)
  BY DEF Rename, Exec, Fails
<1>2. ASSUME NEW u \in DOMAIN named PROVE IsTable(named[u])
  BY DEF IsDatabase
<1>3. ASSUME NEW u \in DOMAIN named
      PROVE  /\ IsTable(e[u]) /\ e[u].cols = named[u].cols /\ e[u].rows = named[u].rows
             /\ e[u].ref = IF named[u].ref = t THEN n ELSE named[u].ref
  <2> DEFINE x == named[u]
  <2>1. IsTable(x) /\ e[u] = [x EXCEPT !.ref = IF @ = t THEN n ELSE @]
    BY <1>2
  <2> HIDE DEF x
  <2>2. /\ IsTable(e[u]) /\ e[u].cols = x.cols /\ e[u].rows = x.rows
        /\ e[u].ref = IF x.ref = t THEN n ELSE x.ref
    BY <2>1 DEF IsTable
  <2> QED
    BY <2>2 DEF x
<1>4. DOMAIN e = DOMAIN named /\ DOMAIN named = (DOMAIN d \ {t}) \cup {n}
  OBVIOUS
<1>5. named[n] = d[t] /\ \A u \in DOMAIN d \ {t} : named[u] = d[u]
  OBVIOUS
<1>6. e = [u \in DOMAIN e |-> e[u]]
  OBVIOUS
<1> HIDE DEF e, named
<1> QED
  BY <1>1, <1>3, <1>4, <1>5, <1>6 DEF IsDatabase, TableRenamed

\* Rows of a table with the columns can be inserted into an empty one.
LEMMA InsertDoes ==
  ASSUME NEW d, IsDatabase(d), NEW t \in DOMAIN d, NEW n \in DOMAIN d, NEW cols,
         cols \subseteq d[t].cols, d[n].rows = {}, NEW s, s = Insert(n, cols, t)
  PROVE  ~Fails(s, d) /\ RowsInserted(d, Exec(s, d), n, t)
<1> DEFINE e == [d EXCEPT ![n].rows = @ \cup d[t].rows]
<1>1. Exec(s, d) = e /\ ~Fails(s, d)
  BY DEF Insert, Exec, Fails
<1>2. DOMAIN e = DOMAIN d /\ e = [u \in DOMAIN e |-> e[u]] /\ \A u \in DOMAIN d \ {n} : e[u] = d[u]
  BY DEF IsDatabase
<1>3. IsTable(e[n]) /\ e[n].cols = d[n].cols /\ e[n].ref = d[n].ref /\ e[n].rows = d[t].rows
  <2> DEFINE x == d[n]
  <2>1. IsTable(x) /\ e[n] = [x EXCEPT !.rows = @ \cup d[t].rows] /\ x.rows = {}
    BY DEF IsDatabase
  <2> HIDE DEF x
  <2>2. IsTable(e[n]) /\ e[n].cols = x.cols /\ e[n].ref = x.ref /\ e[n].rows = d[t].rows
    BY <2>1 DEF IsTable
  <2> QED
    BY <2>2 DEF x
<1> HIDE DEF e
<1> QED
  BY <1>1, <1>2, <1>3 DEF IsDatabase, RowsInserted

\* A table that is there can be dropped.
LEMMA DropDoes ==
  ASSUME NEW d, IsDatabase(d), NEW t \in DOMAIN d, NEW s, s = Drop(t)
  PROVE  ~Fails(s, d) /\ TableDropped(d, Exec(s, d), t)
<1> DEFINE c(u) == IF fk /\ d[u].ref = t THEN [d[u] EXCEPT !.rows = @ \ d[t].rows] ELSE d[u]
           e == [u \in DOMAIN d \ {t} |-> c(u)]
<1>1. Exec(s, d) = e /\ ~Fails(s, d)
  BY DEF Drop, Exec, Fails, Without
<1>2. ASSUME NEW u \in DOMAIN d \ {t}
      PROVE  /\ IsTable(c(u)) /\ c(u).cols = d[u].cols /\ c(u).ref = d[u].ref
             /\ ~fk \/ d[u].ref # t => c(u).rows = d[u].rows
  <2>1. IsTable(d[u])
    BY DEF IsDatabase
  <2> QED
    BY <2>1 DEF IsTable
<1> HIDE DEF c
<1> QED
  BY <1>1, <1>2 DEF IsDatabase, TableDropped

\* The tables after k - 1 statements of 009_projects_triggers.sql.
Midway(k) ==
  {"seen_commits", "users", "sessions", "run_jobs", "run_artifacts"}
    \cup (CASE k \in 1..3 -> {"workflows"}
            [] k \in 4..5 -> {"workflows", "workflows_new"}
            [] k = 6      -> {"workflows_new"}
            [] OTHER      -> {"workflows"})
    \cup (CASE k \in 1..7  -> {"runs"}
            [] k \in 8..9  -> {"runs", "runs_new"}
            [] k = 10      -> {"runs_new"}
            [] OTHER       -> {"runs"})
    \cup (CASE k = 1        -> {"watches"}
            [] k \in 2..13  -> {"projects"}
            [] k \in 14..15 -> {"projects", "projects_new"}
            [] k = 16       -> {"projects_new"}
            [] OTHER        -> {"projects"})
    \cup (IF k >= 12 THEN {"project_triggers"} ELSE {})

\* Their columns.
MidwayCols(k, t) ==
  CASE t = "watches"       -> {"repo"}
    [] t = "projects"      -> IF k = 2 THEN {"repo"}
                              ELSE IF k = 17 THEN {"description"} ELSE {"repo", "description"}
    [] t = "projects_new"  -> {"description"}
    [] t = "workflows"     -> IF k < 6 THEN {"watch_name", "timeout_minutes"}
                              ELSE {"project_name", "timeout_minutes"}
    [] t = "workflows_new" -> {"project_name", "timeout_minutes"}
    [] t = "runs"          -> IF k < 10 THEN {"watch_name"} ELSE {"project_name"}
    [] t = "runs_new"      -> {"project_name"}
    [] OTHER               -> {}

\* Tables that no drop takes rows from.
Safe == {"seen_commits", "users", "sessions", "runs", "runs_new", "watches", "projects", "projects_new"}

\* The table of release 8 whose rows table t has after k - 1 statements, "" for none.
MidwaySource(k, t) ==
  CASE t \in {"watches", "projects"} -> "watches"
    [] t = "projects_new"            -> IF k = 14 THEN "" ELSE "watches"
    [] t = "project_triggers"        -> IF k = 12 THEN "" ELSE "watches"
    [] t = "workflows_new"           -> IF k = 4 THEN "" ELSE "workflows"
    [] t = "runs_new"                -> IF k = 8 THEN "" ELSE "runs"
    [] OTHER                         -> t

\* Table t, x, k - 1 statements into the last file, if that began with rows R.
TableIsMidway(x, k, t, R) ==
  /\ x.cols = MidwayCols(k, t)
  /\ t \in Safe => x.ref \in {"", "users"}
  /\ MidwaySource(k, t) = "" => x.rows = {}
  /\ MidwaySource(k, t) # "" /\ (t \in Safe \/ ~fk) => x.rows = R[MidwaySource(k, t)]

\* d is a database k - 1 statements into the last file, that began with rows R.
IsMidway(d, k, R) ==
  /\ IsDatabase(d)
  /\ DOMAIN d = Midway(k)
  /\ \A t \in DOMAIN d : TableIsMidway(d[t], k, t, R)

\* A table that statement k does not touch.
Untouched(k, t) ==
  MidwayCols(k + 1, t) = MidwayCols(k, t) /\ MidwaySource(k + 1, t) = MidwaySource(k, t)

\* Such a table is as it was.
LEMMA MidwayKept ==
  ASSUME NEW x, NEW y, NEW k, NEW t, NEW R, TableIsMidway(x, k, t, R), Untouched(k, t),
         y.cols = x.cols, t \in Safe => y.ref = x.ref,
         MidwaySource(k, t) = "" \/ t \in Safe \/ ~fk => y.rows = x.rows
  PROVE  TableIsMidway(y, k + 1, t, R)
BY DEF TableIsMidway, Untouched

\* The tables, one statement after the other.
LEMMA MidwayTables ==
  /\ Midway(1) = {"seen_commits", "users", "sessions", "run_jobs", "run_artifacts",
                 "workflows", "runs", "watches"}
  /\ Midway(2) = {"seen_commits", "users", "sessions", "run_jobs", "run_artifacts",
                 "workflows", "runs", "projects"}
  /\ Midway(3) = {"seen_commits", "users", "sessions", "run_jobs", "run_artifacts",
                 "workflows", "runs", "projects"}
  /\ Midway(4) = {"seen_commits", "users", "sessions", "run_jobs", "run_artifacts",
                 "workflows", "workflows_new", "runs", "projects"}
  /\ Midway(5) = {"seen_commits", "users", "sessions", "run_jobs", "run_artifacts",
                 "workflows", "workflows_new", "runs", "projects"}
  /\ Midway(6) = {"seen_commits", "users", "sessions", "run_jobs", "run_artifacts",
                 "workflows_new", "runs", "projects"}
  /\ Midway(7) = {"seen_commits", "users", "sessions", "run_jobs", "run_artifacts",
                 "workflows", "runs", "projects"}
  /\ Midway(8) = {"seen_commits", "users", "sessions", "run_jobs", "run_artifacts",
                 "workflows", "runs", "runs_new", "projects"}
  /\ Midway(9) = {"seen_commits", "users", "sessions", "run_jobs", "run_artifacts",
                 "workflows", "runs", "runs_new", "projects"}
  /\ Midway(10) = {"seen_commits", "users", "sessions", "run_jobs", "run_artifacts",
                  "workflows", "runs_new", "projects"}
  /\ Midway(11) = {"seen_commits", "users", "sessions", "run_jobs", "run_artifacts",
                  "workflows", "runs", "projects"}
  /\ Midway(12) = {"seen_commits", "users", "sessions", "run_jobs", "run_artifacts",
                  "workflows", "runs", "projects", "project_triggers"}
  /\ Midway(13) = {"seen_commits", "users", "sessions", "run_jobs", "run_artifacts",
                  "workflows", "runs", "projects", "project_triggers"}
  /\ Midway(14) = {"seen_commits", "users", "sessions", "run_jobs", "run_artifacts",
                  "workflows", "runs", "projects", "projects_new", "project_triggers"}
  /\ Midway(15) = {"seen_commits", "users", "sessions", "run_jobs", "run_artifacts",
                  "workflows", "runs", "projects", "projects_new", "project_triggers"}
  /\ Midway(16) = {"seen_commits", "users", "sessions", "run_jobs", "run_artifacts",
                  "workflows", "runs", "projects_new", "project_triggers"}
  /\ Midway(17) = {"seen_commits", "users", "sessions", "run_jobs", "run_artifacts",
                  "workflows", "runs", "projects", "project_triggers"}
<1>1. Midway(1) = {"seen_commits", "users", "sessions", "run_jobs", "run_artifacts",
                  "workflows", "runs", "watches"}
  BY DEF Midway
<1>2. Midway(2) = {"seen_commits", "users", "sessions", "run_jobs", "run_artifacts",
                  "workflows", "runs", "projects"}
  BY DEF Midway
<1>3. Midway(3) = {"seen_commits", "users", "sessions", "run_jobs", "run_artifacts",
                  "workflows", "runs", "projects"}
  BY DEF Midway
<1>4. Midway(4) = {"seen_commits", "users", "sessions", "run_jobs", "run_artifacts",
                  "workflows", "workflows_new", "runs", "projects"}
  BY DEF Midway
<1>5. Midway(5) = {"seen_commits", "users", "sessions", "run_jobs", "run_artifacts",
                  "workflows", "workflows_new", "runs", "projects"}
  BY DEF Midway
<1>6. Midway(6) = {"seen_commits", "users", "sessions", "run_jobs", "run_artifacts",
                  "workflows_new", "runs", "projects"}
  BY DEF Midway
<1>7. Midway(7) = {"seen_commits", "users", "sessions", "run_jobs", "run_artifacts",
                  "workflows", "runs", "projects"}
  BY DEF Midway
<1>8. Midway(8) = {"seen_commits", "users", "sessions", "run_jobs", "run_artifacts",
                  "workflows", "runs", "runs_new", "projects"}
  BY DEF Midway
<1>9. Midway(9) = {"seen_commits", "users", "sessions", "run_jobs", "run_artifacts",
                  "workflows", "runs", "runs_new", "projects"}
  BY DEF Midway
<1>10. Midway(10) = {"seen_commits", "users", "sessions", "run_jobs", "run_artifacts",
                    "workflows", "runs_new", "projects"}
  BY DEF Midway
<1>11. Midway(11) = {"seen_commits", "users", "sessions", "run_jobs", "run_artifacts",
                    "workflows", "runs", "projects"}
  BY DEF Midway
<1>12. Midway(12) = {"seen_commits", "users", "sessions", "run_jobs", "run_artifacts",
                    "workflows", "runs", "projects", "project_triggers"}
  BY DEF Midway
<1>13. Midway(13) = {"seen_commits", "users", "sessions", "run_jobs", "run_artifacts",
                    "workflows", "runs", "projects", "project_triggers"}
  BY DEF Midway
<1>14. Midway(14) = {"seen_commits", "users", "sessions", "run_jobs", "run_artifacts",
                    "workflows", "runs", "projects", "projects_new", "project_triggers"}
  BY DEF Midway
<1>15. Midway(15) = {"seen_commits", "users", "sessions", "run_jobs", "run_artifacts",
                    "workflows", "runs", "projects", "projects_new", "project_triggers"}
  BY DEF Midway
<1>16. Midway(16) = {"seen_commits", "users", "sessions", "run_jobs", "run_artifacts",
                    "workflows", "runs", "projects_new", "project_triggers"}
  BY DEF Midway
<1>17. Midway(17) = {"seen_commits", "users", "sessions", "run_jobs", "run_artifacts",
                    "workflows", "runs", "projects", "project_triggers"}
  BY DEF Midway
<1> QED
  BY <1>1, <1>2, <1>3, <1>4, <1>5, <1>6, <1>7, <1>8, <1>9, <1>10, <1>11, <1>12, <1>13, <1>14,
     <1>15, <1>16, <1>17

\* No statement of 009 fails, and each leads to the next.
LEMMA MidwayStep ==
  ASSUME NEW d, NEW k \in 1..16, NEW R, IsMidway(d, k, R), NEW e, e = Exec(ProjectsFile[k], d)
  PROVE  ~Fails(ProjectsFile[k], d) /\ IsMidway(e, k + 1, R)
<1> DEFINE s == ProjectsFile[k]
<1>1. IsDatabase(d) /\ DOMAIN d = Midway(k) /\ \A t \in DOMAIN d : TableIsMidway(d[t], k, t, R)
  BY DEF IsMidway
<1>2. SUFFICES ~Fails(s, d) /\ IsMidway(e, k + 1, R)
  OBVIOUS
<1>3. CASE k = 1
  <2>1. "watches" \in DOMAIN d /\ "projects" \notin DOMAIN d
    BY <1>1, <1>3, MidwayTables
  <2>2. TableIsMidway(d["watches"], 1, "watches", R)
    BY <1>1, <1>3, <2>1
  <2>3. MidwayCols(1, "watches") = {"repo"} /\ MidwaySource(1, "watches") = "watches"
    BY DEF MidwayCols, MidwaySource
  <2>4. s = Rename("watches", "projects")
    BY <1>3 DEF ProjectsFile
  <2>5. ~Fails(s, d) /\ TableRenamed(d, e, "watches", "projects")
    BY <1>1, <2>1, <2>4, RenameDoes
  <2>6. DOMAIN e = (DOMAIN d \ {"watches"}) \cup {"projects"}
    BY <2>5 DEF TableRenamed
  <2>7. DOMAIN e = Midway(2)
    BY <1>1, <1>3, <2>6, MidwayTables
  <2>8. ASSUME NEW t \in DOMAIN e \ {"projects"} PROVE TableIsMidway(e[t], 2, t, R)
    <3>1. t \in DOMAIN d
      BY <2>6
    <3>2. TableIsMidway(d[t], 1, t, R)
      BY <1>1, <1>3, <3>1
    <3>3. Untouched(1, t)
      <4>1. t \in Midway(1) \ {"watches"}
        BY <1>1, <1>3, <2>6
      <4> QED
        BY <4>1, MidwayTables DEF Untouched, MidwayCols, MidwaySource
    <3>4. e[t].cols = d[t].cols /\ e[t].rows = d[t].rows /\ (t \in Safe => e[t].ref = d[t].ref)
      BY <2>5, <3>1, <3>2 DEF TableIsMidway, TableRenamed
    <3>5. TableIsMidway(e[t], 1 + 1, t, R)
      BY <3>2, <3>3, <3>4, MidwayKept
    <3> QED
      BY <3>5
  <2>9. MidwayCols(2, "projects") = {"repo"} /\ MidwaySource(2, "projects") = "watches"
    BY DEF MidwayCols, MidwaySource
  <2>10. TableIsMidway(e["projects"], 2, "projects", R)
    BY <2>5, <2>2, <2>3, <2>9 DEF TableIsMidway, Safe, TableRenamed
  <2> QED
    <3>1. \A t \in DOMAIN e : TableIsMidway(e[t], 2, t, R)
      BY <2>8, <2>10
    <3>2. IsDatabase(e) /\ ~Fails(s, d)
      BY <2>5 DEF TableRenamed
    <3> QED
      BY <1>3, <2>7, <3>1, <3>2 DEF IsMidway
<1>4. CASE k = 2
  <2>1. "projects" \in DOMAIN d
    BY <1>1, <1>4, MidwayTables
  <2>2. TableIsMidway(d["projects"], 2, "projects", R)
    BY <1>1, <1>4, <2>1
  <2>3. MidwayCols(2, "projects") = {"repo"} /\ MidwaySource(2, "projects") = "watches"
    BY DEF MidwayCols, MidwaySource
  <2>4. d["projects"].cols = {"repo"}
    BY <2>2, <2>3 DEF TableIsMidway
  <2>5. "description" \notin d["projects"].cols
    BY <2>4
  <2>6. s = AddColumn("projects", "description")
    BY <1>4 DEF ProjectsFile
  <2>7. ~Fails(s, d) /\ ColumnAdded(d, e, "projects", "description")
    BY <1>1, <2>1, <2>4, <2>5, <2>6, AddColumnDoes
  <2>8. DOMAIN e = DOMAIN d
    BY <2>7 DEF ColumnAdded
  <2>9. DOMAIN e = Midway(3)
    BY <1>1, <1>4, <2>8, MidwayTables
  <2>10. ASSUME NEW t \in DOMAIN e \ {"projects"} PROVE TableIsMidway(e[t], 3, t, R)
    <3>1. t \in DOMAIN d
      BY <2>8
    <3>2. TableIsMidway(d[t], 2, t, R)
      BY <1>1, <1>4, <3>1
    <3>3. Untouched(2, t)
      <4>1. t \in Midway(2) \ {"projects"}
        BY <1>1, <1>4, <2>8
      <4> QED
        BY <4>1, MidwayTables DEF Untouched, MidwayCols, MidwaySource
    <3>4. TableIsMidway(e[t], 2 + 1, t, R)
      BY <2>7, <3>1, <3>2, <3>3, MidwayKept DEF ColumnAdded
    <3> QED
      BY <3>4
  <2>11. /\ MidwayCols(3, "projects") = {"repo", "description"}
         /\ MidwaySource(3, "projects") = "watches"
    BY DEF MidwayCols, MidwaySource
  <2>12. /\ e["projects"].cols = {"repo", "description"}
         /\ e["projects"].ref = d["projects"].ref
         /\ e["projects"].rows = d["projects"].rows
    BY <2>4, <2>5, <2>7 DEF ColumnAdded
  <2>13. TableIsMidway(e["projects"], 3, "projects", R)
    BY <2>7, <2>2, <2>3, <2>11, <2>12 DEF TableIsMidway, Safe
  <2> QED
    <3>1. \A t \in DOMAIN e : TableIsMidway(e[t], 3, t, R)
      BY <2>10, <2>13
    <3>2. IsDatabase(e) /\ ~Fails(s, d)
      BY <2>7 DEF ColumnAdded
    <3> QED
      BY <1>4, <2>9, <3>1, <3>2 DEF IsMidway
<1>5. CASE k = 3
  <2>1. "workflows_new" \notin DOMAIN d
    BY <1>1, <1>5, MidwayTables
  <2>2. /\ s.kind = "create"
        /\ s.table = "workflows_new"
        /\ s.cols = {"project_name", "timeout_minutes"}
        /\ s.ref = "projects"
    BY <1>5 DEF ProjectsFile, Create
  <2>3. /\ ~Fails(s, d)
        /\ TableCreated(d, e, "workflows_new", {"project_name", "timeout_minutes"}, "projects")
    BY <1>1, <2>1, <2>2, CreateDoes
  <2>4. DOMAIN e = DOMAIN d \cup {"workflows_new"}
    BY <2>3 DEF TableCreated
  <2>5. DOMAIN e = Midway(4)
    BY <1>1, <1>5, <2>4, MidwayTables
  <2>6. ASSUME NEW t \in DOMAIN e \ {"workflows_new"} PROVE TableIsMidway(e[t], 4, t, R)
    <3>1. t \in DOMAIN d
      BY <2>4
    <3>2. TableIsMidway(d[t], 3, t, R)
      BY <1>1, <1>5, <3>1
    <3>3. Untouched(3, t)
      <4>1. t \in Midway(3)
        BY <1>1, <1>5, <2>4
      <4> QED
        BY <4>1, MidwayTables DEF Untouched, MidwayCols, MidwaySource
    <3>4. TableIsMidway(e[t], 3 + 1, t, R)
      BY <2>3, <3>1, <3>2, <3>3, MidwayKept DEF TableCreated
    <3> QED
      BY <3>4
  <2>7. /\ MidwayCols(4, "workflows_new") = {"project_name", "timeout_minutes"}
        /\ MidwaySource(4, "workflows_new") = ""
    BY DEF MidwayCols, MidwaySource
  <2>8. TableIsMidway(e["workflows_new"], 4, "workflows_new", R)
    BY <2>3, <2>7 DEF TableIsMidway, Safe, TableCreated
  <2> QED
    <3>1. \A t \in DOMAIN e : TableIsMidway(e[t], 4, t, R)
      BY <2>6, <2>8
    <3>2. IsDatabase(e) /\ ~Fails(s, d)
      BY <2>3 DEF TableCreated
    <3> QED
      BY <1>5, <2>5, <3>1, <3>2 DEF IsMidway
<1>6. CASE k = 4
  <2>1. "workflows" \in DOMAIN d /\ "workflows_new" \in DOMAIN d
    BY <1>1, <1>6, MidwayTables
  <2>2. /\ TableIsMidway(d["workflows_new"], 4, "workflows_new", R)
        /\ TableIsMidway(d["workflows"], 4, "workflows", R)
    BY <1>1, <1>6, <2>1
  <2>3. /\ MidwayCols(4, "workflows_new") = {"project_name", "timeout_minutes"} /\ MidwaySource(4, "workflows_new") = ""
        /\ MidwayCols(4, "workflows") = {"watch_name", "timeout_minutes"} /\ MidwaySource(4, "workflows") = "workflows"
    BY DEF MidwayCols, MidwaySource
  <2>4. /\ {"watch_name", "timeout_minutes"} \subseteq d["workflows"].cols
        /\ d["workflows_new"].rows = {}
    BY <2>2, <2>3 DEF TableIsMidway
  <2>5. s = Insert("workflows_new", {"watch_name", "timeout_minutes"}, "workflows")
    BY <1>6 DEF ProjectsFile
  <2>6. ~Fails(s, d) /\ RowsInserted(d, e, "workflows_new", "workflows")
    BY <1>1, <2>1, <2>4, <2>5, InsertDoes
  <2>7. DOMAIN e = DOMAIN d
    BY <2>6 DEF RowsInserted
  <2>8. DOMAIN e = Midway(5)
    BY <1>1, <1>6, <2>7, MidwayTables
  <2>9. ASSUME NEW t \in DOMAIN e \ {"workflows_new"} PROVE TableIsMidway(e[t], 5, t, R)
    <3>1. t \in DOMAIN d
      BY <2>7
    <3>2. TableIsMidway(d[t], 4, t, R)
      BY <1>1, <1>6, <3>1
    <3>3. Untouched(4, t)
      <4>1. t \in Midway(4) \ {"workflows_new"}
        BY <1>1, <1>6, <2>7
      <4> QED
        BY <4>1, MidwayTables DEF Untouched, MidwayCols, MidwaySource
    <3>4. TableIsMidway(e[t], 4 + 1, t, R)
      BY <2>6, <3>1, <3>2, <3>3, MidwayKept DEF RowsInserted
    <3> QED
      BY <3>4
  <2>10. /\ MidwayCols(5, "workflows_new") = {"project_name", "timeout_minutes"}
         /\ MidwaySource(5, "workflows_new") = "workflows"
    BY DEF MidwayCols, MidwaySource
  <2>11. TableIsMidway(e["workflows_new"], 5, "workflows_new", R)
    BY <2>6, <2>2, <2>3, <2>10 DEF TableIsMidway, Safe, RowsInserted
  <2> QED
    <3>1. \A t \in DOMAIN e : TableIsMidway(e[t], 5, t, R)
      BY <2>9, <2>11
    <3>2. IsDatabase(e) /\ ~Fails(s, d)
      BY <2>6 DEF RowsInserted
    <3> QED
      BY <1>6, <2>8, <3>1, <3>2 DEF IsMidway
<1>7. CASE k = 5
  <2>1. "workflows" \in DOMAIN d
    BY <1>1, <1>7, MidwayTables
  <2>2. s = Drop("workflows")
    BY <1>7 DEF ProjectsFile
  <2>3. ~Fails(s, d) /\ TableDropped(d, e, "workflows")
    BY <1>1, <2>1, <2>2, DropDoes
  <2>4. DOMAIN e = DOMAIN d \ {"workflows"}
    BY <2>3 DEF TableDropped
  <2>5. DOMAIN e = Midway(6)
    BY <1>1, <1>7, <2>4, MidwayTables
  <2>6. ASSUME NEW t \in DOMAIN e PROVE TableIsMidway(e[t], 6, t, R)
    <3>1. t \in DOMAIN d
      BY <2>4
    <3>2. TableIsMidway(d[t], 5, t, R)
      BY <1>1, <1>7, <3>1
    <3>3. Untouched(5, t)
      <4>1. t \in Midway(5) \ {"workflows"}
        BY <1>1, <1>7, <2>4
      <4> QED
        BY <4>1, MidwayTables DEF Untouched, MidwayCols, MidwaySource
    <3>4. MidwaySource(5, t) # ""
      BY <1>1, <1>7, <3>1, MidwayTables DEF MidwaySource
    <3>5. /\ e[t].cols = d[t].cols
          /\ e[t].ref = d[t].ref
          /\ (t \in Safe \/ ~fk => e[t].rows = d[t].rows)
      BY <2>3, <2>4, <3>1, <3>2 DEF TableIsMidway, TableDropped
    <3>6. TableIsMidway(e[t], 5 + 1, t, R)
      BY <3>2, <3>3, <3>4, <3>5, MidwayKept
    <3> QED
      BY <3>6
  <2> QED
    <3>1. \A t \in DOMAIN e : TableIsMidway(e[t], 6, t, R)
      BY <2>6
    <3>2. IsDatabase(e) /\ ~Fails(s, d)
      BY <2>3 DEF TableDropped
    <3> QED
      BY <1>7, <2>5, <3>1, <3>2 DEF IsMidway
<1>8. CASE k = 6
  <2>1. "workflows_new" \in DOMAIN d /\ "workflows" \notin DOMAIN d
    BY <1>1, <1>8, MidwayTables
  <2>2. TableIsMidway(d["workflows_new"], 6, "workflows_new", R)
    BY <1>1, <1>8, <2>1
  <2>3. /\ MidwayCols(6, "workflows_new") = {"project_name", "timeout_minutes"}
        /\ MidwaySource(6, "workflows_new") = "workflows"
    BY DEF MidwayCols, MidwaySource
  <2>4. s = Rename("workflows_new", "workflows")
    BY <1>8 DEF ProjectsFile
  <2>5. ~Fails(s, d) /\ TableRenamed(d, e, "workflows_new", "workflows")
    BY <1>1, <2>1, <2>4, RenameDoes
  <2>6. DOMAIN e = (DOMAIN d \ {"workflows_new"}) \cup {"workflows"}
    BY <2>5 DEF TableRenamed
  <2>7. DOMAIN e = Midway(7)
    BY <1>1, <1>8, <2>6, MidwayTables
  <2>8. ASSUME NEW t \in DOMAIN e \ {"workflows"} PROVE TableIsMidway(e[t], 7, t, R)
    <3>1. t \in DOMAIN d
      BY <2>6
    <3>2. TableIsMidway(d[t], 6, t, R)
      BY <1>1, <1>8, <3>1
    <3>3. Untouched(6, t)
      <4>1. t \in Midway(6) \ {"workflows_new"}
        BY <1>1, <1>8, <2>6
      <4> QED
        BY <4>1, MidwayTables DEF Untouched, MidwayCols, MidwaySource
    <3>4. e[t].cols = d[t].cols /\ e[t].rows = d[t].rows /\ (t \in Safe => e[t].ref = d[t].ref)
      BY <2>5, <3>1, <3>2 DEF TableIsMidway, TableRenamed
    <3>5. TableIsMidway(e[t], 6 + 1, t, R)
      BY <3>2, <3>3, <3>4, MidwayKept
    <3> QED
      BY <3>5
  <2>9. /\ MidwayCols(7, "workflows") = {"project_name", "timeout_minutes"}
        /\ MidwaySource(7, "workflows") = "workflows"
    BY DEF MidwayCols, MidwaySource
  <2>10. TableIsMidway(e["workflows"], 7, "workflows", R)
    BY <2>5, <2>2, <2>3, <2>9 DEF TableIsMidway, Safe, TableRenamed
  <2> QED
    <3>1. \A t \in DOMAIN e : TableIsMidway(e[t], 7, t, R)
      BY <2>8, <2>10
    <3>2. IsDatabase(e) /\ ~Fails(s, d)
      BY <2>5 DEF TableRenamed
    <3> QED
      BY <1>8, <2>7, <3>1, <3>2 DEF IsMidway
<1>9. CASE k = 7
  <2>1. "runs_new" \notin DOMAIN d
    BY <1>1, <1>9, MidwayTables
  <2>2. s.kind = "create" /\ s.table = "runs_new" /\ s.cols = {"project_name"} /\ s.ref = ""
    BY <1>9 DEF ProjectsFile, Create
  <2>3. ~Fails(s, d) /\ TableCreated(d, e, "runs_new", {"project_name"}, "")
    BY <1>1, <2>1, <2>2, CreateDoes
  <2>4. DOMAIN e = DOMAIN d \cup {"runs_new"}
    BY <2>3 DEF TableCreated
  <2>5. DOMAIN e = Midway(8)
    BY <1>1, <1>9, <2>4, MidwayTables
  <2>6. ASSUME NEW t \in DOMAIN e \ {"runs_new"} PROVE TableIsMidway(e[t], 8, t, R)
    <3>1. t \in DOMAIN d
      BY <2>4
    <3>2. TableIsMidway(d[t], 7, t, R)
      BY <1>1, <1>9, <3>1
    <3>3. Untouched(7, t)
      <4>1. t \in Midway(7)
        BY <1>1, <1>9, <2>4
      <4> QED
        BY <4>1, MidwayTables DEF Untouched, MidwayCols, MidwaySource
    <3>4. TableIsMidway(e[t], 7 + 1, t, R)
      BY <2>3, <3>1, <3>2, <3>3, MidwayKept DEF TableCreated
    <3> QED
      BY <3>4
  <2>7. MidwayCols(8, "runs_new") = {"project_name"} /\ MidwaySource(8, "runs_new") = ""
    BY DEF MidwayCols, MidwaySource
  <2>8. TableIsMidway(e["runs_new"], 8, "runs_new", R)
    BY <2>3, <2>7 DEF TableIsMidway, Safe, TableCreated
  <2> QED
    <3>1. \A t \in DOMAIN e : TableIsMidway(e[t], 8, t, R)
      BY <2>6, <2>8
    <3>2. IsDatabase(e) /\ ~Fails(s, d)
      BY <2>3 DEF TableCreated
    <3> QED
      BY <1>9, <2>5, <3>1, <3>2 DEF IsMidway
<1>10. CASE k = 8
  <2>1. "runs" \in DOMAIN d /\ "runs_new" \in DOMAIN d
    BY <1>1, <1>10, MidwayTables
  <2>2. TableIsMidway(d["runs_new"], 8, "runs_new", R) /\ TableIsMidway(d["runs"], 8, "runs", R)
    BY <1>1, <1>10, <2>1
  <2>3. /\ MidwayCols(8, "runs_new") = {"project_name"} /\ MidwaySource(8, "runs_new") = ""
        /\ MidwayCols(8, "runs") = {"watch_name"} /\ MidwaySource(8, "runs") = "runs"
    BY DEF MidwayCols, MidwaySource
  <2>4. {"watch_name"} \subseteq d["runs"].cols /\ d["runs_new"].rows = {}
    BY <2>2, <2>3 DEF TableIsMidway
  <2>5. s = Insert("runs_new", {"watch_name"}, "runs")
    BY <1>10 DEF ProjectsFile
  <2>6. ~Fails(s, d) /\ RowsInserted(d, e, "runs_new", "runs")
    BY <1>1, <2>1, <2>4, <2>5, InsertDoes
  <2>7. DOMAIN e = DOMAIN d
    BY <2>6 DEF RowsInserted
  <2>8. DOMAIN e = Midway(9)
    BY <1>1, <1>10, <2>7, MidwayTables
  <2>9. ASSUME NEW t \in DOMAIN e \ {"runs_new"} PROVE TableIsMidway(e[t], 9, t, R)
    <3>1. t \in DOMAIN d
      BY <2>7
    <3>2. TableIsMidway(d[t], 8, t, R)
      BY <1>1, <1>10, <3>1
    <3>3. Untouched(8, t)
      <4>1. t \in Midway(8) \ {"runs_new"}
        BY <1>1, <1>10, <2>7
      <4> QED
        BY <4>1, MidwayTables DEF Untouched, MidwayCols, MidwaySource
    <3>4. TableIsMidway(e[t], 8 + 1, t, R)
      BY <2>6, <3>1, <3>2, <3>3, MidwayKept DEF RowsInserted
    <3> QED
      BY <3>4
  <2>10. MidwayCols(9, "runs_new") = {"project_name"} /\ MidwaySource(9, "runs_new") = "runs"
    BY DEF MidwayCols, MidwaySource
  <2>11. TableIsMidway(e["runs_new"], 9, "runs_new", R)
    BY <2>6, <2>2, <2>3, <2>10 DEF TableIsMidway, Safe, RowsInserted
  <2> QED
    <3>1. \A t \in DOMAIN e : TableIsMidway(e[t], 9, t, R)
      BY <2>9, <2>11
    <3>2. IsDatabase(e) /\ ~Fails(s, d)
      BY <2>6 DEF RowsInserted
    <3> QED
      BY <1>10, <2>8, <3>1, <3>2 DEF IsMidway
<1>11. CASE k = 9
  <2>1. "runs" \in DOMAIN d
    BY <1>1, <1>11, MidwayTables
  <2>2. s = Drop("runs")
    BY <1>11 DEF ProjectsFile
  <2>3. ~Fails(s, d) /\ TableDropped(d, e, "runs")
    BY <1>1, <2>1, <2>2, DropDoes
  <2>4. DOMAIN e = DOMAIN d \ {"runs"}
    BY <2>3 DEF TableDropped
  <2>5. DOMAIN e = Midway(10)
    BY <1>1, <1>11, <2>4, MidwayTables
  <2>6. ASSUME NEW t \in DOMAIN e PROVE TableIsMidway(e[t], 10, t, R)
    <3>1. t \in DOMAIN d
      BY <2>4
    <3>2. TableIsMidway(d[t], 9, t, R)
      BY <1>1, <1>11, <3>1
    <3>3. Untouched(9, t)
      <4>1. t \in Midway(9) \ {"runs"}
        BY <1>1, <1>11, <2>4
      <4> QED
        BY <4>1, MidwayTables DEF Untouched, MidwayCols, MidwaySource
    <3>4. MidwaySource(9, t) # ""
      BY <1>1, <1>11, <3>1, MidwayTables DEF MidwaySource
    <3>5. /\ e[t].cols = d[t].cols
          /\ e[t].ref = d[t].ref
          /\ (t \in Safe \/ ~fk => e[t].rows = d[t].rows)
      BY <2>3, <2>4, <3>1, <3>2 DEF TableIsMidway, TableDropped
    <3>6. TableIsMidway(e[t], 9 + 1, t, R)
      BY <3>2, <3>3, <3>4, <3>5, MidwayKept
    <3> QED
      BY <3>6
  <2> QED
    <3>1. \A t \in DOMAIN e : TableIsMidway(e[t], 10, t, R)
      BY <2>6
    <3>2. IsDatabase(e) /\ ~Fails(s, d)
      BY <2>3 DEF TableDropped
    <3> QED
      BY <1>11, <2>5, <3>1, <3>2 DEF IsMidway
<1>12. CASE k = 10
  <2>1. "runs_new" \in DOMAIN d /\ "runs" \notin DOMAIN d
    BY <1>1, <1>12, MidwayTables
  <2>2. TableIsMidway(d["runs_new"], 10, "runs_new", R)
    BY <1>1, <1>12, <2>1
  <2>3. MidwayCols(10, "runs_new") = {"project_name"} /\ MidwaySource(10, "runs_new") = "runs"
    BY DEF MidwayCols, MidwaySource
  <2>4. s = Rename("runs_new", "runs")
    BY <1>12 DEF ProjectsFile
  <2>5. ~Fails(s, d) /\ TableRenamed(d, e, "runs_new", "runs")
    BY <1>1, <2>1, <2>4, RenameDoes
  <2>6. DOMAIN e = (DOMAIN d \ {"runs_new"}) \cup {"runs"}
    BY <2>5 DEF TableRenamed
  <2>7. DOMAIN e = Midway(11)
    BY <1>1, <1>12, <2>6, MidwayTables
  <2>8. ASSUME NEW t \in DOMAIN e \ {"runs"} PROVE TableIsMidway(e[t], 11, t, R)
    <3>1. t \in DOMAIN d
      BY <2>6
    <3>2. TableIsMidway(d[t], 10, t, R)
      BY <1>1, <1>12, <3>1
    <3>3. Untouched(10, t)
      <4>1. t \in Midway(10) \ {"runs_new"}
        BY <1>1, <1>12, <2>6
      <4> QED
        BY <4>1, MidwayTables DEF Untouched, MidwayCols, MidwaySource
    <3>4. e[t].cols = d[t].cols /\ e[t].rows = d[t].rows /\ (t \in Safe => e[t].ref = d[t].ref)
      BY <2>5, <3>1, <3>2 DEF TableIsMidway, TableRenamed
    <3>5. TableIsMidway(e[t], 10 + 1, t, R)
      BY <3>2, <3>3, <3>4, MidwayKept
    <3> QED
      BY <3>5
  <2>9. MidwayCols(11, "runs") = {"project_name"} /\ MidwaySource(11, "runs") = "runs"
    BY DEF MidwayCols, MidwaySource
  <2>10. TableIsMidway(e["runs"], 11, "runs", R)
    BY <2>5, <2>2, <2>3, <2>9 DEF TableIsMidway, Safe, TableRenamed
  <2> QED
    <3>1. \A t \in DOMAIN e : TableIsMidway(e[t], 11, t, R)
      BY <2>8, <2>10
    <3>2. IsDatabase(e) /\ ~Fails(s, d)
      BY <2>5 DEF TableRenamed
    <3> QED
      BY <1>12, <2>7, <3>1, <3>2 DEF IsMidway
<1>13. CASE k = 11
  <2>1. "project_triggers" \notin DOMAIN d
    BY <1>1, <1>13, MidwayTables
  <2>2. s.kind = "create" /\ s.table = "project_triggers" /\ s.cols = {} /\ s.ref = "projects"
    BY <1>13 DEF ProjectsFile, Create
  <2>3. ~Fails(s, d) /\ TableCreated(d, e, "project_triggers", {}, "projects")
    BY <1>1, <2>1, <2>2, CreateDoes
  <2>4. DOMAIN e = DOMAIN d \cup {"project_triggers"}
    BY <2>3 DEF TableCreated
  <2>5. DOMAIN e = Midway(12)
    BY <1>1, <1>13, <2>4, MidwayTables
  <2>6. ASSUME NEW t \in DOMAIN e \ {"project_triggers"} PROVE TableIsMidway(e[t], 12, t, R)
    <3>1. t \in DOMAIN d
      BY <2>4
    <3>2. TableIsMidway(d[t], 11, t, R)
      BY <1>1, <1>13, <3>1
    <3>3. Untouched(11, t)
      <4>1. t \in Midway(11)
        BY <1>1, <1>13, <2>4
      <4> QED
        BY <4>1, MidwayTables DEF Untouched, MidwayCols, MidwaySource
    <3>4. TableIsMidway(e[t], 11 + 1, t, R)
      BY <2>3, <3>1, <3>2, <3>3, MidwayKept DEF TableCreated
    <3> QED
      BY <3>4
  <2>7. MidwayCols(12, "project_triggers") = {} /\ MidwaySource(12, "project_triggers") = ""
    BY DEF MidwayCols, MidwaySource
  <2>8. TableIsMidway(e["project_triggers"], 12, "project_triggers", R)
    BY <2>3, <2>7 DEF TableIsMidway, Safe, TableCreated
  <2> QED
    <3>1. \A t \in DOMAIN e : TableIsMidway(e[t], 12, t, R)
      BY <2>6, <2>8
    <3>2. IsDatabase(e) /\ ~Fails(s, d)
      BY <2>3 DEF TableCreated
    <3> QED
      BY <1>13, <2>5, <3>1, <3>2 DEF IsMidway
<1>14. CASE k = 12
  <2>1. "projects" \in DOMAIN d /\ "project_triggers" \in DOMAIN d
    BY <1>1, <1>14, MidwayTables
  <2>2. /\ TableIsMidway(d["project_triggers"], 12, "project_triggers", R)
        /\ TableIsMidway(d["projects"], 12, "projects", R)
    BY <1>1, <1>14, <2>1
  <2>3. /\ MidwayCols(12, "project_triggers") = {} /\ MidwaySource(12, "project_triggers") = ""
        /\ MidwayCols(12, "projects") = {"repo", "description"} /\ MidwaySource(12, "projects") = "watches"
    BY DEF MidwayCols, MidwaySource
  <2>4. {"repo"} \subseteq d["projects"].cols /\ d["project_triggers"].rows = {}
    BY <2>2, <2>3 DEF TableIsMidway
  <2>5. s = Insert("project_triggers", {"repo"}, "projects")
    BY <1>14 DEF ProjectsFile
  <2>6. ~Fails(s, d) /\ RowsInserted(d, e, "project_triggers", "projects")
    BY <1>1, <2>1, <2>4, <2>5, InsertDoes
  <2>7. DOMAIN e = DOMAIN d
    BY <2>6 DEF RowsInserted
  <2>8. DOMAIN e = Midway(13)
    BY <1>1, <1>14, <2>7, MidwayTables
  <2>9. ASSUME NEW t \in DOMAIN e \ {"project_triggers"} PROVE TableIsMidway(e[t], 13, t, R)
    <3>1. t \in DOMAIN d
      BY <2>7
    <3>2. TableIsMidway(d[t], 12, t, R)
      BY <1>1, <1>14, <3>1
    <3>3. Untouched(12, t)
      <4>1. t \in Midway(12) \ {"project_triggers"}
        BY <1>1, <1>14, <2>7
      <4> QED
        BY <4>1, MidwayTables DEF Untouched, MidwayCols, MidwaySource
    <3>4. TableIsMidway(e[t], 12 + 1, t, R)
      BY <2>6, <3>1, <3>2, <3>3, MidwayKept DEF RowsInserted
    <3> QED
      BY <3>4
  <2>10. MidwayCols(13, "project_triggers") = {} /\ MidwaySource(13, "project_triggers") = "watches"
    BY DEF MidwayCols, MidwaySource
  <2>11. TableIsMidway(e["project_triggers"], 13, "project_triggers", R)
    BY <2>6, <2>2, <2>3, <2>10 DEF TableIsMidway, Safe, RowsInserted
  <2> QED
    <3>1. \A t \in DOMAIN e : TableIsMidway(e[t], 13, t, R)
      BY <2>9, <2>11
    <3>2. IsDatabase(e) /\ ~Fails(s, d)
      BY <2>6 DEF RowsInserted
    <3> QED
      BY <1>14, <2>8, <3>1, <3>2 DEF IsMidway
<1>15. CASE k = 13
  <2>1. "projects_new" \notin DOMAIN d
    BY <1>1, <1>15, MidwayTables
  <2>2. s.kind = "create" /\ s.table = "projects_new" /\ s.cols = {"description"} /\ s.ref = ""
    BY <1>15 DEF ProjectsFile, Create
  <2>3. ~Fails(s, d) /\ TableCreated(d, e, "projects_new", {"description"}, "")
    BY <1>1, <2>1, <2>2, CreateDoes
  <2>4. DOMAIN e = DOMAIN d \cup {"projects_new"}
    BY <2>3 DEF TableCreated
  <2>5. DOMAIN e = Midway(14)
    BY <1>1, <1>15, <2>4, MidwayTables
  <2>6. ASSUME NEW t \in DOMAIN e \ {"projects_new"} PROVE TableIsMidway(e[t], 14, t, R)
    <3>1. t \in DOMAIN d
      BY <2>4
    <3>2. TableIsMidway(d[t], 13, t, R)
      BY <1>1, <1>15, <3>1
    <3>3. Untouched(13, t)
      <4>1. t \in Midway(13)
        BY <1>1, <1>15, <2>4
      <4> QED
        BY <4>1, MidwayTables DEF Untouched, MidwayCols, MidwaySource
    <3>4. TableIsMidway(e[t], 13 + 1, t, R)
      BY <2>3, <3>1, <3>2, <3>3, MidwayKept DEF TableCreated
    <3> QED
      BY <3>4
  <2>7. MidwayCols(14, "projects_new") = {"description"} /\ MidwaySource(14, "projects_new") = ""
    BY DEF MidwayCols, MidwaySource
  <2>8. TableIsMidway(e["projects_new"], 14, "projects_new", R)
    BY <2>3, <2>7 DEF TableIsMidway, Safe, TableCreated
  <2> QED
    <3>1. \A t \in DOMAIN e : TableIsMidway(e[t], 14, t, R)
      BY <2>6, <2>8
    <3>2. IsDatabase(e) /\ ~Fails(s, d)
      BY <2>3 DEF TableCreated
    <3> QED
      BY <1>15, <2>5, <3>1, <3>2 DEF IsMidway
<1>16. CASE k = 14
  <2>1. "projects" \in DOMAIN d /\ "projects_new" \in DOMAIN d
    BY <1>1, <1>16, MidwayTables
  <2>2. /\ TableIsMidway(d["projects_new"], 14, "projects_new", R)
        /\ TableIsMidway(d["projects"], 14, "projects", R)
    BY <1>1, <1>16, <2>1
  <2>3. /\ MidwayCols(14, "projects_new") = {"description"} /\ MidwaySource(14, "projects_new") = ""
        /\ MidwayCols(14, "projects") = {"repo", "description"} /\ MidwaySource(14, "projects") = "watches"
    BY DEF MidwayCols, MidwaySource
  <2>4. {"description"} \subseteq d["projects"].cols /\ d["projects_new"].rows = {}
    BY <2>2, <2>3 DEF TableIsMidway
  <2>5. s = Insert("projects_new", {"description"}, "projects")
    BY <1>16 DEF ProjectsFile
  <2>6. ~Fails(s, d) /\ RowsInserted(d, e, "projects_new", "projects")
    BY <1>1, <2>1, <2>4, <2>5, InsertDoes
  <2>7. DOMAIN e = DOMAIN d
    BY <2>6 DEF RowsInserted
  <2>8. DOMAIN e = Midway(15)
    BY <1>1, <1>16, <2>7, MidwayTables
  <2>9. ASSUME NEW t \in DOMAIN e \ {"projects_new"} PROVE TableIsMidway(e[t], 15, t, R)
    <3>1. t \in DOMAIN d
      BY <2>7
    <3>2. TableIsMidway(d[t], 14, t, R)
      BY <1>1, <1>16, <3>1
    <3>3. Untouched(14, t)
      <4>1. t \in Midway(14) \ {"projects_new"}
        BY <1>1, <1>16, <2>7
      <4> QED
        BY <4>1, MidwayTables DEF Untouched, MidwayCols, MidwaySource
    <3>4. TableIsMidway(e[t], 14 + 1, t, R)
      BY <2>6, <3>1, <3>2, <3>3, MidwayKept DEF RowsInserted
    <3> QED
      BY <3>4
  <2>10. /\ MidwayCols(15, "projects_new") = {"description"}
         /\ MidwaySource(15, "projects_new") = "watches"
    BY DEF MidwayCols, MidwaySource
  <2>11. TableIsMidway(e["projects_new"], 15, "projects_new", R)
    BY <2>6, <2>2, <2>3, <2>10 DEF TableIsMidway, Safe, RowsInserted
  <2> QED
    <3>1. \A t \in DOMAIN e : TableIsMidway(e[t], 15, t, R)
      BY <2>9, <2>11
    <3>2. IsDatabase(e) /\ ~Fails(s, d)
      BY <2>6 DEF RowsInserted
    <3> QED
      BY <1>16, <2>8, <3>1, <3>2 DEF IsMidway
<1>17. CASE k = 15
  <2>1. "projects" \in DOMAIN d
    BY <1>1, <1>17, MidwayTables
  <2>2. s = Drop("projects")
    BY <1>17 DEF ProjectsFile
  <2>3. ~Fails(s, d) /\ TableDropped(d, e, "projects")
    BY <1>1, <2>1, <2>2, DropDoes
  <2>4. DOMAIN e = DOMAIN d \ {"projects"}
    BY <2>3 DEF TableDropped
  <2>5. DOMAIN e = Midway(16)
    BY <1>1, <1>17, <2>4, MidwayTables
  <2>6. ASSUME NEW t \in DOMAIN e PROVE TableIsMidway(e[t], 16, t, R)
    <3>1. t \in DOMAIN d
      BY <2>4
    <3>2. TableIsMidway(d[t], 15, t, R)
      BY <1>1, <1>17, <3>1
    <3>3. Untouched(15, t)
      <4>1. t \in Midway(15) \ {"projects"}
        BY <1>1, <1>17, <2>4
      <4> QED
        BY <4>1, MidwayTables DEF Untouched, MidwayCols, MidwaySource
    <3>4. MidwaySource(15, t) # ""
      BY <1>1, <1>17, <3>1, MidwayTables DEF MidwaySource
    <3>5. /\ e[t].cols = d[t].cols
          /\ e[t].ref = d[t].ref
          /\ (t \in Safe \/ ~fk => e[t].rows = d[t].rows)
      BY <2>3, <2>4, <3>1, <3>2 DEF TableIsMidway, TableDropped
    <3>6. TableIsMidway(e[t], 15 + 1, t, R)
      BY <3>2, <3>3, <3>4, <3>5, MidwayKept
    <3> QED
      BY <3>6
  <2> QED
    <3>1. \A t \in DOMAIN e : TableIsMidway(e[t], 16, t, R)
      BY <2>6
    <3>2. IsDatabase(e) /\ ~Fails(s, d)
      BY <2>3 DEF TableDropped
    <3> QED
      BY <1>17, <2>5, <3>1, <3>2 DEF IsMidway
<1>18. CASE k = 16
  <2>1. "projects_new" \in DOMAIN d /\ "projects" \notin DOMAIN d
    BY <1>1, <1>18, MidwayTables
  <2>2. TableIsMidway(d["projects_new"], 16, "projects_new", R)
    BY <1>1, <1>18, <2>1
  <2>3. /\ MidwayCols(16, "projects_new") = {"description"}
        /\ MidwaySource(16, "projects_new") = "watches"
    BY DEF MidwayCols, MidwaySource
  <2>4. s = Rename("projects_new", "projects")
    BY <1>18 DEF ProjectsFile
  <2>5. ~Fails(s, d) /\ TableRenamed(d, e, "projects_new", "projects")
    BY <1>1, <2>1, <2>4, RenameDoes
  <2>6. DOMAIN e = (DOMAIN d \ {"projects_new"}) \cup {"projects"}
    BY <2>5 DEF TableRenamed
  <2>7. DOMAIN e = Midway(17)
    BY <1>1, <1>18, <2>6, MidwayTables
  <2>8. ASSUME NEW t \in DOMAIN e \ {"projects"} PROVE TableIsMidway(e[t], 17, t, R)
    <3>1. t \in DOMAIN d
      BY <2>6
    <3>2. TableIsMidway(d[t], 16, t, R)
      BY <1>1, <1>18, <3>1
    <3>3. Untouched(16, t)
      <4>1. t \in Midway(16) \ {"projects_new"}
        BY <1>1, <1>18, <2>6
      <4> QED
        BY <4>1, MidwayTables DEF Untouched, MidwayCols, MidwaySource
    <3>4. e[t].cols = d[t].cols /\ e[t].rows = d[t].rows /\ (t \in Safe => e[t].ref = d[t].ref)
      BY <2>5, <3>1, <3>2 DEF TableIsMidway, TableRenamed
    <3>5. TableIsMidway(e[t], 16 + 1, t, R)
      BY <3>2, <3>3, <3>4, MidwayKept
    <3> QED
      BY <3>5
  <2>9. MidwayCols(17, "projects") = {"description"} /\ MidwaySource(17, "projects") = "watches"
    BY DEF MidwayCols, MidwaySource
  <2>10. TableIsMidway(e["projects"], 17, "projects", R)
    BY <2>5, <2>2, <2>3, <2>9 DEF TableIsMidway, Safe, TableRenamed
  <2> QED
    <3>1. \A t \in DOMAIN e : TableIsMidway(e[t], 17, t, R)
      BY <2>8, <2>10
    <3>2. IsDatabase(e) /\ ~Fails(s, d)
      BY <2>5 DEF TableRenamed
    <3> QED
      BY <1>18, <2>7, <3>1, <3>2 DEF IsMidway
<1> QED
  BY <1>3, <1>4, <1>5, <1>6, <1>7, <1>8, <1>9, <1>10, <1>11, <1>12, <1>13, <1>14, <1>15, <1>16,
     <1>17, <1>18

\* The file that makes a table of release 8.
Since(t) ==
  CASE t \in {"runs", "seen_commits"} -> 1
    [] t = "users"                    -> 2
    [] t = "sessions"                 -> 3
    [] t = "watches"                  -> 4
    [] t = "workflows"                -> 5
    [] t = "run_jobs"                 -> 6
    [] t = "run_artifacts"            -> 8
    [] OTHER                          -> 10

\* The tables the files up to m, at most 8, make.
OldTables(m) ==
  {t \in {"runs", "seen_commits", "users", "sessions", "watches", "workflows", "run_jobs",
          "run_artifacts"} : Since(t) <= m}

\* Their columns.
OldCols(m, t) ==
  CASE t = "runs"      -> {"watch_name"}
    [] t = "watches"   -> {"repo"}
    [] t = "workflows" -> IF m < 7 THEN {"watch_name"} ELSE {"watch_name", "timeout_minutes"}
    [] OTHER           -> {}

\* Table t, x, of release m with rows R.
TableIsOld(x, m, t, R) ==
  x.cols = OldCols(m, t) /\ (t \in Safe => x.ref \in {"", "users"}) /\ x.rows = R[t]

\* d has the tables of release m, and maybe some of the next, with rows R.
IsOld(d, m, R) ==
  /\ IsDatabase(d)
  /\ OldTables(m) \subseteq DOMAIN d /\ DOMAIN d \subseteq OldTables(m + 1)
  /\ \A t \in DOMAIN d : TableIsOld(d[t], m, t, R)

\* Files that only create tables, with IF NOT EXISTS.
Creating == {1, 2, 3, 4, 5, 6, 8}

\* The files, one by one.
LEMMA FilesAre ==
  /\ Len(Files) = 9
  /\ Files[1] = InitFile /\ Files[2] = UsersFile /\ Files[3] = SessionsFile
  /\ Files[4] = WatchesFile /\ Files[5] = WorkflowsFile /\ Files[6] = RunJobsFile
  /\ Files[7] = TimeoutFile /\ Files[8] = ArtifactsFile /\ Files[9] = ProjectsFile
BY DEF Files

\* Their lengths.
LEMMA FileLengths ==
  /\ Len(InitFile) = 2 /\ Len(ProjectsFile) = 16
  /\ Len(UsersFile) = 1 /\ Len(SessionsFile) = 1 /\ Len(WatchesFile) = 1
  /\ Len(WorkflowsFile) = 1 /\ Len(RunJobsFile) = 1 /\ Len(TimeoutFile) = 1
  /\ Len(ArtifactsFile) = 1
BY DEF InitFile, UsersFile, SessionsFile, WatchesFile, WorkflowsFile, RunJobsFile, TimeoutFile,
       ArtifactsFile, ProjectsFile

\* No file is empty.
LEMMA FilesHaveStatements ==
  ASSUME NEW f \in {1, 2, 3, 4, 5, 6, 7, 8, 9}
  PROVE  Len(Files[f]) \in {1, 2, 16}
<1>1. Len(Files[1]) = 2 /\ Len(Files[9]) = 16
  BY FilesAre, FileLengths
<1>2. Len(Files[2]) = 1 /\ Len(Files[3]) = 1 /\ Len(Files[4]) = 1 /\ Len(Files[5]) = 1
  BY FilesAre, FileLengths
<1>3. Len(Files[6]) = 1 /\ Len(Files[7]) = 1 /\ Len(Files[8]) = 1
  BY FilesAre, FileLengths
<1>4. CASE f \in {1, 9}
  BY <1>1, <1>4
<1>5. CASE f \in {2, 3, 4, 5}
  BY <1>2, <1>5
<1>6. CASE f \in {6, 7, 8}
  BY <1>3, <1>6
<1> QED
  BY <1>4, <1>5, <1>6

\* What statement s of file f, one of Creating, is.
IsCreating(s, f) ==
  /\ s.kind = "create" /\ s.quiet
  /\ s.table \in OldTables(f) \ OldTables(f - 1)
  /\ s.cols = OldCols(f - 1, s.table)
  /\ s.table \in Safe => s.ref \in {"", "users"}

\* A CREATE TABLE of file f.
LEMMA CreatingIs ==
  ASSUME NEW s, NEW f, NEW t, NEW cols, NEW ref, s = Create(t, cols, ref, TRUE),
         t \in OldTables(f), t \notin OldTables(f - 1), cols = OldCols(f - 1, t),
         t \in Safe => ref \in {"", "users"}
  PROVE  IsCreating(s, f)
<1>1. s.kind = "create" /\ s.quiet = TRUE /\ s.table = t /\ s.cols = cols /\ s.ref = ref
  BY DEF Create
<1> QED
  BY <1>1 DEF IsCreating

\* Each statement makes a table of the release.
LEMMA CreatingStatements ==
  ASSUME NEW f \in Creating, NEW j \in 1..Len(Files[f])
  PROVE  IsCreating(Files[f][j], f)
<1>1. CASE f = 1
  <2>1. j \in {1, 2}
    BY <1>1, FilesAre, FileLengths
  <2>2. /\ InitFile[1] = Create("runs", {"watch_name"}, "", TRUE)
        /\ InitFile[2] = Create("seen_commits", {}, "", TRUE)
    BY DEF InitFile
  <2>3. IsCreating(InitFile[1], 1)
    <3>1. "runs" \in OldTables(1) /\ "runs" \notin OldTables(1 - 1)
      BY DEF OldTables, Since
    <3>2. {"watch_name"} = OldCols(1 - 1, "runs")
      BY DEF OldCols
    <3>3. "runs" \in Safe => "" \in {"", "users"}
      BY DEF Safe
    <3> QED
      BY <2>2, <3>1, <3>2, <3>3, CreatingIs
  <2>4. IsCreating(InitFile[2], 1)
    <3>1. "seen_commits" \in OldTables(1) /\ "seen_commits" \notin OldTables(1 - 1)
      BY DEF OldTables, Since
    <3>2. {} = OldCols(1 - 1, "seen_commits")
      BY DEF OldCols
    <3>3. "seen_commits" \in Safe => "" \in {"", "users"}
      BY DEF Safe
    <3> QED
      BY <2>2, <3>1, <3>2, <3>3, CreatingIs
  <2> QED
    BY <1>1, <2>1, <2>3, <2>4, FilesAre DEF Create
<1>2. CASE f = 2
  <2>1. j = 1
    BY <1>2, FilesAre, FileLengths
  <2>2. UsersFile[1] = Create("users", {}, "", TRUE)
    BY DEF UsersFile
  <2>3. IsCreating(UsersFile[1], 2)
    <3>1. "users" \in OldTables(2) /\ "users" \notin OldTables(2 - 1)
      BY DEF OldTables, Since
    <3>2. {} = OldCols(2 - 1, "users")
      BY DEF OldCols
    <3>3. "users" \in Safe => "" \in {"", "users"}
      BY DEF Safe
    <3> QED
      BY <2>2, <3>1, <3>2, <3>3, CreatingIs
  <2> QED
    BY <1>2, <2>1, <2>3, FilesAre
<1>3. CASE f = 3
  <2>1. j = 1
    BY <1>3, FilesAre, FileLengths
  <2>2. SessionsFile[1] = Create("sessions", {}, "users", TRUE)
    BY DEF SessionsFile
  <2>3. IsCreating(SessionsFile[1], 3)
    <3>1. "sessions" \in OldTables(3) /\ "sessions" \notin OldTables(3 - 1)
      BY DEF OldTables, Since
    <3>2. {} = OldCols(3 - 1, "sessions")
      BY DEF OldCols
    <3>3. "sessions" \in Safe => "users" \in {"", "users"}
      BY DEF Safe
    <3> QED
      BY <2>2, <3>1, <3>2, <3>3, CreatingIs
  <2> QED
    BY <1>3, <2>1, <2>3, FilesAre
<1>4. CASE f = 4
  <2>1. j = 1
    BY <1>4, FilesAre, FileLengths
  <2>2. WatchesFile[1] = Create("watches", {"repo"}, "", TRUE)
    BY DEF WatchesFile
  <2>3. IsCreating(WatchesFile[1], 4)
    <3>1. "watches" \in OldTables(4) /\ "watches" \notin OldTables(4 - 1)
      BY DEF OldTables, Since
    <3>2. {"repo"} = OldCols(4 - 1, "watches")
      BY DEF OldCols
    <3>3. "watches" \in Safe => "" \in {"", "users"}
      BY DEF Safe
    <3> QED
      BY <2>2, <3>1, <3>2, <3>3, CreatingIs
  <2> QED
    BY <1>4, <2>1, <2>3, FilesAre
<1>5. CASE f = 5
  <2>1. j = 1
    BY <1>5, FilesAre, FileLengths
  <2>2. WorkflowsFile[1] = Create("workflows", {"watch_name"}, "watches", TRUE)
    BY DEF WorkflowsFile
  <2>3. IsCreating(WorkflowsFile[1], 5)
    <3>1. "workflows" \in OldTables(5) /\ "workflows" \notin OldTables(5 - 1)
      BY DEF OldTables, Since
    <3>2. {"watch_name"} = OldCols(5 - 1, "workflows")
      BY DEF OldCols
    <3>3. "workflows" \in Safe => "watches" \in {"", "users"}
      BY DEF Safe
    <3> QED
      BY <2>2, <3>1, <3>2, <3>3, CreatingIs
  <2> QED
    BY <1>5, <2>1, <2>3, FilesAre
<1>6. CASE f = 6
  <2>1. j = 1
    BY <1>6, FilesAre, FileLengths
  <2>2. RunJobsFile[1] = Create("run_jobs", {}, "runs", TRUE)
    BY DEF RunJobsFile
  <2>3. IsCreating(RunJobsFile[1], 6)
    <3>1. "run_jobs" \in OldTables(6) /\ "run_jobs" \notin OldTables(6 - 1)
      BY DEF OldTables, Since
    <3>2. {} = OldCols(6 - 1, "run_jobs")
      BY DEF OldCols
    <3>3. "run_jobs" \in Safe => "runs" \in {"", "users"}
      BY DEF Safe
    <3> QED
      BY <2>2, <3>1, <3>2, <3>3, CreatingIs
  <2> QED
    BY <1>6, <2>1, <2>3, FilesAre
<1>7. CASE f = 8
  <2>1. j = 1
    BY <1>7, FilesAre, FileLengths
  <2>2. ArtifactsFile[1] = Create("run_artifacts", {}, "runs", TRUE)
    BY DEF ArtifactsFile
  <2>3. IsCreating(ArtifactsFile[1], 8)
    <3>1. "run_artifacts" \in OldTables(8) /\ "run_artifacts" \notin OldTables(8 - 1)
      BY DEF OldTables, Since
    <3>2. {} = OldCols(8 - 1, "run_artifacts")
      BY DEF OldCols
    <3>3. "run_artifacts" \in Safe => "runs" \in {"", "users"}
      BY DEF Safe
    <3> QED
      BY <2>2, <3>1, <3>2, <3>3, CreatingIs
  <2> QED
    BY <1>7, <2>1, <2>3, FilesAre
<1> QED
  BY <1>1, <1>2, <1>3, <1>4, <1>5, <1>6, <1>7 DEF Creating

\* Together they make all tables of the release.
LEMMA CreatingIsComplete ==
  ASSUME NEW f \in Creating, NEW t \in OldTables(f) \ OldTables(f - 1)
  PROVE  \E j \in 1..Len(Files[f]) : Files[f][j].table = t
<1>1. CASE f = 1
  <2>1. InitFile[1].table = "runs" /\ InitFile[2].table = "seen_commits"
    BY DEF InitFile, Create
  <2>2. t \in {"runs", "seen_commits"}
    BY <1>1 DEF OldTables, Since
  <2> QED
    BY <1>1, <2>1, <2>2, FilesAre, FileLengths
<1>2. CASE f = 2
  <2>1. UsersFile[1].table = "users"
    BY DEF UsersFile, Create
  <2>2. t = "users"
    BY <1>2 DEF OldTables, Since
  <2> QED
    BY <1>2, <2>1, <2>2, FilesAre, FileLengths
<1>3. CASE f = 3
  <2>1. SessionsFile[1].table = "sessions"
    BY DEF SessionsFile, Create
  <2>2. t = "sessions"
    BY <1>3 DEF OldTables, Since
  <2> QED
    BY <1>3, <2>1, <2>2, FilesAre, FileLengths
<1>4. CASE f = 4
  <2>1. WatchesFile[1].table = "watches"
    BY DEF WatchesFile, Create
  <2>2. t = "watches"
    BY <1>4 DEF OldTables, Since
  <2> QED
    BY <1>4, <2>1, <2>2, FilesAre, FileLengths
<1>5. CASE f = 5
  <2>1. WorkflowsFile[1].table = "workflows"
    BY DEF WorkflowsFile, Create
  <2>2. t = "workflows"
    BY <1>5 DEF OldTables, Since
  <2> QED
    BY <1>5, <2>1, <2>2, FilesAre, FileLengths
<1>6. CASE f = 6
  <2>1. RunJobsFile[1].table = "run_jobs"
    BY DEF RunJobsFile, Create
  <2>2. t = "run_jobs"
    BY <1>6 DEF OldTables, Since
  <2> QED
    BY <1>6, <2>1, <2>2, FilesAre, FileLengths
<1>7. CASE f = 8
  <2>1. ArtifactsFile[1].table = "run_artifacts"
    BY DEF ArtifactsFile, Create
  <2>2. t = "run_artifacts"
    BY <1>7 DEF OldTables, Since
  <2> QED
    BY <1>7, <2>1, <2>2, FilesAre, FileLengths
<1> QED
  BY <1>1, <1>2, <1>3, <1>4, <1>5, <1>6, <1>7 DEF Creating

\* The tables of file f have no rows in R.
NewAreEmpty(R, f) == \A t \in OldTables(f) \ OldTables(f - 1) : R[t] = {}

\* A statement of such a file does not fail, on no matter which of its tables.
LEMMA OldStep ==
  ASSUME NEW d, NEW f \in Creating, NEW R, IsOld(d, f - 1, R),
         NewAreEmpty(R, f),
         NEW j \in 1..Len(Files[f]), NEW s, s = Files[f][j]
  PROVE  ~Fails(s, d) /\ IsOld(Exec(s, d), f - 1, R) /\ DOMAIN Exec(s, d) = DOMAIN d \cup {s.table}
<1>1. IsCreating(s, f)
  BY CreatingStatements
<1>2. IsDatabase(d)
  BY DEF IsOld
<1>3. CASE s.table \in DOMAIN d
  <2>1. ~Fails(s, d) /\ Exec(s, d) = d
    BY <1>1, <1>3 DEF Fails, Exec, IsCreating
  <2> QED
    BY <1>3, <2>1
<1>4. CASE s.table \notin DOMAIN d
  <2> DEFINE e == Exec(s, d)
             t == s.table
  <2>1. s.kind = "create" /\ t \in OldTables(f) /\ R[t] = {}
    BY <1>1 DEF IsCreating, NewAreEmpty
  <2> HIDE DEF e, t
  <2>2. ~Fails(s, d) /\ TableCreated(d, e, t, s.cols, s.ref)
    BY <1>2, <1>4, <2>1, CreateDoes DEF e, t
  <2>3. IsDatabase(e) /\ DOMAIN e = DOMAIN d \cup {t}
    BY <2>2 DEF TableCreated
  <2>4. TableIsOld(e[t], f - 1, t, R)
    BY <1>1, <2>1, <2>2 DEF TableCreated, TableIsOld, IsCreating, t
  <2>5. \A u \in DOMAIN d : TableIsOld(e[u], f - 1, u, R)
    BY <2>2 DEF TableCreated, IsOld
  <2>6. f - 1 + 1 = f
    BY DEF Creating
  <2>7. IsOld(e, f - 1, R)
    BY <2>1, <2>3, <2>4, <2>5, <2>6 DEF IsOld
  <2> QED
    BY <2>2, <2>3, <2>7 DEF e, t
<1> QED
  BY <1>3, <1>4

\* With all the tables of such a file the database is of its release.
LEMMA OldNext ==
  ASSUME NEW d, NEW f \in Creating, NEW R, IsOld(d, f - 1, R),
         \A j \in 1..Len(Files[f]) : Files[f][j].table \in DOMAIN d
  PROVE  IsOld(d, f, R)
<1>1. OldTables(f) \subseteq DOMAIN d
  BY CreatingIsComplete DEF IsOld
<1>2. f - 1 + 1 = f /\ OldTables(f) \subseteq OldTables(f + 1)
  BY DEF Creating, OldTables, Since
<1>3. \A t : OldCols(f, t) = OldCols(f - 1, t)
  BY DEF OldCols, Creating
<1> QED
  BY <1>1, <1>2, <1>3 DEF IsOld, TableIsOld

\* 007 adds its column to a database that has not got it.
LEMMA TimeoutStep ==
  ASSUME NEW d, NEW R, IsOld(d, 6, R), NEW s, s = TimeoutFile[1]
  PROVE  ~Fails(s, d) /\ IsOld(Exec(s, d), 7, R) /\ DOMAIN Exec(s, d) \subseteq OldTables(7)
<1> DEFINE e == Exec(s, d)
<1>1. s = AddColumn("workflows", "timeout_minutes")
  BY DEF TimeoutFile
<1>2. /\ IsDatabase(d)
      /\ "workflows" \in DOMAIN d
      /\ DOMAIN d \subseteq OldTables(7)
      /\ OldTables(6) \subseteq DOMAIN d
  BY DEF IsOld, OldTables, Since
<1>3. d["workflows"].cols = {"watch_name"} /\ d["workflows"].rows = R["workflows"]
  <2>1. TableIsOld(d["workflows"], 6, "workflows", R)
    BY <1>2 DEF IsOld
  <2>2. OldCols(6, "workflows") = {"watch_name"}
    BY DEF OldCols
  <2> QED
    BY <2>1, <2>2 DEF TableIsOld
<1>4. "timeout_minutes" \notin d["workflows"].cols
  BY <1>3
<1>5. ~Fails(s, d) /\ ColumnAdded(d, e, "workflows", "timeout_minutes")
  BY <1>1, <1>2, <1>4, AddColumnDoes
<1> HIDE DEF e
<1>6. IsDatabase(e) /\ DOMAIN e = DOMAIN d
  BY <1>5 DEF ColumnAdded
<1>7. OldTables(7) \subseteq OldTables(6) /\ OldTables(7) \subseteq OldTables(8)
  BY DEF OldTables, Since
<1>8. /\ e["workflows"].cols = {"watch_name", "timeout_minutes"}
      /\ e["workflows"].rows = R["workflows"]
  BY <1>3, <1>5 DEF ColumnAdded
<1>9. TableIsOld(e["workflows"], 7, "workflows", R)
  BY <1>8 DEF TableIsOld, OldCols, Safe
<1>10. ASSUME NEW t \in DOMAIN d \ {"workflows"} PROVE TableIsOld(e[t], 7, t, R)
  <2>1. e[t] = d[t] /\ TableIsOld(d[t], 6, t, R)
    BY <1>5 DEF ColumnAdded, IsOld
  <2>2. OldCols(7, t) = OldCols(6, t)
    BY DEF OldCols
  <2> QED
    BY <2>1, <2>2 DEF TableIsOld
<1>11. IsOld(e, 7, R)
  BY <1>2, <1>6, <1>7, <1>9, <1>10 DEF IsOld
<1> QED
  BY <1>2, <1>5, <1>6, <1>11 DEF e

\* Release 8 is where 009 begins.
LEMMA OldIsMidway ==
  ASSUME NEW d, NEW R, IsOld(d, 8, R)
  PROVE  IsMidway(d, 1, R)
<1>1. OldTables(8) = Midway(1) /\ OldTables(9) = Midway(1)
  BY MidwayTables DEF OldTables, Since
<1>2. DOMAIN d = Midway(1) /\ IsDatabase(d)
  BY <1>1 DEF IsOld
<1>3. ASSUME NEW t \in DOMAIN d PROVE TableIsMidway(d[t], 1, t, R)
  <2>1. TableIsOld(d[t], 8, t, R)
    BY DEF IsOld
  <2>2. OldCols(8, t) = MidwayCols(1, t) /\ MidwaySource(1, t) = t /\ t # ""
    <3>1. t \in {"seen_commits", "users", "sessions", "run_jobs", "run_artifacts", "workflows",
                "runs", "watches"}
      BY <1>2, MidwayTables
    <3>2. OldCols(8, t) = MidwayCols(1, t)
      BY <3>1 DEF OldCols, MidwayCols
    <3> QED
      BY <3>1, <3>2 DEF MidwaySource
  <2> QED
    BY <2>1, <2>2 DEF TableIsOld, TableIsMidway
<1> QED
  BY <1>2, <1>3 DEF IsMidway

\* h has the tables after each statement of a file run on d,
StepByStep(h, st, d) ==
  /\ h[0] = d /\ ExecFile(st, d) = h[Len(st)]
  /\ \A k \in 1..Len(st) : h[k] = Exec(st[k], h[k - 1])

\* and those after each of the first n files.
FileByFile(h, n) ==
  /\ h[0] = << >>
  /\ DatabaseAt(n) = [t \in DOMAIN h[n] |-> [h[n][t] EXCEPT !.rows = Rows]]
  /\ \A f \in 1..n : h[f] = ExecFile(Files[f], h[f - 1])

\* The statements of a file, run one by one: the recursion of ExecFile has a solution.
LEMMA ExecFileUnfolds ==
  ASSUME NEW st, Len(st) \in Nat, NEW d
  PROVE  \E h : StepByStep(h, st, d)
<1> DEFINE Solves(f, N) == f = [k \in 0..N |-> IF k = 0 THEN d ELSE Exec(st[k], f[k - 1])]
           S == {N \in Nat : \E f : Solves(f, N)}
           it == CHOOSE f : Solves(f, Len(st))
<1>1. 0 \in S
  <2>1. Solves([k \in 0..0 |-> d], 0)
    OBVIOUS
  <2> QED
    BY <2>1
<1>2. ASSUME NEW N \in S PROVE N + 1 \in S
  <2>1. PICK f : Solves(f, N)
    OBVIOUS
  <2> DEFINE h == [k \in 0..(N + 1) |-> IF k = N + 1 THEN Exec(st[N + 1], f[N]) ELSE f[k]]
  <2>2. Solves(h, N + 1)
    <3>1. ASSUME NEW k \in 0..(N + 1)
          PROVE  h[k] = IF k = 0 THEN d ELSE Exec(st[k], h[k - 1])
      <4>1. CASE k = N + 1
        BY <4>1
      <4>2. CASE k # N + 1 /\ k # 0
        <5>1. k \in 0..N /\ k - 1 \in 0..(N + 1) /\ k - 1 # N + 1
          BY <4>2
        <5>2. h[k] = f[k] /\ h[k - 1] = f[k - 1]
          BY <5>1
        <5>3. f[k] = Exec(st[k], f[k - 1])
          BY <2>1, <4>2, <5>1
        <5> QED
          BY <4>2, <5>2, <5>3
      <4>3. CASE k = 0
        BY <2>1, <4>3
      <4> QED
        BY <4>1, <4>2, <4>3
    <3> HIDE DEF h
    <3>2. h = [k \in 0..(N + 1) |-> h[k]]
      BY DEF h
    <3> QED
      BY <3>1, <3>2
  <2> HIDE DEF h, Solves
  <2> QED
    BY <2>2
<1>3. \E f : Solves(f, Len(st))
  <2> HIDE DEF Solves
  <2>1. \A N \in Nat : N \in S
    <3> HIDE DEF S
    <3>1. S \in SUBSET Nat
      BY DEF S
    <3> QED
      BY <1>1, <1>2, <3>1, NumbersFrom0
  <2> QED
    BY <2>1
<1>4. Solves(it, Len(st))
  <2> HIDE DEF Solves
  <2> QED
    BY <1>3
<1>5. ExecFile(st, d) = it[Len(st)]
  BY DEF ExecFile
<1> HIDE DEF it
<1>6. it[0] = d /\ \A k \in 1..Len(st) : it[k] = Exec(st[k], it[k - 1])
  BY <1>4
<1> QED
  BY <1>5, <1>6 DEF StepByStep

\* The files, run one by one.
LEMMA DatabaseUnfolds ==
  ASSUME NEW n \in Nat
  PROVE  \E h : FileByFile(h, n)
<1> DEFINE Makes(h, N) == h = [f \in 0..N |-> IF f = 0 THEN << >> ELSE ExecFile(Files[f], h[f - 1])]
           S == {N \in Nat : \E h : Makes(h, N)}
           it == CHOOSE h : Makes(h, n)
<1>1. 0 \in S
  <2>1. Makes([k \in 0..0 |-> << >>], 0)
    OBVIOUS
  <2> QED
    BY <2>1
<1>2. ASSUME NEW N \in S PROVE N + 1 \in S
  <2>1. PICK g : Makes(g, N)
    OBVIOUS
  <2> DEFINE h == [k \in 0..(N + 1) |-> IF k = N + 1 THEN ExecFile(Files[N + 1], g[N]) ELSE g[k]]
  <2>2. Makes(h, N + 1)
    <3>1. ASSUME NEW k \in 0..(N + 1)
          PROVE  h[k] = IF k = 0 THEN << >> ELSE ExecFile(Files[k], h[k - 1])
      <4>1. CASE k = N + 1
        BY <4>1
      <4>2. CASE k # N + 1 /\ k # 0
        <5>1. k \in 0..N /\ k - 1 \in 0..(N + 1) /\ k - 1 # N + 1
          BY <4>2
        <5>2. h[k] = g[k] /\ h[k - 1] = g[k - 1]
          BY <5>1
        <5>3. g[k] = ExecFile(Files[k], g[k - 1])
          BY <2>1, <4>2, <5>1
        <5> QED
          BY <4>2, <5>2, <5>3
      <4>3. CASE k = 0
        BY <2>1, <4>3
      <4> QED
        BY <4>1, <4>2, <4>3
    <3> HIDE DEF h
    <3>2. h = [k \in 0..(N + 1) |-> h[k]]
      BY DEF h
    <3> QED
      BY <3>1, <3>2
  <2> HIDE DEF h, Makes
  <2> QED
    BY <2>2
<1>3. \E h : Makes(h, n)
  <2> HIDE DEF Makes
  <2>1. \A N \in Nat : N \in S
    <3> HIDE DEF S
    <3>1. S \in SUBSET Nat
      BY DEF S
    <3> QED
      BY <1>1, <1>2, <3>1, NumbersFrom0
  <2> QED
    BY <2>1
<1>4. Makes(it, n)
  <2> HIDE DEF Makes
  <2> QED
    BY <1>3
<1>5. DatabaseAt(n) = [t \in DOMAIN it[n] |-> [it[n][t] EXCEPT !.rows = Rows]]
  BY DEF DatabaseAt
<1> HIDE DEF it
<1>6. it[0] = << >> /\ \A f \in 1..n : it[f] = ExecFile(Files[f], it[f - 1])
  BY <1>4
<1> QED
  BY <1>5, <1>6 DEF FileByFile

\* The tables the files make have no rows.
NoRows == [t \in OldTables(8) |-> {}]

\* A creating file leads from one release to the next,
LEMMA ExecCreating ==
  ASSUME NEW d, NEW f \in Creating, IsOld(d, f - 1, NoRows)
  PROVE  /\ IsOld(ExecFile(Files[f], d), f, NoRows)
         /\ DOMAIN ExecFile(Files[f], d) \subseteq OldTables(f)
<1>1. NewAreEmpty(NoRows, f)
  <2>1. \A t \in OldTables(f) : t \in OldTables(8)
    BY DEF OldTables, Creating, Since
  <2> QED
    BY <2>1 DEF NewAreEmpty, NoRows
<1>2. Len(Files[f]) \in {1, 2} /\ Len(Files[f]) \in Nat
  BY FilesAre, FileLengths DEF Creating
<1>3. PICK h : StepByStep(h, Files[f], d)
  BY <1>2, ExecFileUnfolds
<1>4. IsOld(h[1], f - 1, NoRows) /\ Files[f][1].table \in DOMAIN h[1]
  <2>1. 1 \in 1..Len(Files[f]) /\ h[1] = Exec(Files[f][1], d)
    BY <1>2, <1>3 DEF StepByStep
  <2>2. /\ IsOld(Exec(Files[f][1], d), f - 1, NoRows)
        /\ DOMAIN Exec(Files[f][1], d) = DOMAIN d \cup {Files[f][1].table}
    <3> DEFINE s == Files[f][1]
    <3>1. 1 \in 1..Len(Files[f]) /\ s = Files[f][1]
      BY <2>1
    <3> HIDE DEF s
    <3>2. IsOld(Exec(s, d), f - 1, NoRows) /\ DOMAIN Exec(s, d) = DOMAIN d \cup {s.table}
      BY <1>1, <3>1, OldStep
    <3> QED
      BY <3>1, <3>2
  <2> QED
    BY <2>1, <2>2
<1>5. f - 1 + 1 = f
  BY DEF Creating
<1>6. CASE Len(Files[f]) = 1
  <2>1. \A j \in 1..Len(Files[f]) : Files[f][j].table \in DOMAIN h[1]
    BY <1>4, <1>6
  <2> QED
    <3>1. IsOld(h[1], f, NoRows) /\ DOMAIN h[1] \subseteq OldTables(f)
      BY <1>4, <1>5, <2>1, OldNext DEF IsOld
    <3> QED
      BY <1>3, <1>6, <3>1 DEF StepByStep
<1>7. CASE Len(Files[f]) = 2
  <2>1. 2 \in 1..Len(Files[f]) /\ h[2] = Exec(Files[f][2], h[1])
    BY <1>3, <1>7 DEF StepByStep
  <2>2. IsOld(h[2], f - 1, NoRows) /\ DOMAIN h[2] = DOMAIN h[1] \cup {Files[f][2].table}
    <3> DEFINE g == h[1]
               s == Files[f][2]
    <3>1. IsOld(g, f - 1, NoRows) /\ 2 \in 1..Len(Files[f]) /\ s = Files[f][2]
      BY <1>4, <2>1
    <3> HIDE DEF g, s
    <3>2. IsOld(Exec(s, g), f - 1, NoRows) /\ DOMAIN Exec(s, g) = DOMAIN g \cup {s.table}
      BY <1>1, <3>1, OldStep
    <3> QED
      BY <2>1, <3>2 DEF g, s
  <2>3. \A j \in 1..Len(Files[f]) : Files[f][j].table \in DOMAIN h[2]
    BY <1>4, <1>7, <2>2
  <2> QED
    <3>1. IsOld(h[2], f, NoRows) /\ DOMAIN h[2] \subseteq OldTables(f)
      BY <1>5, <2>2, <2>3, OldNext DEF IsOld
    <3> QED
      BY <1>3, <1>7, <3>1 DEF StepByStep
<1> QED
  BY <1>2, <1>6, <1>7

\* as 007 does,
LEMMA ExecTimeout ==
  ASSUME NEW d, IsOld(d, 6, NoRows)
  PROVE  /\ IsOld(ExecFile(Files[7], d), 7, NoRows)
         /\ DOMAIN ExecFile(Files[7], d) \subseteq OldTables(7)
<1>1. Files[7] = TimeoutFile /\ Len(TimeoutFile) = 1
  BY FilesAre, FileLengths
<1>2. PICK h : StepByStep(h, TimeoutFile, d)
  BY <1>1, ExecFileUnfolds
<1>3. ExecFile(TimeoutFile, d) = Exec(TimeoutFile[1], d)
  BY <1>1, <1>2 DEF StepByStep
<1> QED
  BY <1>1, <1>2, <1>3, TimeoutStep

\* and 009 through its sixteen statements.
LEMMA ExecProjects ==
  ASSUME NEW d, NEW R, IsMidway(d, 1, R)
  PROVE  IsMidway(ExecFile(Files[9], d), 17, R)
<1>1. Files[9] = ProjectsFile /\ Len(ProjectsFile) = 16 /\ Len(ProjectsFile) \in Nat
  BY FilesAre, FileLengths
<1>2. PICK h : StepByStep(h, ProjectsFile, d)
  BY <1>1, ExecFileUnfolds
<1>3. /\ h[0] = d /\ ExecFile(ProjectsFile, d) = h[16]
      /\ \A k \in 1..16 : h[k] = Exec(ProjectsFile[k], h[k - 1])
  BY <1>1, <1>2 DEF StepByStep
<1> DEFINE S == {k \in Nat : k <= 16 => IsMidway(h[k], k + 1, R)}
<1>4. 0 \in S
  BY <1>3
<1>5. ASSUME NEW k \in S PROVE k + 1 \in S
  <2> SUFFICES ASSUME k + 1 <= 16 PROVE IsMidway(h[k + 1], k + 1 + 1, R)
    OBVIOUS
  <2>1. k + 1 \in 1..16 /\ IsMidway(h[k], k + 1, R) /\ k + 1 - 1 = k
    OBVIOUS
  <2>2. h[k + 1] = Exec(ProjectsFile[k + 1], h[k])
    BY <1>3, <2>1
  <2> QED
    BY <2>1, <2>2, MidwayStep
<1>6. \A k \in Nat : k \in S
  <2>1. S \in SUBSET Nat
    OBVIOUS
  <2> HIDE DEF S
  <2> QED
    BY <1>4, <1>5, <2>1, NumbersFrom0
<1>7. IsMidway(h[16], 17, R)
  BY <1>6
<1> QED
  BY <1>1, <1>3, <1>7

\* The tables the first n files make.
IsRelease(d, n) ==
  IF n = 9 THEN IsMidway(d, 17, NoRows)
  ELSE IsOld(d, n, NoRows) /\ DOMAIN d \subseteq OldTables(n)

\* Every release.
LEMMA Releases ==
  ASSUME NEW n \in 0..9
  PROVE  \E d : /\ DatabaseAt(n) = [t \in DOMAIN d |-> [d[t] EXCEPT !.rows = Rows]]
                /\ IsRelease(d, n)
<1>1. PICK h : FileByFile(h, n)
  BY DatabaseUnfolds
<1>2. IsRelease(h[0], 0)
  <2>1. DOMAIN << >> = {} /\ << >> = [t \in {} |-> << >>[t]]
    OBVIOUS
  <2>2. IsDatabase(<< >>)
    BY <2>1 DEF IsDatabase
  <2>3. OldTables(0) = {}
    BY DEF OldTables, Since
  <2> QED
    BY <1>1, <2>1, <2>2, <2>3 DEF IsOld, IsRelease, FileByFile
<1> DEFINE S == {m \in Nat : m <= n => IsRelease(h[m], m)}
<1>3. ASSUME NEW m \in S PROVE m + 1 \in S
  <2> SUFFICES ASSUME m + 1 <= n PROVE IsRelease(h[m + 1], m + 1)
    OBVIOUS
  <2>1. m + 1 \in 1..n /\ m + 1 - 1 = m /\ m \in 0..8 /\ IsRelease(h[m], m)
    OBVIOUS
  <2>2. h[m + 1] = ExecFile(Files[m + 1], h[m])
    <3>1. \A f \in 1..n : h[f] = ExecFile(Files[f], h[f - 1])
      BY <1>1 DEF FileByFile
    <3> QED
      BY <2>1, <3>1
  <2>3. h[m + 1] = ExecFile(Files[m + 1], h[m]) /\ IsOld(h[m], m, NoRows)
    BY <2>1, <2>2 DEF IsRelease
  <2>4. CASE m = 6
    <3>1. IsOld(h[7], 7, NoRows) /\ DOMAIN h[7] \subseteq OldTables(7)
      BY <2>3, <2>4, ExecTimeout
    <3> QED
      BY <2>4, <3>1 DEF IsRelease
  <2>5. CASE m = 8
    <3>1. IsMidway(h[8], 1, NoRows) /\ h[9] = ExecFile(Files[9], h[8])
      BY <2>3, <2>5, OldIsMidway
    <3>2. IsMidway(h[9], 17, NoRows)
      BY <3>1, ExecProjects
    <3> QED
      BY <2>5, <3>2 DEF IsRelease
  <2>6. CASE m \notin {6, 8}
    <3>1. m + 1 \in Creating /\ m + 1 # 9
      BY <2>1, <2>6 DEF Creating
    <3>2. IsOld(h[m + 1], m + 1, NoRows) /\ DOMAIN h[m + 1] \subseteq OldTables(m + 1)
      <4> DEFINE f == m + 1
                 d == h[m]
      <4>1. f \in Creating /\ IsOld(d, f - 1, NoRows) /\ h[f] = ExecFile(Files[f], d)
        BY <2>1, <2>3, <3>1
      <4> HIDE DEF f, d
      <4>2. IsOld(h[f], f, NoRows) /\ DOMAIN h[f] \subseteq OldTables(f)
        BY <4>1, ExecCreating
      <4> QED
        BY <4>2 DEF f
    <3> QED
      BY <3>1, <3>2 DEF IsRelease
  <2> QED
    BY <2>4, <2>5, <2>6
<1>4. \A m \in Nat : m \in S
  <2>1. S \in SUBSET Nat /\ 0 \in S
    BY <1>2
  <2> HIDE DEF S
  <2> QED
    BY <1>3, <2>1, NumbersFrom0
<1>5. IsRelease(h[n], n)
  BY <1>4
<1> QED
  BY <1>1, <1>5 DEF FileByFile

\* The rows of the tables of release 8 when the upgrade began.
HadRows == [t \in OldTables(8) |-> IF t \in DOMAIN before THEN before[t].rows ELSE {}]

\* What a database that opens has: SchemaIsCurrent without its condition.
IsCurrent ==
  /\ DOMAIN db = DOMAIN Current
  /\ \A t \in DOMAIN Current:
       /\ db[t].cols = Current[t]
       /\ Source(t) \in DOMAIN before /\ ~(fk /\ t \in Cascaded)
            => db[t].rows = before[Source(t)].rows

\* Files 1..m are recorded: where the process is.
ControlInv(m) ==
  /\ applied = 1..m
  /\ phase \in {"down", "check", "exec", "record", "open", "failed"}
  /\ phase = "check" => file \in 1..(m + 1)
  /\ phase \in {"exec", "record", "failed"} => file = m + 1 /\ m <= 8
  /\ phase = "exec" => stmt \in 1..Len(Files[file])
  /\ phase = "record" => stmt = Len(Files[file]) + 1
  /\ phase = "open" => m = 9
  /\ m <= 8 => DOMAIN before \subseteq OldTables(m)

\* The tables, if no stop cut 007 or 009.
Healthy(m) ==
  /\ phase # "failed"
  /\ m \notin {6, 8, 9} =>
       /\ IsOld(db, m, HadRows)
       /\ phase \in {"exec", "record"} => \A j \in 1..(stmt - 1) : Files[m + 1][j].table \in DOMAIN db
  /\ m = 6 => IsOld(db, IF phase = "record" THEN 7 ELSE 6, HadRows)
  /\ m = 8 => IsMidway(db, IF phase \in {"exec", "record"} THEN stmt ELSE 1, HadRows)
  /\ m = 9 => IsCurrent

\* And if one did: the first statement of the file fails, for ever.
Stuck(m) ==
  /\ phase \notin {"record", "open"}
  /\ phase = "exec" => stmt = 1
  /\ \/ m = 6 /\ "workflows" \in DOMAIN db /\ "timeout_minutes" \in db["workflows"].cols
     \/ m = 8 /\ "watches" \notin DOMAIN db

\* m files are recorded.
SchemaAt(m) ==
  /\ ControlInv(m)
  /\ cut \cap Unrepeatable = {} => Healthy(m)
  /\ cut \cap Unrepeatable # {} => Stuck(m)

\* The inductive invariant of opening the database.
SchemaInv == \E m \in 0..9 : SchemaAt(m)

\* The tables a release leaves are those the next start looks at.
LEMMA SchemaStart == SchemaInit => SchemaInv
<1> SUFFICES ASSUME SchemaInit PROVE SchemaInv
  OBVIOUS
<1>1. PICK n \in 0..9 : before = DatabaseAt(n) /\ applied = 1..n
  BY FilesAre DEF SchemaInit
<1>2. PICK d : /\ DatabaseAt(n) = [t \in DOMAIN d |-> [d[t] EXCEPT !.rows = Rows]]
               /\ IsRelease(d, n)
  BY Releases
<1>3. db = before /\ phase = "down" /\ cut = {}
  BY DEF SchemaInit
<1>4. IsDatabase(d)
  BY <1>2 DEF IsRelease, IsOld, IsMidway
<1>5. /\ IsDatabase(db) /\ DOMAIN db = DOMAIN d
      /\ \A t \in DOMAIN db : db[t].cols = d[t].cols /\ db[t].ref = d[t].ref
  <2>1. db = [t \in DOMAIN d |-> [d[t] EXCEPT !.rows = Rows]]
    BY <1>1, <1>2, <1>3
  <2>2. DOMAIN db = DOMAIN d /\ db = [t \in DOMAIN db |-> db[t]]
    BY <2>1
  <2>3. ASSUME NEW t \in DOMAIN d
        PROVE  IsTable(db[t]) /\ db[t].cols = d[t].cols /\ db[t].ref = d[t].ref
    <3> DEFINE x == d[t]
    <3>1. db[t] = [x EXCEPT !.rows = Rows] /\ IsTable(x)
      BY <1>4, <2>1 DEF IsDatabase
    <3> HIDE DEF x
    <3>2. IsTable(db[t]) /\ db[t].cols = x.cols /\ db[t].ref = x.ref
      BY <3>1 DEF IsTable
    <3> QED
      BY <3>2 DEF x
  <2> QED
    BY <2>2, <2>3 DEF IsDatabase
<1>6. cut \cap Unrepeatable = {}
  BY <1>3
<1>7. CASE n = 9
  <2>1. IsMidway(d, 17, NoRows)
    BY <1>2, <1>7 DEF IsRelease
  <2>2. DOMAIN db = DOMAIN Current
    BY <1>5, <2>1, MidwayTables DEF IsMidway, Current
  <2>3. ASSUME NEW t \in DOMAIN Current PROVE db[t].cols = Current[t] /\ Source(t) = t
    <3>1. db[t].cols = MidwayCols(17, t)
      BY <1>5, <2>1, <2>2 DEF IsMidway, TableIsMidway
    <3>2. MidwayCols(17, t) = Current[t]
      BY DEF MidwayCols, Current
    <3> QED
      BY <1>3, <2>2, <3>1, <3>2 DEF Source
  <2>4. IsCurrent
    BY <1>3, <2>2, <2>3 DEF IsCurrent
  <2>5. Healthy(9) /\ ControlInv(9)
    BY <1>1, <1>3, <1>7, <2>4 DEF Healthy, ControlInv
  <2> QED
    BY <1>6, <1>7, <2>5 DEF SchemaAt, SchemaInv
<1>8. CASE n \in 0..8
  <2>1. IsOld(d, n, NoRows)
    BY <1>2, <1>8 DEF IsRelease
  <2>2. DOMAIN d \subseteq OldTables(8) /\ DOMAIN d \subseteq OldTables(n + 1)
    BY <1>8, <2>1 DEF IsOld, OldTables, Since
  <2>3. \A t \in DOMAIN db : HadRows[t] = db[t].rows
    BY <1>3, <1>5, <2>2 DEF HadRows
  <2>4. \A t \in DOMAIN db : TableIsOld(db[t], n, t, HadRows)
    BY <1>5, <2>1, <2>3 DEF IsOld, TableIsOld
  <2>5. IsOld(db, n, HadRows)
    BY <1>5, <2>1, <2>4 DEF IsOld
  <2>6. n = 8 => IsMidway(db, 1, HadRows)
    BY <2>5, OldIsMidway
  <2>7. Healthy(n)
    BY <1>3, <1>8, <2>5, <2>6 DEF Healthy
  <2>8. DOMAIN before \subseteq OldTables(n)
    BY <1>2, <1>3, <1>5, <1>8 DEF IsRelease
  <2>9. ControlInv(n)
    BY <1>1, <1>3, <1>8, <2>8 DEF ControlInv
  <2> QED
    BY <1>6, <1>8, <2>7, <2>9 DEF SchemaAt, SchemaInv
<1> QED
  BY <1>7, <1>8

\* Open, the head of the loop of applyMigrations and a stop change no table.
LEMMA QuietKeepsSchema ==
  ASSUME SchemaInv, Boot \/ CheckFile \/ StopSchema \/ UNCHANGED schemaVars, UNCHANGED fk
  PROVE  SchemaInv'
<1>1. PICK m \in 0..9 : SchemaAt(m)
  BY DEF SchemaInv
<1>2. /\ ControlInv(m)
      /\ (cut \cap Unrepeatable = {} => Healthy(m))
      /\ (cut \cap Unrepeatable # {} => Stuck(m))
  BY <1>1 DEF SchemaAt
<1>3. UNCHANGED <<db, before, applied, fk>>
  BY DEF Boot, CheckFile, StopSchema, schemaVars
<1>4. HadRows' = HadRows /\ (IsCurrent => IsCurrent')
  BY <1>3 DEF HadRows, IsCurrent, Source
<1>5. ASSUME NEW k, IsMidway(db, k, HadRows) PROVE IsMidway(db, k, HadRows)'
  <2>1. db' = db /\ (fk' <=> fk) /\ HadRows' = HadRows
    BY <1>3, <1>4
  <2>2. ASSUME NEW t \in DOMAIN db PROVE TableIsMidway(db[t], k, t, HadRows)'
    <3>1. TableIsMidway(db[t], k, t, HadRows)
      BY <1>5 DEF IsMidway
    <3> QED
      BY <2>1, <3>1 DEF TableIsMidway
  <2> QED
    BY <1>5, <2>1, <2>2 DEF IsMidway
<1>6. \A k : IsOld(db, k, HadRows)' <=> IsOld(db, k, HadRows)
  BY <1>3, <1>4 DEF IsOld
<1>7. CASE Boot
  <2>1. ControlInv(m)'
    BY <1>2, <1>7 DEF ControlInv, Boot
  <2>2. Healthy(m) => Healthy(m)'
    BY <1>4, <1>5, <1>6, <1>7 DEF Healthy, Boot
  <2>3. Stuck(m) => Stuck(m)'
    BY <1>7 DEF Stuck, Boot
  <2>4. cut' = cut
    BY <1>7 DEF Boot
  <2> QED
    BY <1>2, <2>1, <2>2, <2>3, <2>4 DEF SchemaAt, SchemaInv
<1>8. CASE CheckFile
  <2>1. ControlInv(m)'
    <3>1. file \in Nat /\ (file <= 9 => Len(Files[file]) \in {1, 2, 16})
      <4>1. file \in 1..(m + 1)
        BY <1>2, <1>8 DEF ControlInv, CheckFile
      <4>2. file <= 9 => file \in {1, 2, 3, 4, 5, 6, 7, 8, 9}
        BY <4>1
      <4> QED
        <5>1. ASSUME file <= 9 PROVE Len(Files[file]) \in {1, 2, 16}
          BY <4>2, <5>1, FilesHaveStatements
        <5> QED
          BY <4>1, <5>1
    <3>2. CASE file > 9
      BY <1>2, <1>3, <1>8, <3>2, FilesAre DEF ControlInv, CheckFile
    <3>3. CASE file <= 9 /\ file \in applied
      BY <1>2, <1>3, <1>8, <3>1, <3>3, FilesAre DEF ControlInv, CheckFile
    <3>4. CASE file <= 9 /\ file \notin applied
      <4>1. phase = "check" /\ phase' = "exec" /\ stmt' = 1 /\ file' = file
        BY <1>8, <3>1, <3>4, FilesAre DEF CheckFile
      <4>2. file = m + 1 /\ m <= 8
        BY <1>2, <3>1, <3>4, <4>1 DEF ControlInv
      <4>3. 1 \in 1..Len(Files[file])
        <5> DEFINE L == Len(Files[file])
        <5>1. L \in {1, 2, 16}
          BY <3>1, <3>4
        <5> HIDE DEF L
        <5>2. 1 \in 1..L
          BY <5>1
        <5> QED
          BY <5>2 DEF L
      <4> QED
        BY <1>2, <1>3, <4>1, <4>2, <4>3 DEF ControlInv
    <3> QED
      BY <3>1, <3>2, <3>3, <3>4
  <2>2. Healthy(m) => Healthy(m)'
    BY <1>2, <1>4, <1>5, <1>6, <1>8 DEF Healthy, CheckFile, ControlInv
  <2>3. Stuck(m) => Stuck(m)'
    BY <1>2, <1>8, FilesAre DEF Stuck, CheckFile, ControlInv
  <2>4. cut' = cut
    BY <1>8 DEF CheckFile
  <2> QED
    BY <1>2, <2>1, <2>2, <2>3, <2>4 DEF SchemaAt, SchemaInv
<1>9. CASE StopSchema
  <2>1. ControlInv(m)' /\ phase' = "down"
    BY <1>2, <1>9 DEF ControlInv, StopSchema
  <2>2. Stuck(m) => Stuck(m)' /\ cut' = cut
    BY <1>9 DEF Stuck, StopSchema, Begun
  <2>3. CASE cut \cap Unrepeatable # {}
    BY <1>2, <2>1, <2>2, <2>3 DEF SchemaAt, SchemaInv
  <2>4. CASE cut \cap Unrepeatable = {} /\ Begun /\ file \in Unrepeatable
    <3>1. Healthy(m) /\ m \in {6, 8} /\ file = m + 1 /\ cut' \cap Unrepeatable # {}
      <4>1. cut' = cut \cup {file}
        BY <1>9, <2>4 DEF StopSchema
      <4>2. file = m + 1
        BY <1>2, <2>4 DEF ControlInv, Begun
      <4>3. m \in {6, 8}
        BY <2>4, <4>2 DEF Unrepeatable
      <4> QED
        BY <1>2, <2>4, <4>1, <4>2, <4>3
    <3>2. CASE m = 6
      <4>1. phase = "record"
        <5>1. Len(Files[file]) = 1
          BY <3>1, <3>2, FilesAre, FileLengths
        <5> QED
          BY <1>2, <2>4, <5>1 DEF ControlInv, Begun
      <4>2. IsOld(db, 7, HadRows)
        BY <3>1, <3>2, <4>1 DEF Healthy
      <4>3. "workflows" \in DOMAIN db
        BY <4>2 DEF IsOld, OldTables, Since
      <4>4. db["workflows"].cols = OldCols(7, "workflows")
        BY <4>2, <4>3 DEF IsOld, TableIsOld
      <4>5. "timeout_minutes" \in db["workflows"].cols
        BY <4>4 DEF OldCols
      <4> QED
        BY <1>3, <2>1, <3>1, <3>2, <4>3, <4>5 DEF SchemaAt, SchemaInv, Stuck
    <3>3. CASE m = 8
      <4>1. IsMidway(db, stmt, HadRows) /\ stmt \in 2..17
        <5>1. Len(Files[file]) = 16 /\ phase \in {"exec", "record"} /\ stmt > 1
          BY <2>4, <3>1, <3>3, FilesAre, FileLengths DEF Begun
        <5>2. stmt \in 2..17
          BY <1>2, <5>1 DEF ControlInv
        <5> QED
          BY <3>1, <3>3, <5>1, <5>2 DEF Healthy
      <4>2. "watches" \notin DOMAIN db
        BY <4>1 DEF IsMidway, Midway
      <4> QED
        BY <1>3, <2>1, <3>1, <3>3, <4>2 DEF SchemaAt, SchemaInv, Stuck
    <3> QED
      BY <3>1, <3>2, <3>3
  <2>5. CASE cut \cap Unrepeatable = {} /\ ~(Begun /\ file \in Unrepeatable)
    <3>1. cut' \cap Unrepeatable = {}
      BY <1>9, <2>5 DEF StopSchema
    <3>2. Healthy(m)
      BY <1>2, <2>5
    <3>3. phase \in {"exec", "record"} /\ m \in {6, 8} => phase = "exec" /\ stmt = 1
      BY <1>2, <2>5, FilesAre, FileLengths DEF ControlInv, Begun, Unrepeatable
    <3>4. Healthy(m)'
      BY <1>4, <1>5, <1>6, <2>1, <3>2, <3>3 DEF Healthy
    <3> QED
      BY <2>1, <3>1, <3>4 DEF SchemaAt, SchemaInv
  <2> QED
    BY <2>3, <2>4, <2>5
<1>10. CASE UNCHANGED schemaVars
  <2>1. UNCHANGED <<phase, file, stmt, cut>>
    BY <1>10 DEF schemaVars
  <2>2. ControlInv(m)'
    BY <1>2, <1>3, <2>1 DEF ControlInv
  <2>3. Healthy(m) => Healthy(m)'
    BY <1>3, <1>4, <1>5, <1>6, <2>1 DEF Healthy
  <2>4. Stuck(m) => Stuck(m)'
    BY <1>3, <2>1 DEF Stuck
  <2> QED
    BY <1>2, <2>1, <2>2, <2>3, <2>4 DEF SchemaAt, SchemaInv
<1> QED
  BY <1>7, <1>8, <1>9, <1>10

\* The INSERT of a file's name: the tables are those of the next release.
LEMMA RecordKeepsSchema ==
  ASSUME SchemaInv, RecordFile
  PROVE  SchemaInv'
<1>1. PICK m \in 0..9 : SchemaAt(m)
  BY DEF SchemaInv
<1>2. phase = "record" /\ UNCHANGED <<db, before, stmt, cut, fk>> /\ phase' = "check"
  BY DEF RecordFile
<1>3. cut \cap Unrepeatable = {} /\ Healthy(m) /\ ControlInv(m)
  BY <1>1, <1>2 DEF SchemaAt, Stuck
<1>4. /\ m \in 0..8
      /\ file = m + 1
      /\ stmt = Len(Files[m + 1]) + 1
      /\ DOMAIN before \subseteq OldTables(m)
  BY <1>2, <1>3 DEF ControlInv
<1>5. applied' = 1..(m + 1) /\ file' = m + 2
  BY <1>3, <1>4 DEF RecordFile, ControlInv
<1>6. OldTables(m) \subseteq OldTables(m + 1)
  BY <1>4 DEF OldTables, Since
<1>7. ControlInv(m + 1)'
  BY <1>2, <1>4, <1>5, <1>6 DEF ControlInv
<1>8. HadRows' = HadRows
  BY <1>2 DEF HadRows
<1>9. CASE m \notin {6, 8}
  <2>1. m + 1 \in Creating /\ m + 1 - 1 = m /\ m + 1 \notin {7, 9}
    BY <1>4, <1>9 DEF Creating
  <2>2. IsOld(db, m, HadRows) /\ \A j \in 1..Len(Files[m + 1]) : Files[m + 1][j].table \in DOMAIN db
    <3>1. Len(Files[m + 1]) + 1 - 1 = Len(Files[m + 1])
      BY <2>1, FilesAre, FileLengths DEF Creating
    <3> QED
      BY <1>2, <1>3, <1>4, <1>9, <3>1 DEF Healthy
  <2>3. IsOld(db, m + 1, HadRows)
    <3> DEFINE f == m + 1
    <3>1. /\ f \in Creating
          /\ IsOld(db, f - 1, HadRows)
          /\ \A j \in 1..Len(Files[f]) : Files[f][j].table \in DOMAIN db
      BY <2>1, <2>2
    <3> HIDE DEF f
    <3>2. IsOld(db, f, HadRows)
      BY <3>1, OldNext
    <3> QED
      BY <3>2 DEF f
  <2>4. m + 1 = 8 => IsMidway(db, 1, HadRows)
    BY <2>3, OldIsMidway
  <2>5. IsOld(db, m + 1, HadRows)' /\ (m + 1 = 8 => IsMidway(db, 1, HadRows)')
    BY <1>2, <1>8, <2>3, <2>4 DEF IsOld, IsMidway, TableIsMidway
  <2>6. Healthy(m + 1)'
    BY <1>2, <2>1, <2>5 DEF Healthy
  <2> QED
    BY <1>2, <1>3, <1>4, <1>7, <2>6 DEF SchemaAt, SchemaInv
<1>10. CASE m = 6
  <2>1. IsOld(db, 7, HadRows)
    BY <1>2, <1>3, <1>10 DEF Healthy
  <2>2. IsOld(db, 7, HadRows)'
    BY <1>2, <1>8, <2>1 DEF IsOld
  <2>3. Healthy(7)'
    BY <1>2, <2>2 DEF Healthy
  <2> QED
    BY <1>2, <1>3, <1>7, <1>10, <2>3 DEF SchemaAt, SchemaInv
<1>11. CASE m = 8
  <2>1. IsMidway(db, 17, HadRows)
    <3>1. Len(Files[m + 1]) = 16
      BY <1>11, FilesAre, FileLengths
    <3>2. stmt = 17
      BY <1>4, <3>1
    <3> QED
      BY <1>2, <1>3, <1>11, <3>2 DEF Healthy
  <2>2. DOMAIN db = DOMAIN Current /\ DOMAIN before \subseteq OldTables(8)
    BY <1>4, <1>11, <2>1, MidwayTables DEF IsMidway, Current
  <2>3. ASSUME NEW t \in DOMAIN Current
        PROVE  /\ db[t].cols = Current[t]
               /\ Source(t) \in DOMAIN before /\ ~(fk /\ t \in Cascaded)
                    => db[t].rows = before[Source(t)].rows
    <3>1. TableIsMidway(db[t], 17, t, HadRows)
      BY <2>1, <2>2 DEF IsMidway
    <3>2. MidwayCols(17, t) = Current[t]
      BY DEF MidwayCols, Current
    <3>3. "projects" \notin DOMAIN before /\ "project_triggers" \notin DOMAIN before
      BY <2>2 DEF OldTables
    <3>4. MidwaySource(17, t) = Source(t) /\ Source(t) # "" /\ (t \in Safe \/ t \in Cascaded)
      <4>1. t \in {"projects", "workflows", "runs", "project_triggers", "run_jobs", "run_artifacts",
                   "users", "sessions", "seen_commits"}
        BY DEF Current
      <4>2. Source(t) = IF t \in {"projects", "project_triggers"} THEN "watches" ELSE t
        BY <3>3 DEF Source
      <4>3. MidwaySource(17, t) = IF t \in {"projects", "project_triggers"} THEN "watches" ELSE t
        BY <4>1 DEF MidwaySource
      <4>4. t \in Safe \/ t \in Cascaded
        BY <4>1 DEF Safe, Cascaded
      <4> QED
        BY <4>1, <4>2, <4>3, <4>4
    <3>5. Source(t) \in DOMAIN before => HadRows[Source(t)] = before[Source(t)].rows
      BY <2>2 DEF HadRows
    <3>6. db[t].cols = Current[t]
      BY <3>1, <3>2 DEF TableIsMidway
    <3>7. t \in Safe \/ ~fk => db[t].rows = HadRows[Source(t)]
      BY <3>1, <3>4 DEF TableIsMidway
    <3> QED
      BY <3>4, <3>5, <3>6, <3>7
  <2>4. IsCurrent
    BY <2>2, <2>3 DEF IsCurrent
  <2>5. IsCurrent'
    BY <1>2, <2>4 DEF IsCurrent, Source
  <2>6. Healthy(9)'
    BY <1>2, <2>5 DEF Healthy
  <2> QED
    BY <1>2, <1>3, <1>7, <1>11, <2>6 DEF SchemaAt, SchemaInv
<1> QED
  BY <1>9, <1>10, <1>11

\* A statement: it leads one further, or a cut file meets its own traces.
LEMMA ExecKeepsSchema ==
  ASSUME SchemaInv, ExecStatement
  PROVE  SchemaInv'
<1>1. PICK m \in 0..9 : SchemaAt(m)
  BY DEF SchemaInv
<1> DEFINE s == Files[m + 1][stmt]
           L == Len(Files[m + 1])
<1>2. phase = "exec" /\ UNCHANGED <<before, applied, file, cut, fk>>
  BY DEF ExecStatement
<1>3. /\ ControlInv(m)
      /\ (cut \cap Unrepeatable = {} => Healthy(m))
      /\ (cut \cap Unrepeatable # {} => Stuck(m))
  BY <1>1 DEF SchemaAt
<1>4. m \in 0..8 /\ file = m + 1 /\ stmt \in 1..L /\ DOMAIN before \subseteq OldTables(m)
  BY <1>2, <1>3 DEF ControlInv
<1>5. L \in Nat /\ (m # 0 /\ m # 8 => L = 1) /\ (m = 8 => L = 16)
  BY <1>4, FilesAre, FileLengths
<1>6. HadRows' = HadRows
  BY <1>2 DEF HadRows
<1>7. Fails(s, db) => phase' = "failed" /\ UNCHANGED <<db, stmt>>
  BY <1>4 DEF ExecStatement
<1>8. ~Fails(s, db) =>
        /\ db' = Exec(s, db) /\ stmt' = stmt + 1
        /\ phase' = IF stmt = L THEN "record" ELSE "exec"
  BY <1>4 DEF ExecStatement
<1>9. ControlInv(m)'
  <2>1. CASE Fails(s, db)
    BY <1>2, <1>3, <1>4, <1>7, <2>1 DEF ControlInv
  <2>2. CASE ~Fails(s, db)
    <3>1. /\ phase' \in {"exec", "record"}
          /\ (phase' = "exec" => stmt' \in 1..L)
          /\ (phase' = "record" => stmt' = L + 1)
      BY <1>4, <1>5, <1>8, <2>2
    <3> HIDE DEF s
    <3> QED
      BY <1>2, <1>3, <1>4, <3>1 DEF ControlInv
  <2> QED
    BY <2>1, <2>2
<1>10. CASE cut \cap Unrepeatable # {}
  <2>1. Stuck(m) /\ stmt = 1
    BY <1>2, <1>3, <1>10 DEF Stuck
  <2>2. Fails(s, db)
    <3>1. CASE m = 6 /\ "workflows" \in DOMAIN db /\ "timeout_minutes" \in db["workflows"].cols
      <4>1. s = AddColumn("workflows", "timeout_minutes")
        BY <2>1, <3>1, FilesAre DEF TimeoutFile
      <4> HIDE DEF s
      <4> QED
        BY <3>1, <4>1 DEF AddColumn, Fails
    <3>2. CASE m = 8 /\ "watches" \notin DOMAIN db
      <4>1. s = Rename("watches", "projects")
        <5>1. s = ProjectsFile[1]
          BY <2>1, <3>2, FilesAre
        <5> QED
          BY <5>1 DEF ProjectsFile
      <4> HIDE DEF s
      <4> QED
        BY <3>2, <4>1 DEF Rename, Fails
    <3> QED
      BY <2>1, <3>1, <3>2 DEF Stuck
  <2>3. Stuck(m)'
    BY <1>7, <2>1, <2>2 DEF Stuck
  <2> QED
    BY <1>2, <1>9, <1>10, <2>3 DEF SchemaAt, SchemaInv
<1>11. CASE cut \cap Unrepeatable = {}
  <2>1. Healthy(m)
    BY <1>3, <1>11
  <2>2. CASE m \notin {6, 8}
    <3> DEFINE f == m + 1
               e == Exec(s, db)
    <3>1. f \in Creating /\ f - 1 = m /\ stmt \in 1..Len(Files[f]) /\ s = Files[f][stmt]
      BY <1>4, <2>2 DEF Creating
    <3>2. IsOld(db, f - 1, HadRows) /\ \A j \in 1..(stmt - 1) : Files[f][j].table \in DOMAIN db
      BY <1>2, <1>4, <2>1, <2>2, <3>1 DEF Healthy
    <3>3. NewAreEmpty(HadRows, f)
      <4>1. ASSUME NEW t \in OldTables(f) \ OldTables(f - 1) PROVE HadRows[t] = {}
        <5>1. t \in OldTables(8) /\ t \notin DOMAIN before
          BY <1>4, <3>1 DEF OldTables, Since, Creating
        <5> QED
          BY <5>1 DEF HadRows
      <4> QED
        BY <4>1 DEF NewAreEmpty
    <3> HIDE DEF f, s, e
    <3>4. ~Fails(s, db) /\ IsOld(e, f - 1, HadRows) /\ DOMAIN e = DOMAIN db \cup {s.table}
      BY <3>1, <3>2, <3>3, OldStep DEF e
    <3>5. db' = e /\ stmt' = stmt + 1 /\ phase' # "failed"
      BY <1>8, <3>4 DEF e
    <3>6. \A j \in 1..(stmt' - 1) : Files[f][j].table \in DOMAIN e
      BY <1>4, <3>1, <3>2, <3>4, <3>5
    <3>7. IsOld(db, m, HadRows)'
      BY <1>6, <3>1, <3>4, <3>5 DEF IsOld
    <3>8. Healthy(m)'
      BY <1>4, <2>2, <3>5, <3>6, <3>7 DEF Healthy, f
    <3> QED
      BY <1>2, <1>9, <1>11, <3>8 DEF SchemaAt, SchemaInv
  <2>3. CASE m = 6
    <3> DEFINE e == Exec(s, db)
    <3>1. IsOld(db, 6, HadRows) /\ s = TimeoutFile[1] /\ stmt = L
      <4>1. L = 1 /\ stmt = 1
        <5>1. Len(Files[m + 1]) = 1
          BY <2>3, FilesAre, FileLengths
        <5> QED
          BY <1>4, <5>1
      <4>2. Files[m + 1] = TimeoutFile
        BY <2>3, FilesAre
      <4>3. IsOld(db, 6, HadRows)
        BY <1>2, <2>1, <2>3 DEF Healthy
      <4> QED
        BY <4>1, <4>2, <4>3
    <3> HIDE DEF s, e
    <3>2. ~Fails(s, db) /\ IsOld(e, 7, HadRows)
      BY <3>1, TimeoutStep DEF e
    <3>3. db' = e /\ phase' = "record"
      BY <1>8, <3>1, <3>2 DEF e
    <3>4. IsOld(db, 7, HadRows)'
      BY <1>6, <3>2, <3>3 DEF IsOld
    <3>5. Healthy(m)'
      BY <2>3, <3>3, <3>4 DEF Healthy
    <3> QED
      BY <1>2, <1>9, <1>11, <3>5 DEF SchemaAt, SchemaInv
  <2>4. CASE m = 8
    <3> DEFINE e == Exec(s, db)
    <3>1. IsMidway(db, stmt, HadRows) /\ s = ProjectsFile[stmt] /\ stmt \in 1..16
      <4>1. stmt \in 1..16
        BY <1>4, <1>5, <2>4
      <4>2. Files[m + 1] = ProjectsFile
        BY <2>4, FilesAre
      <4>3. IsMidway(db, stmt, HadRows)
        BY <1>2, <2>1, <2>4 DEF Healthy
      <4> QED
        BY <4>1, <4>2, <4>3
    <3> HIDE DEF s, e
    <3>2. ~Fails(s, db) /\ IsMidway(e, stmt + 1, HadRows)
      BY <3>1, MidwayStep DEF e
    <3>3. db' = e /\ phase' \in {"exec", "record"} /\ stmt' = stmt + 1
      BY <1>8, <3>2 DEF e
    <3>4. IsMidway(db, stmt, HadRows)'
      BY <1>2, <1>6, <3>2, <3>3 DEF IsMidway, TableIsMidway
    <3>5. Healthy(m)'
      BY <2>4, <3>3, <3>4 DEF Healthy
    <3> QED
      BY <1>2, <1>9, <1>11, <3>5 DEF SchemaAt, SchemaInv
  <2> QED
    BY <2>2, <2>3, <2>4
<1> QED
  BY <1>10, <1>11

\* A behaviour that exercises another part never opens the database.
SchemaPart == IF part = "schema" THEN SchemaInv ELSE phase = "down"

\* Every step of the server keeps the invariant.
LEMMA SchemaKept == SchemaPart /\ [Next]_serverVars => SchemaPart'
<1> SUFFICES ASSUME SchemaPart, [Next]_serverVars PROVE SchemaPart'
  OBVIOUS
<1>1. part' = part
  BY DEF Next, SchemaStep, AccountsStep, ProjectsStep, StreamStep, RetentionStep, serverVars
<1>2. CASE part # "schema"
  <2>1. phase' = phase
    BY <1>2 DEF Next, SchemaStep, AccountsStep, ProjectsStep, StreamStep, RetentionStep,
                serverVars, schemaVars
  <2> QED
    BY <1>1, <1>2, <2>1 DEF SchemaPart
<1>3. CASE part = "schema" /\ SchemaNext
  <2>1. SchemaInv
    BY <1>3 DEF SchemaPart
  <2>2. CASE Boot \/ CheckFile \/ StopSchema
    <3>1. UNCHANGED fk
      BY <2>2 DEF Boot, CheckFile, StopSchema, Stops
    <3> QED
      BY <1>1, <1>3, <2>1, <2>2, <3>1, QuietKeepsSchema DEF SchemaPart
  <2>3. CASE ExecStatement
    BY <1>1, <1>3, <2>1, <2>3, ExecKeepsSchema DEF SchemaPart
  <2>4. CASE RecordFile
    BY <1>1, <1>3, <2>1, <2>4, RecordKeepsSchema DEF SchemaPart
  <2> QED
    BY <1>3, <2>2, <2>3, <2>4 DEF SchemaNext
<1>4. CASE part = "schema" /\ UNCHANGED serverVars
  <2>1. SchemaInv /\ UNCHANGED schemaVars /\ UNCHANGED fk
    BY <1>4 DEF SchemaPart, serverVars
  <2> QED
    BY <1>1, <1>4, <2>1, QuietKeepsSchema DEF SchemaPart
<1> QED
  BY <1>2, <1>3, <1>4 DEF Next, SchemaStep, AccountsStep, ProjectsStep, StreamStep, RetentionStep

\* It holds when the server is first started,
LEMMA SchemaPartStart == Init => SchemaPart
<1>1. Init => SchemaInit
  BY DEF Init
<1>2. SchemaInit => phase = "down"
  BY DEF SchemaInit
<1> QED
  BY <1>1, <1>2, SchemaStart DEF SchemaPart

\* and says what a database that opens has, and which do not open.
LEMMA SchemaPartSays == SchemaPart => SchemaIsCurrent /\ FailsExactlyAfterCut
<1> SUFFICES ASSUME SchemaPart PROVE SchemaIsCurrent /\ FailsExactlyAfterCut
  OBVIOUS
<1>1. CASE phase \notin {"open", "failed"}
  BY <1>1 DEF SchemaIsCurrent, FailsExactlyAfterCut
<1>2. CASE phase \in {"open", "failed"}
  <2>1. PICK m \in 0..9 : SchemaAt(m)
    BY <1>2 DEF SchemaPart, SchemaInv
  <2>2. phase = "open" => cut \cap Unrepeatable = {} /\ m = 9 /\ Healthy(m)
    BY <2>1 DEF SchemaAt, ControlInv, Stuck
  <2>3. phase = "failed" => cut \cap Unrepeatable # {}
    BY <2>1 DEF SchemaAt, Healthy
  <2>4. phase = "open" => IsCurrent
    BY <2>2 DEF Healthy
  <2> QED
    BY <2>2, <2>3, <2>4 DEF SchemaIsCurrent, FailsExactlyAfterCut, IsCurrent
<1> QED
  BY <1>1, <1>2

\* Whichever release left the tables and wherever the upgrade was stopped, a
\* database that opens has the tables and columns the queries of store.go name and
\* every row it had, watches as projects with their trigger, but for those that
\* enforced foreign keys delete (migrations.go:14-53, schema/009_projects_triggers.sql).
THEOREM SchemaStaysCurrent == Spec => []SchemaIsCurrent
BY SchemaPartStart, SchemaKept, SchemaPartSays, PTL DEF Spec

\* applyMigrations fails only on a database that a stop left inside 007 or 009, and
\* that database never opens again (migrations.go:43-49).
THEOREM FailsOnlyAfterCut == Spec => []FailsExactlyAfterCut
BY SchemaPartStart, SchemaKept, SchemaPartSays, PTL DEF Spec

==============================================================================
