----------------------------- MODULE PollerProofs -----------------------------
(***************************************************************************)
(* What Poller promises, for any watches, refs and bounds: a watch emits a *)
(* commit at most once, and no entry of seen_commits is unaccounted for.   *)
(***************************************************************************)
EXTENDS Poller, TLAPS

(***************************************************************************)
(* 0 and every head within the bound of its ref are commits; so is 1, the  *)
(* answer for a pull request (poller.go:180-203).                          *)
(***************************************************************************)
LEMMA HeadsAreCommits ==
  ASSUME NEW k \in Refs, NEW n \in 0..MaxHead[k]
  PROVE  n \in Commits
  BY DEF Commits

\* 0, no commit yet, and 1 are commits of every ref.
LEMMA SmallCommits ==
  ASSUME NEW k \in Refs
  PROVE  0 \in Commits /\ 1 \in Commits /\ 1 \in 0..MaxHead[k]
  <1>1. MaxHead[k] \in Nat \ {0}
    BY PollerAssumption
  <1>2. 0 \in 0..MaxHead[k] /\ 1 \in 0..MaxHead[k]
    BY <1>1
  <1> QED
    BY <1>2, HeadsAreCommits

(***************************************************************************)
(* The backoff is doubled up to its cap and no further (poller.go:125-135).*)
(***************************************************************************)
LEMMA BackoffIsCapped ==
  ASSUME NEW b \in 0..MaxBackoff
  PROVE  nextBackoff(b) \in 0..MaxBackoff
  BY PollerAssumption DEF nextBackoff

-------------------------------------------------------------------------------
(***************************************************************************)
(* The types, with the bound of each ref on its own head.                  *)
(***************************************************************************)
HeadBound == \A k \in Refs : head[k] \in 0..MaxHead[k]

\* Both.
TInv == TypeOK /\ HeadBound

(***************************************************************************)
(* What runWatch fetches is a commit.                                      *)
(***************************************************************************)
LEMMA FetchedIsCommit ==
  ASSUME TInv, NEW w \in Watches
  PROVE  fetchSHA(w) \in Commits
  <1>1. RefOf[w] \in Refs
    BY PollerAssumption
  <1>2. head[RefOf[w]] \in Commits
    BY <1>1 DEF TInv, TypeOK
  <1> QED
    BY <1>1, <1>2, SmallCommits DEF fetchSHA

\* The first poll starts with the types.
LEMMA InitTInv == Init => TInv
  <1> SUFFICES ASSUME Init PROVE TInv
    OBVIOUS
  <1> USE PollerAssumption DEF Init
  <1>1. HeadBound /\ head \in [Refs -> Commits]
    BY SmallCommits DEF HeadBound
  <1>2. \A w \in Watches : RefOf[w] \in Refs
    OBVIOUS
  <1>3. sha \in [Watches -> Commits]
    BY <1>2, SmallCommits
  <1>4. backoff \in [Watches -> 0..MaxBackoff] /\ inChan \in 0..ChanCap
        /\ errors \in 0..MaxErrors /\ restarts \in 0..MaxRestarts
    OBVIOUS
  <1>5. emitted \in [Watches -> [Commits -> Nat]]
    OBVIOUS
  <1> QED
    BY <1>1, <1>3, <1>4, <1>5 DEF TInv, TypeOK

\* Every step of the poller keeps them.
LEMMA NextTInv == TInv /\ [Next]_vars => TInv'
  <1> SUFFICES ASSUME TInv, [Next]_vars PROVE TInv'
    OBVIOUS
  <1> USE DEF TInv
  <1>1. \A w \in Watches : RefOf[w] \in Refs
    BY PollerAssumption
  <1>2. ASSUME NEW k \in Refs, Push(k) PROVE TInv'
    <2>1. head[k] + 1 \in 0..MaxHead[k]
      BY <1>2, PollerAssumption DEF Push, HeadBound
    <2>2. head[k] + 1 \in Commits
      BY <2>1, HeadsAreCommits
    <2> QED
      BY <1>2, <2>1, <2>2 DEF Push, HeadBound, TypeOK
  <1>3. CASE Forward
    BY <1>3, PollerAssumption DEF Forward, HeadBound, TypeOK
  <1>4. CASE Restart
    <2>1. /\ projects' \subseteq Projects /\ configured' \subseteq Watches
          /\ polled' \subseteq Watches
          /\ \A w \in configured' : ProjectOf[w] \in projects'
      BY <1>4, PollerAssumption DEF Restart, seedWatchesFromConfig, TypeOK
    <2>2. sha' \in [Watches -> Commits]
      BY <1>1, <1>4, SmallCommits DEF Restart
    <2>3. lost' \subseteq Watches \X Commits
      BY <1>4 DEF Restart, TypeOK
    <2>4. restarts' \in 0..MaxRestarts /\ inChan' \in 0..ChanCap
          /\ backoff' \in [Watches -> 0..MaxBackoff]
      BY <1>4, PollerAssumption DEF Restart, TypeOK
    <2> QED
      BY <1>4, <2>1, <2>2, <2>3, <2>4, PollerAssumption DEF Restart, HeadBound, TypeOK
  <1>5. ASSUME NEW w \in Watches, AddTrigger(w) \/ DeleteTrigger(w) PROVE TInv'
    <2>1. ProjectOf[w] \in Projects
      BY PollerAssumption
    <2> QED
      BY <1>5, <2>1 DEF AddTrigger, DeleteTrigger, HeadBound, TypeOK
  <1>12. ASSUME NEW p \in Projects, DeleteProject(p) PROVE TInv'
    BY <1>12 DEF DeleteProject, WatchesOf, HeadBound, TypeOK
  <1>6. ASSUME NEW w \in Watches, Fetch(w) PROVE TInv'
    <2>1. fetchSHA(w) \in Commits
      BY FetchedIsCommit
    <2>2. backoff' \in [Watches -> 0..MaxBackoff]
      BY <1>6, PollerAssumption DEF Fetch, TypeOK
    <2> QED
      BY <1>6, <2>1, <2>2 DEF Fetch, HeadBound, TypeOK
  <1>7. ASSUME NEW w \in Watches, FetchRateLimited(w) \/ FetchError(w) PROVE TInv'
    <2>1. backoff' \in [Watches -> 0..MaxBackoff]
      BY <1>7, BackoffIsCapped, PollerAssumption DEF FetchRateLimited, FetchError, TypeOK
    <2> QED
      BY <1>7, <2>1 DEF FetchRateLimited, FetchError, HeadBound, TypeOK
  <1>8. ASSUME NEW w \in Watches, Check(w) \/ StoreError(w) PROVE TInv'
    <2>1. sha' \in [Watches -> Commits]
      BY <1>1, <1>8, SmallCommits DEF Check, StoreError, NextTick, TypeOK
    <2>2. errors' \in 0..MaxErrors
      BY <1>8, PollerAssumption DEF Check, StoreError, TypeOK
    <2> QED
      BY <1>8, <2>1, <2>2 DEF Check, StoreError, NextTick, HeadBound, TypeOK
  <1>9. ASSUME NEW w \in Watches, MarkSeen(w) PROVE TInv'
    BY <1>1, <1>9 DEF MarkSeen, SeenKey, HeadBound, TypeOK
  <1>10. ASSUME NEW w \in Watches, Send(w) PROVE TInv'
    <2>1. sha' \in [Watches -> Commits] /\ sha[w] \in Commits
      BY <1>1, <1>10, SmallCommits DEF Send, NextTick, TypeOK
    <2>2. inChan' \in 0..ChanCap
      BY <1>10, PollerAssumption DEF Send, TypeOK
    <2>3. emitted' \in [Watches -> [Commits -> Nat]]
      BY <1>10, <2>1 DEF Send, TypeOK
    <2>4. lost' \subseteq Watches \X Commits
      BY <1>10, <2>1 DEF Send, TypeOK
    <2> QED
      BY <1>10, <2>1, <2>2, <2>3, <2>4 DEF Send, NextTick, HeadBound, TypeOK
  <1>11. CASE UNCHANGED vars
    BY <1>11 DEF vars, HeadBound, TypeOK
  <1> QED
    BY <1>2, <1>3, <1>4, <1>5, <1>6, <1>7, <1>8, <1>9, <1>10, <1>11, <1>12
       DEF Next, WatchStep

(***************************************************************************)
(* Types: the channel never holds more than its capacity and the backoff   *)
(* never exceeds its cap, for all bounds.                                  *)
(***************************************************************************)
THEOREM TypeCorrect == Spec => []TypeOK
  <1>1. TInv => TypeOK
    BY DEF TInv
  <1> QED
    BY <1>1, InitTInv, NextTInv, PTL DEF Spec

-------------------------------------------------------------------------------
(***************************************************************************)
(* EmittedAtMostOnce alone is not inductive.  What keeps it is the order   *)
(* of the calls: a commit a watch has sent is marked; between the lookup   *)
(* and the send the watch holds a commit it has not sent, and nobody else  *)
(* sends for it; at the send the mark is in the table.                     *)
(***************************************************************************)
SentIsSeen ==
  \A w \in Watches, n \in Commits : emitted[w][n] > 0 => <<RefOf[w], n>> \in seen

\* Between lookup and send the watch holds a commit it has not sent.
HeldIsUnsent ==
  \A w \in Watches : pc[w] \in {"mark", "send"} => emitted[w][sha[w]] = 0

\* At the send the mark is in seen_commits.
SendIsMarked == \A w \in Watches : pc[w] = "send" => SeenKey(w) \in seen

\* The inductive invariant.
OnceInv == EmittedAtMostOnce /\ SentIsSeen /\ HeldIsUnsent /\ SendIsMarked

\* Nothing was emitted at the start.
LEMMA InitOnceInv == Init => OnceInv
  <1> SUFFICES ASSUME Init PROVE OnceInv
    OBVIOUS
  <1>1. \A w \in Watches, n \in Commits : emitted[w][n] = 0
    BY DEF Init
  <1>2. \A w \in Watches : pc[w] = "wait"
    BY DEF Init
  <1> QED
    BY <1>1, <1>2 DEF OnceInv, EmittedAtMostOnce, SentIsSeen, HeldIsUnsent, SendIsMarked

\* Every step of the poller keeps it.
LEMMA NextOnceInv == TInv /\ OnceInv /\ [Next]_vars => OnceInv'
  <1> SUFFICES ASSUME TInv, OnceInv, [Next]_vars PROVE OnceInv'
    OBVIOUS
  <1>1. TypeOK
    BY DEF TInv
  <1> USE DEF OnceInv, EmittedAtMostOnce, SentIsSeen, HeldIsUnsent, SendIsMarked, SeenKey
  <1>2. ASSUME NEW k \in Refs, Push(k) PROVE OnceInv'
    BY <1>2 DEF Push
  <1>3. CASE Forward
    BY <1>3 DEF Forward
  <1>4. CASE Restart
    BY <1>4 DEF Restart
  <1>5. ASSUME NEW w \in Watches, AddTrigger(w) \/ DeleteTrigger(w) PROVE OnceInv'
    BY <1>5 DEF AddTrigger, DeleteTrigger
  <1>13. ASSUME NEW p \in Projects, DeleteProject(p) PROVE OnceInv'
    BY <1>13 DEF DeleteProject
  <1>6. ASSUME NEW w \in Watches, Fetch(w) PROVE OnceInv'
    BY <1>1, <1>6 DEF Fetch, TypeOK
  <1>7. ASSUME NEW w \in Watches, FetchRateLimited(w) \/ FetchError(w) PROVE OnceInv'
    BY <1>7 DEF FetchRateLimited, FetchError
  <1>8. ASSUME NEW w \in Watches, Check(w) PROVE OnceInv'
    <2>1. CASE IsSeen(w)
      BY <1>1, <1>8, <2>1 DEF Check, NextTick, TypeOK
    <2>2. CASE ~IsSeen(w)
      \* What is not marked was never sent, so the held commit is unsent.
      <3>1. emitted[w][sha[w]] = 0
        BY <1>1, <2>2 DEF IsSeen, TypeOK
      <3> QED
        BY <1>1, <1>8, <2>2, <3>1 DEF Check, TypeOK
    <2> QED
      BY <2>1, <2>2
  <1>9. ASSUME NEW w \in Watches, MarkSeen(w) PROVE OnceInv'
    BY <1>1, <1>9 DEF MarkSeen, TypeOK
  <1>10. ASSUME NEW w \in Watches, Send(w) PROVE OnceInv'
    <2>1. sha[w] \in Commits /\ emitted[w][sha[w]] = 0 /\ <<RefOf[w], sha[w]>> \in seen
      BY <1>1, <1>10 DEF Send, TypeOK
    <2>2. CASE inChan < ChanCap
      <3>1. \A x \in Watches, n \in Commits :
              emitted'[x][n] = IF x = w /\ n = sha[w] THEN 1 ELSE emitted[x][n]
        BY <1>1, <1>10, <2>1, <2>2 DEF Send, TypeOK
      <3>2. EmittedAtMostOnce' /\ SentIsSeen'
        BY <1>10, <2>1, <3>1 DEF Send
      <3>3. HeldIsUnsent'
        BY <1>1, <1>10, <3>1 DEF Send, NextTick, TypeOK
      <3> QED
        BY <1>1, <1>10, <3>2, <3>3 DEF Send, NextTick, TypeOK
    <2>3. CASE ~(inChan < ChanCap)
      BY <1>1, <1>10, <2>3 DEF Send, NextTick, TypeOK
    <2> QED
      BY <2>2, <2>3
  <1>11. ASSUME NEW w \in Watches, StoreError(w) PROVE OnceInv'
    BY <1>1, <1>11 DEF StoreError, NextTick, TypeOK
  <1>12. CASE UNCHANGED vars
    BY <1>12 DEF vars
  <1> QED
    BY <1>2, <1>3, <1>4, <1>5, <1>6, <1>7, <1>8, <1>9, <1>10, <1>11, <1>12,
       <1>13 DEF Next, WatchStep

(***************************************************************************)
(* A watch emits a commit at most once, over any number of errors and      *)
(* restarts and whatever the other watches of its ref do: runWatch marks   *)
(* before it sends (poller.go:145, 172) and the mark is never taken back.  *)
(***************************************************************************)
THEOREM NoCommitTwice == Spec => []EmittedAtMostOnce
  <1>1. OnceInv => EmittedAtMostOnce
    BY DEF OnceInv
  <1> QED
    BY <1>1, InitTInv, NextTInv, InitOnceInv, NextOnceInv, PTL DEF Spec

-------------------------------------------------------------------------------
(***************************************************************************)
(* The one watch that accounts for a marked commit stays that way: nothing *)
(* is unsent, and a commit about to be sent ends up sent or lost.          *)
(***************************************************************************)
Accounts(w, n) ==
  \/ emitted[w][n] > 0
  \/ pc[w] = "send" /\ sha[w] = n
  \/ <<w, n>> \in lost

\* No step of the poller takes that away.
LEMMA AccountStays ==
  ASSUME TInv, [Next]_vars, NEW w \in Watches, NEW n \in Commits, Accounts(w, n)
  PROVE  Accounts(w, n)'
  <1>1. TypeOK
    BY DEF TInv
  <1> USE DEF Accounts
  <1>2. ASSUME NEW k \in Refs, Push(k) PROVE Accounts(w, n)'
    BY <1>2 DEF Push
  <1>3. CASE Forward
    BY <1>3 DEF Forward
  <1>4. CASE Restart
    BY <1>4 DEF Restart
  <1>5. ASSUME NEW x \in Watches, AddTrigger(x) \/ DeleteTrigger(x) PROVE Accounts(w, n)'
    BY <1>5 DEF AddTrigger, DeleteTrigger
  <1>11. ASSUME NEW p \in Projects, DeleteProject(p) PROVE Accounts(w, n)'
    BY <1>11 DEF DeleteProject
  <1>6. ASSUME NEW x \in Watches, Fetch(x) PROVE Accounts(w, n)'
    BY <1>1, <1>6 DEF Fetch, TypeOK
  <1>7. ASSUME NEW x \in Watches, FetchRateLimited(x) \/ FetchError(x)
        PROVE  Accounts(w, n)'
    BY <1>7 DEF FetchRateLimited, FetchError
  <1>8. ASSUME NEW x \in Watches, Check(x) \/ MarkSeen(x) \/ StoreError(x)
        PROVE  Accounts(w, n)'
    BY <1>1, <1>8 DEF Check, MarkSeen, StoreError, NextTick, TypeOK
  <1>9. ASSUME NEW x \in Watches, Send(x) PROVE Accounts(w, n)'
    <2>1. CASE inChan < ChanCap
      <3>1. emitted'[w][n] = IF w = x /\ n = sha[x] THEN emitted[w][n] + 1
                             ELSE emitted[w][n]
        BY <1>1, <1>9, <2>1 DEF Send, TypeOK
      <3>2. emitted[w][n] \in Nat
        BY <1>1 DEF TypeOK
      <3> QED
        BY <1>1, <1>9, <2>1, <3>1, <3>2 DEF Send, NextTick, TypeOK
    <2>2. CASE ~(inChan < ChanCap)
      BY <1>1, <1>9, <2>2 DEF Send, NextTick, TypeOK
    <2> QED
      BY <2>1, <2>2
  <1>10. CASE UNCHANGED vars
    BY <1>10 DEF vars
  <1> QED
    BY <1>2, <1>3, <1>4, <1>5, <1>6, <1>7, <1>8, <1>9, <1>10, <1>11 DEF Next, WatchStep

(***************************************************************************)
(* Only MarkSeen adds to seen_commits, and the watch that does is then     *)
(* about to send what it marked.                                           *)
(***************************************************************************)
LEMMA NewlySeen ==
  ASSUME TInv, [Next]_vars, NEW k \in Refs, NEW n \in Commits,
         <<k, n>> \in seen', <<k, n>> \notin seen
  PROVE  \E w \in Watches : RefOf[w] = k /\ Accounts(w, n)'
  <1>1. PICK w \in Watches : MarkSeen(w)
    <2>1. seen' # seen
      OBVIOUS
    <2> QED
      BY <2>1 DEF Next, vars, WatchStep, Push, Forward, Restart, AddTrigger, DeleteTrigger,
                  DeleteProject, Check, Send, Fetch, FetchRateLimited, FetchError, StoreError
  <1>2. <<k, n>> = <<RefOf[w], sha[w]>>
    BY <1>1 DEF MarkSeen, SeenKey
  <1>3. RefOf[w] = k /\ sha[w] = n
    BY <1>2
  <1> QED
    BY <1>1, <1>3 DEF MarkSeen, Accounts, TInv, TypeOK

(***************************************************************************)
(* Nothing vanishes from the pipeline unnoticed: every entry of            *)
(* seen_commits was emitted, is about to be, was dropped at a full channel *)
(* or fell to a process that ended between mark and send.                  *)
(***************************************************************************)
THEOREM SeenCommitsAccounted == Spec => []SeenIsAccounted
  <1>1. Init => SeenIsAccounted
    BY DEF Init, SeenIsAccounted
  <1>2. TInv /\ SeenIsAccounted /\ [Next]_vars => SeenIsAccounted'
    <2> SUFFICES ASSUME TInv, SeenIsAccounted, [Next]_vars,
                        NEW k \in Refs, NEW n \in Commits, <<k, n>> \in seen'
                 PROVE  \E w \in Watches : RefOf[w] = k /\ Accounts(w, n)'
      BY DEF SeenIsAccounted, Accounts
    <2>1. CASE <<k, n>> \in seen
      <3>1. PICK w \in Watches : RefOf[w] = k /\ Accounts(w, n)
        BY <2>1 DEF SeenIsAccounted, Accounts
      <3> QED
        BY <3>1, AccountStays
    <2>2. CASE <<k, n>> \notin seen
      BY <2>2, NewlySeen
    <2> QED
      BY <2>1, <2>2
  <1> QED
    BY <1>1, <1>2, InitTInv, NextTInv, PTL DEF Spec
===============================================================================
