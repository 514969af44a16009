------------------------------- MODULE RepoCache -------------------------------
(***************************************************************************)
(* The bare clone of one repository and the worktrees made from it, as     *)
(* internal/runner/clone.go and the checkout of runner.go use them.        *)
(*                                                                         *)
(* Branch b of the repository on GitHub has the commits 1..upstream[b].    *)
(* What git does is external and was tried out with git 2.39: a bare clone *)
(* has no fetch refspec, so "git fetch --all" brings the commits of the    *)
(* default branch and moves no ref; git killed during a clone leaves the   *)
(* directory as far as it got, git that fails by itself removes it.        *)
(***************************************************************************)
EXTENDS Naturals

CONSTANTS
  Branches,    \* branches of the repository
  Default,     \* its default branch
  MaxPushes    \* bound: commits per branch

ASSUME CacheAssumption == Default \in Branches /\ MaxPushes \in Nat \ {0}

VARIABLES
  upstream,  \* commits of each branch on GitHub
  bareDir,   \* the directory: "none", "void" (no repository), "init" (no remote), "linked"
  objects,   \* commits of each branch in the bare clone
  refs       \* refs/heads: a commit of the branch, 0 for no ref

cache == <<bareDir, objects, refs>>

Partial == {"void", "init", "linked"}

NoCommits == [b \in Branches |-> 0]

CacheInit ==
  /\ upstream = [b \in Branches |-> 1]
  /\ bareDir = "none"
  /\ objects = NoCommits
  /\ refs = NoCommits

\* Somebody pushes to GitHub.
Push(b) ==
  /\ upstream[b] < MaxPushes
  /\ upstream' = [upstream EXCEPT ![b] = @ + 1]
  /\ UNCHANGED cache

\* os.Stat(bareDir)
BareExists == bareDir # "none"

\* git clone --bare makes the directory and fills it.
CloneBegins ==
  /\ ~BareExists
  /\ bareDir' \in Partial
  /\ UNCHANGED <<objects, refs>>

CloneEnds ==
  /\ bareDir' = "linked"
  /\ objects' = upstream
  /\ refs' = upstream

\* Network, disk: git takes the directory away again.
CloneFails ==
  /\ bareDir' = "none"
  /\ UNCHANGED <<objects, refs>>

\* Mutant: an existing clone is used as it is.
MutFetches == bareDir # "void" /\ UNCHANGED cache

\* git fetch --all succeeds: nothing without a remote, else HEAD of the remote.
Fetches ==
  /\ bareDir # "void"
  /\ objects' = IF bareDir = "linked" THEN [objects EXCEPT ![Default] = upstream[Default]]
                ELSE objects
  /\ UNCHANGED <<bareDir, refs>>

\* git rev-parse refs/heads/b, git worktree add of commit n of branch b
Resolves(b) == refs[b] # 0
HasCommit(b, n) == n <= objects[b]

CacheTypeOK ==
  /\ upstream \in [Branches -> 1..MaxPushes]
  /\ bareDir \in {"none"} \cup Partial
  /\ objects \in [Branches -> 0..MaxPushes]
  /\ refs \in [Branches -> 0..MaxPushes]
===============================================================================
