------------------------------- MODULE MCDaemon -------------------------------
(***************************************************************************)
(* Daemon for TLC.  Job p is a push, m a manual trigger of the same        *)
(* project and q a push of another.  The .cfg chooses which take part.     *)
(***************************************************************************)
EXTENDS Daemon

CONSTANTS p, m, q, r1, r2, r3, r4

MCWatchOf == [j \in Jobs |-> IF j = q THEN "other" ELSE "project"]

\* p launches two runs at once; q is of a project without workflows, which
\* takes a place in the channel and in the queue and then launches nothing.
MCPipeRefs == [j \in Jobs |-> CASE j = p -> <<r1, r2>> [] j = m -> <<r3>> [] j = q -> <<>>]

\* Jobs with one workflow each.
MCSingleRefs == [j \in Jobs |-> CASE j = p -> <<r1>> [] j = m -> <<r3>> [] j = q -> <<r4>>]
===============================================================================
