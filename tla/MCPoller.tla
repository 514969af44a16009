------------------------------- MODULE MCPoller -------------------------------
(***************************************************************************)
(* Poller for TLC: the first watch is a project of its own.  It and one of *)
(* another project are on one branch; the third is on a pull request.      *)
(***************************************************************************)
EXTENDS Poller

CONSTANTS w1, w2, w3

MCRefOf   == [w \in Watches |-> IF w = w3 THEN "pr" ELSE "branch"]
MCProjectOf == [w \in Watches |-> IF w = w1 THEN "P" ELSE "Q"]
MCMaxHead == [k \in Refs |-> IF k = "pr" THEN 1 ELSE 2]
===============================================================================
