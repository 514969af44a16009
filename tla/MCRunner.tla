------------------------------- MODULE MCRunner -------------------------------
(***************************************************************************)
(* Runner for TLC.  Two workflow families: every graph over the jobs       *)
(* (self-needs and cycles included; job "a" may also need an unknown one), *)
(* and one chain.                                                          *)
(***************************************************************************)
EXTENDS Runner

AllGraphs   ==
  {g \in [JobIDs -> SUBSET (JobIDs \cup {"unknown"})] :
     \A id \in JobIDs \ {"a"} : "unknown" \notin g[id]}
ChainGraphs ==
  {[id \in JobIDs |-> CASE id = "b" -> {"a"} [] id = "c" -> {"b"} [] OTHER -> {}]}
===============================================================================
