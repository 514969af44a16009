------------------------------- MODULE MCServer --------------------------------
\* Server for TLC: small tables and small logs.
EXTENDS Server

CONSTANTS p1, p2, root, guest, n1, n2

MCBodies == {<< >>, <<Flow>>, <<Flow, Flow>>}
MCConfigs == {<< >>, <<p1>>, <<p1, p2>>, <<p1, p1>>}
MCEstablished ==
  [u \in {root, guest} |-> IF u = root THEN [name |-> n1, role |-> "admin"]
                                       ELSE [name |-> n2, role |-> "user"]]

================================================================================
