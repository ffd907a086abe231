-------------------------- MODULE MCManagerCaller --------------------------
(* Model-checking instance of ManagerCaller: three peers, a fallback list  *)
(* of two of them, a directory that answers either an empty list or two    *)
(* other peers, and heights 0 (genesis / unknown) and 1.                   *)
EXTENDS ManagerCaller

CONSTANTS p1, p2, p3

MCPeers == {p1, p2, p3}

MCBootNodes == << p1, p3 >>

MCDirAnswers == { << >>, << p2, p3 >> }

MCHeights == {0, 1}
=============================================================================
