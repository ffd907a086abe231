--------------------------- MODULE MCEarlyBootstrap ---------------------------
(* Model-checking instance of EarlyBootstrap over the peers, addnode list, *)
(* directory answers and heights of MCManagerCaller.                       *)
EXTENDS EarlyBootstrap

CONSTANTS p1, p2, p3

MCPeers == {p1, p2, p3}

MCBootNodes == << p1, p3 >>

MCDirAnswers == { << >>, << p2, p3 >> }

MCHeights == {0, 1}

\* The three start_sync() versions under bootstrap() B1.
MCRevisionsB1 == {"stub", "fetch", "continue"}

\* bootstrap() B2.
MCRevisionsB2 == {"B2"}
=============================================================================
