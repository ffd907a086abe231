----------------------------- MODULE MCWalletApp -----------------------------
(* Model-checking instance of WalletApp: two wallet sessions in a row, so  *)
(* that the first session's task can still be running when the second     *)
(* session's Arc is on screen, over the peers and heights of               *)
(* MCManagerCaller.                                                        *)
EXTENDS WalletApp

CONSTANTS p1, p2, p3, s1, s2

MCPeers == {p1, p2, p3}

MCBootNodes == << p1, p3 >>

MCDirAnswers == { << >>, << p2, p3 >> }

MCHeights == {0, 1}

MCSessions == {s1, s2}
=============================================================================
