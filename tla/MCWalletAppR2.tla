---------------------------- MODULE MCWalletAppR2 ----------------------------
(* Model-checking instance of WalletAppR2: two wallet sessions in a row    *)
(* over the peers and heights of MCManagerCaller.                          *)
EXTENDS WalletAppR2

CONSTANTS p1, p2, p3, s1, s2

MCPeers == {p1, p2, p3}

MCBootNodes == << p1, p3 >>

MCDirAnswers == { << >>, << p2, p3 >> }

MCHeights == {0, 1}

MCSessions == {s1, s2}
=============================================================================
