CONSTANTS
    p1 = p1
    p2 = p2
    p3 = p3
    Peers <- MCPeers
    BootNodes <- MCBootNodes
    DirAnswers <- MCDirAnswers
    Heights <- MCHeights

SPECIFICATION Spec

INVARIANT ErrOnlyAfterAllPeers
