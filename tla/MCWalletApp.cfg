CONSTANTS
    p1 = p1
    p2 = p2
    p3 = p3
    s1 = s1
    s2 = s2
    NoSession = NoSession
    Peers <- MCPeers
    BootNodes <- MCBootNodes
    DirAnswers <- MCDirAnswers
    Heights <- MCHeights
    Sessions <- MCSessions

SPECIFICATION Spec

INVARIANT ShownIsOwnResult

PROPERTY PublishedIsShown
