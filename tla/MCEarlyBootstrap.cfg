CONSTANTS
    p1 = p1
    p2 = p2
    p3 = p3
    Peers <- MCPeers
    BootNodes <- MCBootNodes
    DirAnswers <- MCDirAnswers
    Heights <- MCHeights
    Revisions <- MCRevisionsB1

SPECIFICATION Spec

\* bootstrap() is the only call of this model: it stops once it returns.
CHECK_DEADLOCK FALSE

INVARIANT BootstrapEndsNotSyncing
INVARIANT HeightsAgree
