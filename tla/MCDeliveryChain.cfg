\* The user stops when the merges and edits are used up, or when edited
\* evidence lets no command do anything any more.
SPECIFICATION Spec
CHECK_DEADLOCK FALSE
CONSTANTS
    MaxMerges = 2
    MaxTouches = 1
INVARIANT TypeOK
INVARIANT AgentEvidenceMatches
INVARIANT FiguresShowLedger
PROPERTY RebuildReproduces
