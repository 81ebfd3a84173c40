SPECIFICATION FairSpec
CONSTANTS
    Workers = {w1, w2, w3}
    Places = {home, both}
    Lan = {home, both}
    Cloud = {both}
    None = None
    Capacity = 1
    MaxChanges = 2
    MaxTokens = 1
INVARIANTS
    TypeOK
    CurrentServes
PROPERTIES
    TokenBackOnlyByAbandoned
    AbandonedLanEnds
    AbandonedCloudEnds
    PictureSettles
CHECK_DEADLOCK FALSE
