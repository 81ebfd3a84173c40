SPECIFICATION PartsSpec
CONSTANTS
    Settings <- MCSettings
    Layers = 2
    Height = 2
    Beds <- MCBeds
    Gaps = {0, 2}
    Boxes <- MCBoxes
    Names <- MCNames
    Profiles <- MCProfiles
    Skus <- MCNames
    Remote <- MCRemote
    Legacy <- MCLegacy
    Full = 2
    Blank <- MCBlank
    MaxSpools = 2
    MaxUsed = 2
    MaxChanges = 3
    Objects <- MCObjects
    Projects <- MCProjects
    Bodies <- MCBodies
    Shellings <- MCShellings
    Plans <- MCPlans
    Fans <- MCFans
    Texts <- MCTexts
    Times = {0, 3, 6}
    MaxLayer = 3
    Streams <- MCStreams
    Given <- MCGiven
    Chunk = 6
    Templates <- MCTemplates
    Meaning <- MCMeaning
    Other <- MCOther
    After <- MCAfter
INVARIANTS
    PartKeysUsed
CHECK_DEADLOCK FALSE
