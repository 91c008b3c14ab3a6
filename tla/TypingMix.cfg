CONSTANTS
    None = None
    Characters <- TheCharacters
    Letters <- TwoLetters
    Keywords <- OneKeyword
    Phrases <- TwoPhrases
    Expansion <- AllExpansions
    Recased <- TwoRenderings
    Limit <- MixLimit
    Others <- OtherKinds
    MaxText = 4
    MaxJobs = 3
SPECIFICATION Spec
INVARIANTS
    BufferIsSuffix
    ErasesOwnTrigger
    ErasesOwnOutput
CHECK_DEADLOCK FALSE
