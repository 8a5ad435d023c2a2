\* Every program whose visits nest up to five deep, run one after another.
SPECIFICATION Spec
CONSTANT MaxFrames = 5
INVARIANTS ScopesFollowFrames
PROPERTIES ScopesRestored JumpLandsOnTarget FinallySkippedOnlyByCatch
