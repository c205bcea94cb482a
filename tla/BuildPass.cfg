SPECIFICATION Spec
CONSTANTS
  MaxVersion = 2
  Interruptible = TRUE
INVARIANTS OkMeansBuilt FreshRecovers
