SPECIFICATION Spec
INVARIANTS
  DecodesRight
  CsrsDistinct
  HandlerCsrsReach
CHECK_DEADLOCK FALSE
