CONSTANTS
  NThread = 4
  JoinAny = FALSE
  YieldAlone = FALSE
SPECIFICATION Spec
INVARIANTS JoinidValid JoinInv ExitFindsThread
PROPERTY PromiseSpec
