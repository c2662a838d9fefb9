SPECIFICATION Spec
CONSTANTS
  None = None
  Operations <- MCOperations
  Inputs <- MCInputs
  GrantLists <- MCGrantLists
  SafeInteger = {0, 1, 2}
  IndexToken <- MCIndexToken
  MaxBytes = 4
  MaxDepth = 3
  MaxProperties = 2
  MaxItems = 2
  MaxResource = 2
INVARIANTS InputIsDeclared DeclaredDepthSuffices GrantsAreExact
CHECK_DEADLOCK FALSE
