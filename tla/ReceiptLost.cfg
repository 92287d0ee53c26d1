SPECIFICATION Spec
CONSTANTS
  MaxOut = 1
  MaxCrash = 0
INVARIANT ReceiptIsShown
CHECK_DEADLOCK FALSE
