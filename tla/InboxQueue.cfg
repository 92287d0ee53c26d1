SPECIFICATION Spec
CONSTANTS
  Unlimited = Unlimited
  h1 = h1
  h2 = h2
  MaxMsg = 3
  HopLimited = {1}
  Late = {}
  Modes = {"live", "queue"}
  Limits = {2}
  HookBatch = 2
  Hooks = {h1, h2}
  HookEvents = {"owner", "external"}
  Commands = {"ack", "window"}
  MaxTurn = 2
  MaxCrash = 1
SYMMETRY HookSymmetry
INVARIANTS
  HandedOnce
  HopLimitHolds
  WindowConserved
  RenewedOncePerTurn
  ForwardingIsOwned
PROPERTIES
  ConsumedIsFinal
  HeldIsFinal
  HandsOver
