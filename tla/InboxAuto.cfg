SPECIFICATION Spec
CONSTANTS
  Unlimited = Unlimited
  h1 = h1
  h2 = h2
  MaxMsg = 2
  HopLimited = {}
  Late = {2}
  Modes = {"auto"}
  Limits = {1}
  HookBatch = 4
  Hooks = {h1}
  HookEvents = {"boundary", "owner", "external"}
  Commands = {"window", "from", "enroll", "rebind"}
  MaxTurn = 1
  MaxCrash = 1
INVARIANTS
  TypeOK
  WakesConserved
  CompletionIsCurrent
PROPERTIES
  DecidedIsFinal
