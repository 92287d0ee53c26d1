SPECIFICATION Spec
CONSTANTS
  Unlimited = Unlimited
  h1 = h1
  h2 = h2
  MaxMsg = 1
  HopLimited = {}
  Late = {}
  Modes = {"auto"}
  Limits = {Unlimited}
  HookBatch = 4
  Hooks = {h1}
  HookEvents = {"boundary", "tool"}
  Commands = {}
  MaxTurn = 0
  MaxCrash = 0
PROPERTY ActivityClearsMarker
