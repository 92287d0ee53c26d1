SPECIFICATION FairSpec
CONSTANTS
  Unlimited = Unlimited
  h1 = h1
  h2 = h2
  MaxMsg = 2
  HopLimited = {1}
  Late = {}
  Modes = {"auto", "queue"}
  Limits = {Unlimited}
  HookBatch = 4
  Hooks = {h1}
  HookEvents = {"boundary", "tool", "external"}
  Commands = {"mode", "read", "rebind"}
  MaxTurn = 1
  MaxCrash = 1
PROPERTIES
  IdleIsWoken
  QueueIsServed
