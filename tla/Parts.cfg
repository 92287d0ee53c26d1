SPECIFICATION PartsSpec
CONSTANTS
  MaxOut = 2
  MaxCrash = 2
  Threads = {t1, t2}
  Claudes = {p1}
  MaxCommands = 2
  Kinds = {"connect", "start", "stop"}
  NoPeer = NoPeer
  HookEvents = {"UserPromptSubmit", "Stop"}
  TurnEndings = {"turn_aborted"}
  MaxTurn = 2
  MaxHooks = 2
  MaxOwner = 2
  MaxStarts = 1
  MaxMessages = 3
  Batch = 1
  Window = 2
  MaxListenerCrash = 1
  Senders = {s1, s2}
  MaxNotice = 2
  ChatPeers = {x, y}
  Pids = {i1, i2}
  MaxProcess = 2
  MaxClients = 1
  MaxConnects = 2
  Bridges = {a, b}
  MaxSends = 4
  HopLimit = 3
  ChainLimit = 3
  MaxLine = 2
  MaxBytes = 5
  Unlimited = Unlimited
  Given = {0, 1, Unlimited}
  Sessions = {c1}
  Custom = {c1}
  MaxTab = 2
INVARIANTS
  PartsTypeOK
  SentOnce
  StatusIsHonest
  WritingIsOwned
  ConnectedBothWays
  PhaseFollowsHooks
  AdvisedOnce
  NoticesAreKept
  LoopsEnd
  LinesAreWhole
  ReachableIsDelivered
  NoSilentBlock
  OpenTabsAreListed
PROPERTIES
  HandsOver
  SendIsDecided
  EnrollmentsSurvive
  EndIsNoticed
  BlockedIsAdvised
  PeersAreRecognised
  PlacesComeFree
CHECK_DEADLOCK FALSE
