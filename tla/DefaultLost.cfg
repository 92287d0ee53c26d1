SPECIFICATION EnrollmentSpec
CONSTANTS
  Threads = {t1, t2}
  Claudes = {p1}
  MaxCommands = 2
  Kinds = {"connect"}
  NoPeer = NoPeer
PROPERTIES
  DefaultIsChosen
CHECK_DEADLOCK FALSE
