CONSTANTS
  None = None
  Loop = loop
  Callers = {u1, u2}
  Commands = {c1, c2}
  TtlCommands = {}
  TtlThreads = {}
  Ttl = 2
  TicketRace = TRUE
  EarlyCancel = FALSE
  UserCloses = FALSE
SPECIFICATION Spec
INVARIANTS
  AnsweredOnce
