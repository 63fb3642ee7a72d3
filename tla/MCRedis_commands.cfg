CONSTANTS
  None = None
  Loop = loop
  Callers = {u1}
  Commands = {c1, c2, c3}
  TtlCommands = {c1, c2}
  TtlThreads = {loop}
  Ttl = 2
  TicketRace = FALSE
  EarlyCancel = FALSE
  UserCloses = TRUE
SPECIFICATION FairSpec
INVARIANTS
  AnsweredOnce
  SentOnce
  NothingForgotten
  TimersMatchConnection
  TtlIsServed
PROPERTIES
  EveryCommandAnswered
