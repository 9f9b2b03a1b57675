\* One client and one job; a queue of two, two attempts, one stop or kill.
SPECIFICATION FairSpec
CONSTANTS
  g = g
  x = x
  Client = {1}
  Job = {101}
  Addr = {x}
  NoAddr = NoAddr
  Game = {g}
  Subject <- MCSubject
  Producer <- MCProducer
  Kind <- MCKind
  WebhookEvents = {"suspected", "resolved", "done", "error"}
  MAX_QUEUE_SIZE = 2
  DELIVERY_ATTEMPTS = 2
  AGENT_REPORT_KEEP = 1
  Reported <- MCReported
  Ending = {"done", "cancelled"}
  MaxOutside = 3
  MaxRestarts = 1
INVARIANTS
  TypeOK
  AnswersAddUp
  VerdictIsAnnounced
  OutcomeIsAnnounced
  OnlyRivalsSqueeze
PROPERTIES
  InOrder
  NothingLingers
  SuspicionIsAnnounced
CHECK_DEADLOCK FALSE
