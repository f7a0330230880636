SPECIFICATION FairSpec
CONSTANTS
  worker = worker
  engine = engine
  observability = observability
  command = command
  terminal = terminal
  c1 = c1
  c2 = c2
  t1 = t1
  t2 = t2
  Nobody = Nobody
  Messages = {c1, c2, t1}
  Subscriptions = {worker, engine, observability}
  Topics = {command, terminal}
  Selects <- MCSelects
  MaxInFlight <- MCMaxInFlight
  TopicOf <- MCTopicOf
  Waiters = {w1}
  Prompt = {engine, observability}
INVARIANTS CountersExact NoLostWakeup CauseFirst
PROPERTIES IdleIsIdle ImplementsMailbox Served IdleComes
CHECK_DEADLOCK FALSE
