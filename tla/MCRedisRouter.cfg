SPECIFICATION Spec
CONSTANTS
  api = api
  worker = worker
  r1 = r1
  r2 = r2
  command = command
  terminal = terminal
  c1 = c1
  t1 = t1
  x1 = x1
  work = work
  observe = observe
  Nobody = Nobody
  Messages = {c1, t1, x1}
  StrayTo <- MCStrayTo
  Topics = {command, terminal}
  Routes = {r1, r2}
  Subscriptions = {work, observe}
  Catalog <- MCCatalog
  Manifests <- MCManifests
  TopicOf <- MCTopicOf
  MaxInFlight <- MCMaxInFlight
  ReadCount <- MCReadCount
  MaxFaults = 1
  MaxStarts = 3
INVARIANTS AllIsAccounted StopIsClean CauseFirst RestIsDone
PROPERTIES ImplementsAtMostOnce
CHECK_DEADLOCK FALSE
