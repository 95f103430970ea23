\* One request publishes while the router subscribes two handlers.
SPECIFICATION Spec
CONSTANTS
  Topics <- MCTopics
  Handlers <- MCStartupHandlers
  Requests = {r1}
  r1 = r1
  r2 = r2
  Announces <- MCAnnounces
  TopicOf <- MCTopicOf
  Emits <- MCEmits
  DeadLetter <- MCDeadLetter
  MaxRetries = 1
  Nil = Nil
PROPERTIES DispatchReturns
CHECK_DEADLOCK FALSE
