\* Two requests publish while and after the router subscribes four handlers; each
\* handler is tried twice.
SPECIFICATION Spec
CONSTANTS
  Topics <- MCTopics
  Handlers <- MCHandlers
  Requests = {r1, r2}
  r1 = r1
  r2 = r2
  Announces <- MCAnnounces
  TopicOf <- MCTopicOf
  Emits <- MCEmits
  DeadLetter <- MCDeadLetter
  MaxRetries = 1
  Nil = Nil
INVARIANTS NoWaitCycle
PROPERTIES SettledOnReturn HandledOnce PublishReturns
CHECK_DEADLOCK FALSE
