\* Two recipients, two calls of Send (for one event or for both), two goroutines,
\* both mails and a retry of one of them, two webhook calls.
SPECIFICATION Spec
CONSTANTS
  Keys = {k1, k2}
  Deliveries = {1, 2}
  Messages = {1, 2, 3}
  Events = {"permanent", "transient", "delivery"}
  Slots = {s1, s2}
  MaxRetries = 1
  Faults = TRUE
  MaxTries = 2
  MaxNotices = 2
  Nil = Nil
INVARIANTS OneFirstMail RetryBudget OwnMessage BouncedOptedOut
PROPERTIES SubmittedFirst PendingResolves
CHECK_DEADLOCK FALSE
