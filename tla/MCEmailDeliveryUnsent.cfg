\* One mark event the bus delivers twice; the provider may refuse the mail.
SPECIFICATION Spec
CONSTANTS
  Keys = {k1}
  Deliveries = {1}
  Messages = {1, 2}
  Events = {"transient"}
  Slots = {s1}
  MaxRetries = 1
  Faults = TRUE
  MaxTries = 2
  MaxNotices = 1
  Nil = Nil
INVARIANT AckedMeansSent
CHECK_DEADLOCK FALSE
