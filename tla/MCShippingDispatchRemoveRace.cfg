\* A draft is removed while the batch is being closed.
SPECIFICATION Spec
CONSTANTS
  Marks = {1}
  Batches = {b1}
  Orders = {o1}
  Quotes = {q1}
  Carriers = {tcc}
  Registered = {tcc}
  Manual = {}
  Slots = {s1, s2}
  Ops = {"CreateBatch", "DraftMark", "Close", "RemoveDraftMark"}
  Faults = FALSE
  ChangedRows = FALSE
  MaxAccept = 1
  Nil = Nil
PROPERTIES
  OnlyDraftsDeleted
CHECK_DEADLOCK FALSE
