\* Two requests at a time, statements that fail, a process that dies.
SPECIFICATION Spec
CONSTANTS
  Marks = {1, 2}
  Batches = {b1}
  Orders = {o1}
  Quotes = {q1}
  Carriers = {tcc, manual, acme}
  Registered = {tcc, manual}
  Manual = {manual}
  Slots = {s1, s2}
  Ops = {"CreateBatch", "DraftMark", "QuoteMark", "DirectMark", "Close", "RemoveDraftMark", "UpdateDraftMark", "Void", "Generate"}
  Faults = TRUE
  ChangedRows = TRUE
  MaxAccept = 2
  Nil = Nil
SYMMETRY SlotSymmetry
INVARIANTS
  CarrierAgreement
  AcceptanceBacked
  NoResurrection
  ManualDraftsComplete
PROPERTIES
  BatchesKeepLifecycle
CHECK_DEADLOCK FALSE
