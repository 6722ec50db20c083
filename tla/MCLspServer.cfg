CONSTANTS
  a = a
  b = b
  Uris = {a, b}
  Texts = {t1, t2, p1}
  PanicTexts = {p1}
  Batches <- MCBatches
  NoDoc = NoDoc
  MaxRequests = 2
  MaxEdits = 3
  PipeSize = 1
SPECIFICATION Spec
INVARIANTS TypeOK BuffersMirrored DiagnosticsMirrored IndexMirrored AnsweredInOrder AnsweredFromBuffer
PROPERTY EveryRequestAnswered
CHECK_DEADLOCK FALSE
