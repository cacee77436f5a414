CONSTANTS
  Sizes = {0, 1, 2, 3}
  MaxAppended = 6
  MaxViews = 4
  SizeT = 100
SPECIFICATION Spec
INVARIANTS PendingIsUnsent UnackedBytesKept Accounting UnsentExact
PROPERTY ImplementsByteStream
