SPECIFICATION Spec
CONSTANTS
  d1 = d1
  d2 = d2
  w1 = w1
  w2 = w2
  b1 = b1
  b2 = b2
  Doc = {d1}
  Worker = {w1}
  Bytes = {b1}
  Upload = Upload
  None = None
  NoDoc = NoDoc
  Mode = {"upload"}
  MaxAttempts = 2
  MaxRetries = 1
  MaxFaults = 0
CHECK_DEADLOCK FALSE
INVARIANT BytesInTheirPlace
