SPECIFICATION Spec
CONSTANTS
  d1 = d1
  d2 = d2
  w1 = w1
  w2 = w2
  b1 = b1
  b2 = b2
  Doc = {d1, d2}
  Worker = {w1}
  Bytes = {b1}
  Upload = Upload
  None = None
  NoDoc = NoDoc
  Mode = {"no_action", "read_only", "sign", "respond", "upload"}
  MaxAttempts = 1
  MaxRetries = 1
  MaxFaults = 0
CHECK_DEADLOCK FALSE
SYMMETRY Symmetric
PROPERTY ImplementsIssuedDocuments
