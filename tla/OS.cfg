SPECIFICATION Spec
CONSTANTS
  Object = {o1}
  Attachment = {a1}
  Worker = {w1, w2}
  Size <- MCSize
  MaxObjects = 2
  MaxBytes = 2
  Nobody = Nobody
  MaxFaults = 2
INVARIANTS TypeOK QuotaKept ReadyHasBlob Accounted
PROPERTIES Drained RoomReturned
