SPECIFICATION Spec
CONSTANTS
  Bytes <- MCBytes
  FF = 255
  SOI = 216
  EOI = 217
  SOS = 218
  APP1 = 225
  RST = {208}
  ByteValues = 256
  HeaderSize = 3
  MaxSize = 10
  MaxOptions = 2
INVARIANTS TypeOK HandlersSeeSegments
PROPERTY WalkEnds
\* The program ends.
CHECK_DEADLOCK FALSE
