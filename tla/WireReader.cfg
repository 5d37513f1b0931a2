CONSTANTS
  Slop = 6
  Lens = {0, 1, 2, 3, 4, 5, 6, 7, 8, 10, 13}
  Bytes = {0, 2, 7, 8, 9, 10, 11, 12, 13, 14, 27, 28, 31}
  PayloadBits = 4
  TagBytes = 2
  VarintBytes = 3
  TagBits = 7
  WordBits = 11
  Fixed32 = 2
  Fixed64 = 3
  MaxDepths = {0, 1}
  DefaultDepth = 2
  Ops = {"decode_empty", "read_varint", "read_tag", "read_size", "read_fixed32", "read_fixed64", "skip_varint", "skip_value", "skip_group", "packed"}
  GivenTags = {3, 8, 10, 11}
  Packed = {0, 1, 3}
  None = None
SPECIFICATION Spec
INVARIANTS ReadsInWindow PrimitiveExact
PROPERTIES ImplementsFields ImplementsStream
CHECK_DEADLOCK FALSE
