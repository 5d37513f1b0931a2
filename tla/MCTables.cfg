CONSTANTS
  WordBits = 20
  MaskOnly = 512
  MainMessages <- MCMainMessages
  Messages <- MCMessages
  LoneMessages <- MCLoneMessages
  EnumValues <- MCEnumValues
  SmallEnums <- MCSmallEnums
  RawEnums <- MCRawEnums
  MaxPool = 3
  Probes <- MCProbes
SPECIFICATION PoolSpec
CHECK_DEADLOCK FALSE
INVARIANTS LinksFollowed DescriptorsRead MapFieldsHaveEntries EnumAnswers
