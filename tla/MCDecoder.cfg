CONSTANTS
  Tables <- MCTables
  Units <- MCUnits
  Word = 4
  Lens = {5}
  MaxDepths = {0, 3}
  DefaultDepthLimit = 1
  BadByte = 2
  EncodedEntry <- EntryUnits
  EncodeRefuses <- EncodeFails
SPECIFICATION Spec
CHECK_DEADLOCK FALSE
INVARIANTS DecodesContent OkIsSound
PROPERTIES ImplementsCursor Terminates
