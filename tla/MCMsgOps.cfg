CONSTANTS
  Tables <- MCTables
  Units <- MCOpUnits
  Word = 4
  Lens = {3}
  MaxDepths = {0, 3}
  DefaultDepthLimit = 2
  BadByte = 2
  EncodedEntry <- EntryUnits
  EncodeRefuses <- EncodeFails
  Ops = {"none", "merge", "clear", "clone"}
  Options <- MCOptions
SPECIFICATION OpSpec
CHECK_DEADLOCK FALSE
INVARIANTS EncodesContent DeterministicOrder EncodeBudget MergeIsFieldwise
