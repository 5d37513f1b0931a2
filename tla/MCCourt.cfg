CONSTANTS
  r1 = r1
  r2 = r2
  Runs <- MCRuns
  Cases <- MCCases
  Raw = {r2}
  Seconds = {1}
  None = None
SPECIFICATION Spec
INVARIANTS VerdictsAnswered ReceiptComplete
PROPERTIES CourtsEnd
CHECK_DEADLOCK FALSE
