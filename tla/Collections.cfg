CONSTANTS
  Keys = {k1, k2, k3, k4}
  Values = {v1, v2}
  Elements = {zero, x}
  Zero = zero
  Requests = {0, 2, 4, 5, 7, 8, 9, 200}
  WordBits = 8
  Lg2 = 2
  LargestGrant = 8
  None = None
SPECIFICATION ColSpec
INVARIANTS IndexInverse CapacityBacked
PROPERTIES ImplementsDictionary ImplementsList
