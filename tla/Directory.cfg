\* Two requests that may overlap, or one and a search, and an error of the store.
SPECIFICATION Spec
CONSTANTS
  None = None
  Uins = {1, 2, 3}
  Existing = {1, 2}
  Targets = {1}
  TLVSets <- MCTLVs
  MaxRequests = 2
  MaxErrors = 1
  maxResults = 2
INVARIANT NoSharedAccount
INVARIANT SeenAsSet
PROPERTY AcknowledgedIsStored
CHECK_DEADLOCK FALSE
