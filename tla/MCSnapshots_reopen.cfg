SPECIFICATION Spec
CONSTANTS
  large = large
  small = small
  c1 = c1
  c2 = c2
  c3 = c3
  h1 = h1
  h2 = h2
  Writers = {small}
  StoreOf <- MCStoreOf
  HeadPath <- MCHeadPath
  PageItems = 3
  MaxDepth = 32
  Dash <- MCDash
  Slash <- MCSlash
  MaxTampering = 0
  MaxRaises = 0
  None = None
INVARIANTS
  SealedReopens
CHECK_DEADLOCK FALSE
