SPECIFICATION Spec
CONSTANTS
  large = large
  small = small
  c1 = c1
  c2 = c2
  c3 = c3
  h1 = h1
  h2 = h2
  Writers = {large, small}
  StoreOf <- MCStoreOf
  HeadPath <- MCHeadPath
  PageItems = 3
  MaxDepth = 32
  Dash <- MCDash
  Slash <- MCSlash
  MaxTampering = 1
  MaxRaises = 1
  None = None
INVARIANTS
  OpensWhatWasSealed
  OnlyTamperingRefuses
CHECK_DEADLOCK FALSE
