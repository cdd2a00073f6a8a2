SPECIFICATION Spec
CONSTANTS
  p = p
  q = q
  m = m
  y = y
  usd = usd
  eur = eur
  s1 = s1
  s1spaced = s1spaced
  s9 = s9
  k1 = k1
  acc1 = acc1
  acc2 = acc2
  NoReference = NoReference
  NoPolicy = NoPolicy
  MaxMinor = 5
  Normalized <- MCNormalized
  Trimmed <- MCNormalized
  Bundles <- MCBundles
INVARIANTS
  TransactionsMatchOracle
  SettlementsMatchOracle
  CaptureNotExceeded
  BankConserved
  ReplayChangesNothing
  StatesInStep
  SparkMatchesHistory
  PublishedRestatesEverything
PROPERTIES
  EvidenceKept
