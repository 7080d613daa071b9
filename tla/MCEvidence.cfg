SPECIFICATION Spec
CONSTANTS
  r1 = r1
  r2 = r2
  b1 = b1
  b2 = b2
  Nonces <- NonceTexts
  Projects <- ProjectKeys
  Reports = {r1, r2}
  Bundles = {b1, b2}
  Provenances = {p1, p2}
  MaxRuns = 2
SYMMETRY Symmetry
INVARIANTS
  VerifiedIsAttested
  OneAnswerPerNonce
CHECK_DEADLOCK FALSE
