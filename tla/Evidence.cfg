SPECIFICATION EvidenceSpec
SYMMETRY SymEvidence
CONSTANTS
  \* the bridge
  Workers = {w1, w2}
  Facts = 2
  PageSize = 1
  Exports = {e1, e2}
  Corrections = {1}
  MaxOther = 1
  MaxStops = 1
  \* the judgment
  Evidence <- MCRows
  KindOf <- MCKindOf
  ClaimOf <- MCClaimOf
  Oversized = {}
  MaxItems = 4
  MaxAge <- MCMaxAge
  Window = 1
  Skew = 1
  MaxTime = 1
  Proposals <- MCProposals
INVARIANTS
  StoresAgree
  CursorCovers
PROPERTIES
  ReadyIsSupported
