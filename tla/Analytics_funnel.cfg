SPECIFICATION Spec
CONSTANTS
  a1 = a1
  a2 = a2
  a3 = a3
  Apps = {a1, a2, a3}
  Portfolios <- MCPortfolios
  None = None
INVARIANT FunnelServed
