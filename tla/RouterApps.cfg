CONSTANTS
  Owners = {p1, p2, p3}
  NumIds = 2
  CleansUp = FALSE
  Ctxs = {c1, c2, c3}
  NoCtx = NoCtx
SPECIFICATION Spec
SYMMETRY MCSymmetry
INVARIANTS TypeOK IdsConserved RegisteredIsReachable
